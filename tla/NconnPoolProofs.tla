-------------------------- MODULE NconnPoolProofs ---------------------------
(***************************************************************************)
(* Proofs about the connection pool, for any labels, sizes and bounds.     *)
(***************************************************************************)
EXTENDS NconnPool, FiniteSetTheorems, TLAPS

USE SchemeAssumption, SizesAssumption, BoundsAssumption, IdWidthAssumption

\* The places an object can be in, beyond what NoAliasing says.
Placed ==
  /\ free \intersect used = {}
  /\ deleted \union held \union IdleConns \subseteq used

\* An idle connection knows its id and is filed under its label; the id kept
\* by any other connection is 0 or stale for good.
IdsAgree ==
  /\ \A i \in DOMAIN idle : connId[idle[i].item] = i
  /\ \A i \in DOMAIN idle : connLabel[idle[i].item] = idle[i].label
  /\ \A c \in Conns : connId[c] = 0 \/ connId[c] < nextId
  /\ \A c \in Conns \ IdleConns :
       connId[c] # 0 => connId[c] \notin DOMAIN idle

\* Once a connection is an orphan the cache has no entry 0 to lose.
OrphanSpent ==
  /\ AtMostOneOrphan
  /\ Orphans # {} => nextId > 0 /\ 0 \notin DOMAIN idle

\* The cache respects its capacity.
IdleBound == Cardinality(DOMAIN idle) <= MaxIdle

\* The inductive invariant.
IInv ==
  /\ TypeOK
  /\ ActiveIsHeld
  /\ NoAliasing
  /\ Placed
  /\ IdsAgree
  /\ OrphanSpent
  /\ IdleBound
  /\ PoolBound

-----------------------------------------------------------------------------

\* The sets whose cardinality matters are finite.
LEMMA Finiteness ==
  ASSUME TypeOK
  PROVE  IsFiniteSet(held) /\ IsFiniteSet(DOMAIN idle)
<1>1. IsFiniteSet(1 .. MaxConns) BY FS_Interval
<1>2. IsFiniteSet(0 .. nextId - 1)
  <2>1. 0 \in Int /\ nextId - 1 \in Int BY DEF TypeOK
  <2> QED BY <2>1, FS_Interval
<1>3. held \subseteq 1 .. MaxConns BY DEF TypeOK, Conns
<1>4. DOMAIN idle \subseteq 0 .. nextId - 1 BY DEF TypeOK
<1> QED BY <1>1, <1>2, <1>3, <1>4, FS_Subset

\* The initial state satisfies the inductive invariant.
LEMMA InitIInv == Init => IInv
<1> SUFFICES ASSUME Init PROVE IInv OBVIOUS
<1> USE DEF Init, LruEmpty
<1>1. TypeOK BY DEF TypeOK, Conns, Schemes, NoLabel
<1>2. Cardinality({}) = 0 BY FS_EmptySet
<1>3. IdleConns = {} BY DEF IdleConns
<1>4. Orphans = {} BY <1>3 DEF Orphans
<1>5. ActiveIsHeld BY <1>2 DEF ActiveIsHeld
<1>6. NoAliasing BY <1>3 DEF NoAliasing
<1>7. Placed BY <1>3 DEF Placed
<1>8. IdsAgree BY DEF IdsAgree, Conns
<1>9. OrphanSpent BY <1>4 DEF OrphanSpent, AtMostOneOrphan
<1>10. IdleBound /\ PoolBound
  BY <1>2 DEF IdleBound, PoolBound
<1> QED
  BY <1>1, <1>5, <1>6, <1>7, <1>8, <1>9, <1>10 DEF IInv

\* A client getting connection c under a label keeps the active map exact.
LEMMA ActivateHeld ==
  ASSUME TypeOK, ActiveIsHeld, NEW c \in Conns \ held, NEW label \in Labels,
         AddActive(c, label), held' = held \union {c},
         connLabel' = [connLabel EXCEPT ![c] = label]
  PROVE  ActiveIsHeld'
<1>1. Cardinality(held') = Cardinality(held) + 1
  BY Finiteness, FS_AddElement
<1>2. activeSize' = Cardinality(held')
  BY <1>1 DEF ActiveIsHeld, AddActive
<1>3. \A d \in held' : connLabel'[d] = IF d = c THEN label ELSE connLabel[d]
  BY DEF TypeOK
<1>4. \A d \in held' : connLabel'[d] \in Labels
  BY <1>3 DEF ActiveIsHeld
<1>5. ASSUME NEW l \in Labels
      PROVE  active'[l] = {d \in held' : connLabel'[d] = l}
  BY <1>3 DEF ActiveIsHeld, AddActive, TypeOK
<1> QED BY <1>2, <1>4, <1>5 DEF ActiveIsHeld

\* remove_active of a connection a client gives back finds it, and keeps the
\* active map exact; of any other connection it changes nothing.
LEMMA DeactivateHeld ==
  ASSUME TypeOK, ActiveIsHeld, NEW c \in Conns, RemoveActive(c),
         held' = held \ {c}, UNCHANGED connLabel
  PROVE  /\ ActiveIsHeld'
         /\ active' \in [Labels -> SUBSET Conns]
         /\ activeSize' \in Nat
         /\ activeSize' = IF c \in held THEN activeSize - 1 ELSE activeSize
<1>1. IsFiniteSet(held) /\ IsFiniteSet(held \ {c})
  BY Finiteness, FS_RemoveElement
<1>2. Cardinality(held \ {c}) \in Nat
  BY <1>1, FS_CardinalityType
<1>3. CASE c \in held
  <2>1. IsActive(c) BY <1>3 DEF IsActive, ActiveIsHeld
  <2>2. /\ active' = [active EXCEPT ![connLabel[c]] = @ \ {c}]
        /\ activeSize' = activeSize - 1
    BY <2>1 DEF RemoveActive
  <2>3. Cardinality(held \ {c}) = Cardinality(held) - 1
    BY <1>1, <1>3, FS_RemoveElement
  <2>4. activeSize' = Cardinality(held')
    BY <2>2, <2>3 DEF ActiveIsHeld
  <2>5. ASSUME NEW l \in Labels
        PROVE  active'[l] = {d \in held' : connLabel'[d] = l}
    BY <2>2 DEF ActiveIsHeld, TypeOK
  <2>6. active' \in [Labels -> SUBSET Conns]
    BY <2>2 DEF TypeOK
  <2> QED BY <1>2, <1>3, <2>2, <2>4, <2>5, <2>6 DEF ActiveIsHeld
<1>4. CASE c \notin held
  <2>1. ~IsActive(c) BY <1>4 DEF IsActive, ActiveIsHeld
  <2>2. UNCHANGED <<active, activeSize>> BY <2>1 DEF RemoveActive
  <2>3. held' = held BY <1>4
  <2> QED BY <1>4, <2>2, <2>3 DEF ActiveIsHeld, TypeOK
<1> QED BY <1>3, <1>4

\* get_new_active handing out a free object keeps the invariant.
LEMMA ReuseFreeStep ==
  ASSUME IInv, NEW label \in Labels, activeSize < MaxActive,
         ReuseFree(label), UNCHANGED <<idle, nextId>>
  PROVE  IInv'
<1>1. PICK c \in free :
        /\ connScheme[c] = SchemeOf[label]
        /\ free' = free \ {c}
        /\ used' = used \union {c}
        /\ connLabel' = [connLabel EXCEPT ![c] = label]
        /\ AddActive(c, label)
        /\ held' = held \union {c}
        /\ UNCHANGED <<created, deleted, connId, connScheme>>
  BY DEF ReuseFree
<1>2. c \in Conns /\ c \in 1 .. created
  BY DEF IInv, TypeOK, Conns
<1>3. c \notin held /\ c \notin IdleConns /\ c \notin deleted /\ c \notin used
  BY DEF IInv, NoAliasing, Placed
<1>4. IdleConns' = IdleConns BY DEF IdleConns
<1>5. Orphans' = Orphans
  BY <1>1, <1>3, <1>4 DEF Orphans
<1>6. TypeOK'
  <2>1. active' \in [Labels -> SUBSET Conns] /\ activeSize' \in Nat
    BY <1>1, <1>2 DEF IInv, TypeOK, AddActive
  <2>2. idle' = idle /\ nextId' = nextId /\ connId' = connId
        /\ created' = created /\ deleted' = deleted /\ connScheme' = connScheme
    BY <1>1
  <2>3. used' \subseteq 1 .. created /\ free' \subseteq 1 .. created
    BY <1>1, <1>2 DEF IInv, TypeOK
  <2>4. connLabel' \in [Conns -> Labels \union {NoLabel}] /\ held' \subseteq Conns
    BY <1>1, <1>2 DEF IInv, TypeOK
  <2> QED BY <2>1, <2>2, <2>3, <2>4 DEF IInv, TypeOK
<1>7. ActiveIsHeld'
  BY <1>1, <1>2, <1>3, ActivateHeld DEF IInv, TypeOK
<1>8. NoAliasing'
  BY <1>1, <1>3, <1>4 DEF IInv, NoAliasing
<1>9. Placed'
  BY <1>1, <1>3, <1>4 DEF IInv, Placed
<1>10. connId' = connId
  BY <1>1, <1>2 DEF IInv, TypeOK
<1>11. \A i \in DOMAIN idle : idle[i].item \in Conns /\ idle[i].item # c
  BY <1>3 DEF IInv, TypeOK, IdleConns
<1>12. IdsAgree'
  BY <1>1, <1>4, <1>10, <1>11 DEF IInv, IdsAgree, TypeOK
<1>13. Orphans \subseteq Conns
  BY DEF IInv, TypeOK, Orphans, Conns
<1>14. OrphanSpent'
  BY <1>5, <1>10, <1>13 DEF IInv, OrphanSpent, AtMostOneOrphan
<1>15. IdleBound' BY DEF IInv, IdleBound
<1>16. PoolBound'
  <2>1. Cardinality(DOMAIN idle) \in Nat
    BY Finiteness, FS_CardinalityType DEF IInv
  <2> QED
    BY <1>1, <2>1 DEF IInv, IdleBound, PoolBound, AddActive, TypeOK
<1> QED
  BY <1>6, <1>7, <1>8, <1>9, <1>12, <1>14, <1>15, <1>16 DEF IInv

\* get_new_active creating an object, and deleting one of the other scheme.
LEMMA CreateNewStep ==
  ASSUME IInv, NEW label \in Labels, activeSize < MaxActive,
         CreateNew(label), UNCHANGED <<idle, nextId>>
  PROVE  IInv'
<1> DEFINE c == created + 1
<1>1. PICK dropped \in SUBSET free :
        /\ free' = free \ dropped
        /\ used' = used \union dropped \union {c}
        /\ deleted' = deleted \union dropped
  BY DEF CreateNew
<1>2. /\ c <= MaxConns
      /\ created' = c
      /\ connId' = [connId EXCEPT ![c] = 0]
      /\ connLabel' = [connLabel EXCEPT ![c] = label]
      /\ connScheme' = [connScheme EXCEPT ![c] = SchemeOf[label]]
      /\ AddActive(c, label)
      /\ held' = held \union {c}
  BY DEF CreateNew
<1>3. c \in Conns /\ c \notin 1 .. created /\ created \in Nat
  BY <1>2 DEF IInv, TypeOK, Conns
<1>4. held \union IdleConns \subseteq 1 .. created
  BY DEF IInv, TypeOK, Placed
<1>5. c \notin held \union IdleConns \union used \union free \union deleted
  BY <1>3, <1>4 DEF IInv, TypeOK
<1>6. IdleConns' = IdleConns BY DEF IdleConns
<1> HIDE DEF c
<1>7. Orphans' = Orphans
  BY <1>1, <1>2, <1>5, <1>6 DEF Orphans, IInv, Placed
<1>8. TypeOK'
  <2>1. active' \in [Labels -> SUBSET Conns] /\ activeSize' \in Nat
    BY <1>2, <1>3 DEF IInv, TypeOK, AddActive
  <2>2. connId' \in [Conns -> Nat] /\ held' \subseteq Conns
    BY <1>2, <1>3 DEF IInv, TypeOK
  <2>3. connLabel' \in [Conns -> Labels \union {NoLabel}]
    BY <1>2, <1>3 DEF IInv, TypeOK
  <2>4. connScheme' \in [Conns -> Schemes]
    BY <1>2, <1>3 DEF IInv, TypeOK, Schemes
  <2>5. created' \in 0 .. MaxConns /\ 1 .. created \subseteq 1 .. created'
        /\ c \in 1 .. created'
    BY <1>2, <1>3 DEF IInv, TypeOK, c
  <2>6. /\ used' \subseteq 1 .. created'
        /\ free' \subseteq 1 .. created'
        /\ deleted' \subseteq 1 .. created'
    BY <1>1, <2>5 DEF IInv, TypeOK
  <2>7. idle' = idle /\ nextId' = nextId OBVIOUS
  <2> QED BY <2>1, <2>2, <2>3, <2>4, <2>5, <2>6, <2>7 DEF IInv, TypeOK
<1>9. ActiveIsHeld'
  BY <1>2, <1>3, <1>5, ActivateHeld DEF IInv
<1>10. NoAliasing'
  BY <1>1, <1>2, <1>5, <1>6 DEF IInv, NoAliasing
<1>11. Placed'
  BY <1>1, <1>2, <1>5, <1>6 DEF IInv, Placed
<1>12. \A d \in Conns : connId'[d] = IF d = c THEN 0 ELSE connId[d]
  BY <1>2 DEF IInv, TypeOK
<1>13. \A i \in DOMAIN idle : /\ idle[i].item \in Conns
                              /\ idle[i].item # c
                              /\ connLabel'[idle[i].item] = connLabel[idle[i].item]
  BY <1>2, <1>5 DEF IInv, TypeOK, IdleConns
<1>14. IdsAgree'
  BY <1>6, <1>12, <1>13 DEF IInv, IdsAgree
<1>15. Orphans \subseteq Conns /\ c \notin Orphans
  BY <1>5 DEF IInv, TypeOK, Orphans, Conns
<1>16. OrphanSpent'
  BY <1>7, <1>12, <1>15 DEF IInv, OrphanSpent, AtMostOneOrphan
<1>17. IdleBound' BY DEF IInv, IdleBound
<1>18. PoolBound'
  <2>1. activeSize' <= MaxActive /\ activeSize' \in Nat
    BY <1>2 DEF AddActive, IInv, TypeOK
  <2>2. Cardinality(DOMAIN idle) \in Nat
    BY Finiteness, FS_CardinalityType DEF IInv
  <2> QED BY <1>17, <2>1, <2>2 DEF IdleBound, PoolBound
<1> QED
  BY <1>8, <1>9, <1>10, <1>11, <1>14, <1>16, <1>17, <1>18 DEF IInv

\* get_idle moves a connection from the cache to its client.
LEMMA GetIdleStep ==
  ASSUME IInv, NEW label \in Labels, GetIdle(label)
  PROVE  IInv'
<1>1. PICK i \in LruIdsOf(idle, label) :
        /\ idle' = LruWithout(idle, i)
        /\ AddActive(idle[i].item, connLabel[idle[i].item])
        /\ held' = held \union {idle[i].item}
  BY DEF GetIdle
<1>2. /\ nextId' = nextId
      /\ UNCHANGED <<created, used, free, deleted, connId, connLabel, connScheme>>
  BY DEF GetIdle, objVars, connVars
<1> DEFINE c == idle[i].item
<1>3. i \in DOMAIN idle BY DEF LruIdsOf
<1>4. c \in Conns /\ c \in IdleConns /\ connLabel[c] \in Labels
  BY <1>3 DEF IInv, TypeOK, IdsAgree, IdleConns
<1>5. c \notin held /\ c \notin free /\ c \notin deleted /\ c \in used
  BY <1>4 DEF IInv, NoAliasing, Placed
<1>6. /\ DOMAIN idle' = DOMAIN idle \ {i}
      /\ \A j \in DOMAIN idle' : idle'[j] = idle[j]
  BY <1>1 DEF LruWithout, Restrict
<1>7. IdleConns' = IdleConns \ {c}
  BY <1>3, <1>6 DEF IdleConns, IInv, NoAliasing
<1>8. held' = held \union {c} /\ AddActive(c, connLabel[c])
  BY <1>1
<1> HIDE DEF c
<1>9. Orphans' = Orphans
  BY <1>2, <1>4, <1>7, <1>8 DEF Orphans
<1>10. TypeOK'
  <2>1. active' \in [Labels -> SUBSET Conns] /\ activeSize' \in Nat
    BY <1>4, <1>8 DEF IInv, TypeOK, AddActive
  <2>2. held' \subseteq Conns BY <1>4, <1>8 DEF IInv, TypeOK
  <2>3. DOMAIN idle' \subseteq 0 .. nextId' - 1
    BY <1>2, <1>6 DEF IInv, TypeOK
  <2>4. idle' \in [DOMAIN idle' -> [label : Labels, item : Conns]]
    BY <1>1 DEF IInv, TypeOK, LruWithout, Restrict
  <2> QED BY <1>2, <2>1, <2>2, <2>3, <2>4 DEF IInv, TypeOK
<1>11. ActiveIsHeld'
  <2>1. connLabel' = [connLabel EXCEPT ![c] = connLabel[c]]
    BY <1>2, <1>4 DEF IInv, TypeOK
  <2> QED BY <1>4, <1>5, <1>8, <2>1, ActivateHeld DEF IInv
<1>12. NoAliasing'
  BY <1>2, <1>5, <1>6, <1>7, <1>8 DEF IInv, NoAliasing
<1>13. Placed'
  BY <1>2, <1>5, <1>7, <1>8 DEF IInv, Placed
<1>14. connId[c] = i /\ i \notin DOMAIN idle'
  BY <1>3, <1>6 DEF IInv, IdsAgree, c
<1>15. IdsAgree'
  BY <1>2, <1>6, <1>7, <1>14 DEF IInv, IdsAgree
<1>16. OrphanSpent'
  BY <1>2, <1>6, <1>9 DEF IInv, OrphanSpent, AtMostOneOrphan
<1>17. Cardinality(DOMAIN idle') = Cardinality(DOMAIN idle) - 1
  <2>1. IsFiniteSet(DOMAIN idle)
    BY Finiteness DEF IInv
  <2>2. Cardinality(DOMAIN idle \ {i}) = Cardinality(DOMAIN idle) - 1
    BY ONLY <1>3, <2>1, FS_RemoveElement
  <2> QED
    BY <1>6, <2>2
<1>18. Cardinality(DOMAIN idle) \in Nat
  BY Finiteness, FS_CardinalityType DEF IInv
<1>19. IdleBound' /\ PoolBound'
  BY <1>8, <1>17, <1>18 DEF IInv, IdleBound, PoolBound, AddActive, TypeOK
<1> QED
  BY <1>10, <1>11, <1>12, <1>13, <1>15, <1>16, <1>19 DEF IInv

\* release of a connection in use, idle or orphaned.
LEMMA ReleaseStep ==
  ASSUME IInv, NEW c \in held \union IdleConns \union Orphans, Release(c)
  PROVE  IInv'
<1>1. /\ RemoveActive(c)
      /\ idle' = LruWithout(idle, connId[c])
      /\ used' = used \ {c} /\ free' = free \union {c}
      /\ held' = held \ {c}
      /\ UNCHANGED <<created, deleted, nextId, connId, connLabel, connScheme>>
  BY DEF Release, WithoutIdle, Freed, connVars
<1>2. c \in Conns /\ c \in used /\ c \notin deleted /\ c \notin free
  BY DEF IInv, TypeOK, Placed, NoAliasing, Orphans, Conns
<1>3. /\ DOMAIN idle' = DOMAIN idle \ {connId[c]}
      /\ \A j \in DOMAIN idle' : idle'[j] = idle[j]
  BY <1>1 DEF LruWithout, Restrict
<1>4. IdleConns' \subseteq IdleConns
  BY <1>3 DEF IdleConns
<1>5. c \notin IdleConns'
  <2> SUFFICES ASSUME NEW j \in DOMAIN idle', idle'[j].item = c PROVE FALSE
    BY DEF IdleConns
  <2>1. j \in DOMAIN idle /\ idle[j].item = c /\ j # connId[c] BY <1>3
  <2> QED BY <2>1 DEF IInv, IdsAgree
<1>6. ASSUME NEW d \in IdleConns, d # c, d \notin IdleConns'
      PROVE  connId[c] = 0 /\ 0 \in DOMAIN idle /\ connId[d] = 0
  <2>1. PICK j \in DOMAIN idle : idle[j].item = d BY <1>6 DEF IdleConns
  <2>2. j = connId[c] BY <1>3, <1>6, <2>1 DEF IdleConns
  <2>3. c \notin IdleConns
    BY <1>2, <1>6, <2>1, <2>2 DEF IdleConns, IInv, IdsAgree
  <2> QED BY <1>2, <2>1, <2>2, <2>3 DEF IInv, IdsAgree
<1>7. ASSUME NEW d \in Orphans'
      PROVE  d # c /\ \/ d \in Orphans
                      \/ d \in IdleConns /\ d \notin IdleConns'
  BY <1>1 DEF Orphans
<1>8. TypeOK'
  <2>1. active' \in [Labels -> SUBSET Conns] /\ activeSize' \in Nat
    BY <1>1, <1>2, DeactivateHeld DEF IInv
  <2>2. idle' \in [DOMAIN idle' -> [label : Labels, item : Conns]]
    BY <1>1 DEF IInv, TypeOK, LruWithout, Restrict
  <2>3. used' \subseteq 1 .. created /\ free' \subseteq 1 .. created
    BY <1>1, <1>2 DEF IInv, TypeOK
  <2>4. DOMAIN idle' \subseteq 0 .. nextId - 1 /\ held' \subseteq Conns
    BY <1>1, <1>3 DEF IInv, TypeOK
  <2> QED BY <1>1, <2>1, <2>2, <2>3, <2>4 DEF IInv, TypeOK
<1>9. ActiveIsHeld' BY <1>1, <1>2, DeactivateHeld DEF IInv
<1>10. NoAliasing'
  BY <1>1, <1>2, <1>3, <1>4, <1>5 DEF IInv, NoAliasing
<1>11. Placed'
  BY <1>1, <1>2, <1>4, <1>5 DEF IInv, Placed
<1>12. IdsAgree'
  <2>1. \A i \in DOMAIN idle' : idle'[i].item \in IdleConns'
    BY DEF IdleConns
  <2>2. \A d \in Conns \ IdleConns' :
          connId[d] # 0 => connId[d] \notin DOMAIN idle'
    BY <1>3, <1>6 DEF IInv, IdsAgree
  <2> QED BY <1>1, <1>3, <2>2 DEF IInv, IdsAgree
<1>13. OrphanSpent'
  <2>1. \A d \in Orphans' \ Orphans :
          connId[c] = 0 /\ connId[d] = 0 /\ 0 \in DOMAIN idle
    BY <1>6, <1>7
  <2>2. 0 \in DOMAIN idle => Orphans = {} /\ nextId > 0
    BY DEF IInv, OrphanSpent, TypeOK
  <2>3. \A d, e \in Orphans' \ Orphans : d = e
    BY <1>3, <1>6, <1>7 DEF IdleConns, IInv, IdsAgree
  <2>4. \A d, e \in Orphans' : d = e /\ connId'[d] = 0
    BY <1>1, <2>1, <2>2, <2>3 DEF IInv, OrphanSpent, AtMostOneOrphan
  <2>5. Orphans' # {} => nextId' > 0 /\ 0 \notin DOMAIN idle'
    BY <1>1, <1>3, <2>1, <2>2 DEF IInv, OrphanSpent
  <2> QED BY <2>4, <2>5 DEF OrphanSpent, AtMostOneOrphan
<1>14. Cardinality(DOMAIN idle') <= Cardinality(DOMAIN idle)
       /\ Cardinality(DOMAIN idle') \in Nat
       /\ Cardinality(DOMAIN idle) \in Nat
  BY <1>3, Finiteness, FS_Subset, FS_CardinalityType DEF IInv
<1>15. activeSize' <= activeSize /\ activeSize' \in Nat
  BY <1>1, <1>2, DeactivateHeld DEF IInv, TypeOK
<1>16. IdleBound' /\ PoolBound'
  BY <1>14, <1>15 DEF IInv, IdleBound, PoolBound, TypeOK
<1> QED
  BY <1>8, <1>9, <1>10, <1>11, <1>12, <1>13, <1>16 DEF IInv

\* evict_all_idle cleans up every idle connection.
LEMMA EvictAllIdleStep ==
  ASSUME IInv, EvictAllIdle
  PROVE  IInv'
<1>1. /\ used' = used \ IdleConns /\ free' = free \union IdleConns
      /\ idle' = LruEmpty
      /\ UNCHANGED <<active, activeSize, nextId, created, deleted,
                     connId, connLabel, connScheme, held>>
  BY DEF EvictAllIdle, Freed, connVars
<1>2. DOMAIN idle' = {} BY <1>1 DEF LruEmpty
<1>3. IdleConns' = {} BY <1>2 DEF IdleConns
<1>4. IdleConns \subseteq 1 .. created
  BY DEF IInv, TypeOK, Placed
<1>5. TypeOK'
  BY <1>1, <1>2, <1>4 DEF IInv, TypeOK
<1>6. ActiveIsHeld' BY <1>1 DEF IInv, ActiveIsHeld
<1>7. NoAliasing' BY <1>1, <1>2, <1>3 DEF IInv, NoAliasing
<1>8. Placed' BY <1>1, <1>3 DEF IInv, Placed, NoAliasing
<1>9. IdsAgree' BY <1>1, <1>2 DEF IInv, IdsAgree
<1>10. Orphans' = Orphans BY <1>1, <1>3 DEF Orphans
<1>11. OrphanSpent'
  BY <1>1, <1>2, <1>10 DEF IInv, OrphanSpent, AtMostOneOrphan
<1>12. Cardinality(DOMAIN idle') = 0 BY <1>2, FS_EmptySet
<1>13. Cardinality(DOMAIN idle) \in Nat
  BY Finiteness, FS_CardinalityType DEF IInv
<1>14. IdleBound' /\ PoolBound'
  BY <1>1, <1>12, <1>13 DEF IInv, IdleBound, PoolBound, TypeOK
<1> QED
  BY <1>5, <1>6, <1>7, <1>8, <1>9, <1>11, <1>14 DEF IInv

\* An id below the width of id_t is kept as it is.
LEMMA IdKept == ASSUME NEW n \in Nat, n < IdMod PROVE n % IdMod = n
OBVIOUS

\* The cache with connection c added by add_idle, before it is trimmed.
Grown(c) == LruWith(idle, nextId, [label |-> connLabel[c], item |-> c])

\* What the untrimmed cache holds.
LEMMA ParkedCache ==
  ASSUME IInv, NEW c \in held
  PROVE  /\ nextId \notin DOMAIN idle
         /\ DOMAIN Grown(c) = DOMAIN idle \union {nextId}
         /\ \A i \in DOMAIN idle : Grown(c)[i] = idle[i]
         /\ Grown(c)[nextId] = [label |-> connLabel[c], item |-> c]
         /\ Grown(c) \in [DOMAIN Grown(c) -> [label : Labels, item : Conns]]
         /\ IsFiniteSet(DOMAIN Grown(c))
         /\ Cardinality(DOMAIN Grown(c)) = Cardinality(DOMAIN idle) + 1
<1>1. nextId \notin DOMAIN idle BY DEF IInv, TypeOK
<1>2. /\ DOMAIN Grown(c) = DOMAIN idle \union {nextId}
      /\ \A i \in DOMAIN idle : Grown(c)[i] = idle[i]
      /\ Grown(c)[nextId] = [label |-> connLabel[c], item |-> c]
  BY <1>1 DEF Grown, LruWith
<1>3. c \in Conns /\ connLabel[c] \in Labels
  BY DEF IInv, TypeOK, ActiveIsHeld
<1>4. Grown(c) \in [DOMAIN Grown(c) -> [label : Labels, item : Conns]]
  BY <1>3 DEF IInv, TypeOK, Grown, LruWith
<1>5. IsFiniteSet(DOMAIN idle) BY Finiteness DEF IInv
<1>6. /\ IsFiniteSet(DOMAIN idle \union {nextId})
      /\ Cardinality(DOMAIN idle \union {nextId}) = Cardinality(DOMAIN idle) + 1
  BY <1>1, <1>5, FS_AddElement
<1>7. /\ IsFiniteSet(DOMAIN Grown(c))
      /\ Cardinality(DOMAIN Grown(c)) = Cardinality(DOMAIN idle) + 1
  BY <1>2, <1>6
<1> QED BY <1>1, <1>2, <1>4, <1>7

\* add_idle: what trimming the cache does, whether or not it evicts.
LEMMA ParkedTrim ==
  ASSUME IInv, NEW c \in held, Park(Grown(c))
  PROVE  \E gone \in SUBSET DOMAIN idle :
           /\ DOMAIN idle' = (DOMAIN idle \ gone) \union {nextId}
           /\ \A j \in DOMAIN idle' : idle'[j] = Grown(c)[j]
           /\ idle' \in [DOMAIN idle' -> [label : Labels, item : Conns]]
           /\ used' = used \ {idle[j].item : j \in gone}
           /\ free' = free \union {idle[j].item : j \in gone}
           /\ UNCHANGED <<created, deleted>>
           /\ Cardinality(DOMAIN idle') <= MaxIdle
           /\ Cardinality(DOMAIN idle') <= Cardinality(DOMAIN idle) + 1
           /\ Cardinality(DOMAIN idle') \in Nat
           /\ \/ gone = {} /\ Cardinality(DOMAIN idle) < MaxIdle
              \/ /\ Cardinality(DOMAIN idle) = MaxIdle
                 /\ \E i \in DOMAIN idle : gone = {i}
<1>1. /\ nextId \notin DOMAIN idle
      /\ DOMAIN Grown(c) = DOMAIN idle \union {nextId}
      /\ \A i \in DOMAIN idle : Grown(c)[i] = idle[i]
      /\ Grown(c) \in [DOMAIN Grown(c) -> [label : Labels, item : Conns]]
      /\ IsFiniteSet(DOMAIN Grown(c))
      /\ Cardinality(DOMAIN Grown(c)) = Cardinality(DOMAIN idle) + 1
  BY ParkedCache
<1>2. Cardinality(DOMAIN Grown(c)) \in Nat /\ Cardinality(DOMAIN idle) \in Nat
  BY <1>1, Finiteness, FS_CardinalityType DEF IInv
<1>3. CASE Cardinality(DOMAIN Grown(c)) > MaxIdle
  <2>1. PICK i \in LruBack(Grown(c)) :
          idle' = LruWithout(Grown(c), i) /\ Freed({Grown(c)[i].item})
    BY <1>3 DEF Park
  <2>2. i \in DOMAIN Grown(c) /\ \A j \in DOMAIN Grown(c) : i <= j
    BY DEF LruBack
  <2>3. DOMAIN idle # {}
    <3>1. Cardinality(DOMAIN idle) >= 1 BY <1>1, <1>2, <1>3
    <3> QED BY <3>1, FS_EmptySet
  <2>4. i \in DOMAIN idle
    BY <1>1, <2>2, <2>3 DEF IInv, TypeOK
  <2>5. DOMAIN idle' = DOMAIN Grown(c) \ {i}
        /\ \A j \in DOMAIN idle' : idle'[j] = Grown(c)[j]
    BY <2>1 DEF Grown, LruWithout, Restrict
  <2>6. idle' \in [DOMAIN idle' -> [label : Labels, item : Conns]]
    BY <1>1, <2>1 DEF Grown, LruWithout, Restrict
  <2>7. Cardinality(DOMAIN idle') = Cardinality(DOMAIN Grown(c)) - 1
    <3>1. Cardinality(DOMAIN Grown(c) \ {i}) = Cardinality(DOMAIN Grown(c)) - 1
      BY <1>1, <2>2, FS_RemoveElement
    <3> QED BY <2>5, <3>1
  <2>8. {idle[j].item : j \in {i}} = {Grown(c)[i].item}
    BY <1>1, <2>4
  <2>9. Cardinality(DOMAIN idle') <= MaxIdle
    BY <1>1, <1>2, <2>7 DEF IInv, IdleBound
  <2>10. DOMAIN idle' = (DOMAIN idle \ {i}) \union {nextId}
    BY <1>1, <2>4, <2>5
  <2>11. /\ used' = used \ {idle[j].item : j \in {i}}
         /\ free' = free \union {idle[j].item : j \in {i}}
         /\ UNCHANGED <<created, deleted>>
    BY <2>1, <2>8 DEF Freed
  <2>12. {i} \in SUBSET DOMAIN idle BY <2>4
  <2>13. /\ Cardinality(DOMAIN idle') <= Cardinality(DOMAIN idle) + 1
         /\ Cardinality(DOMAIN idle') \in Nat
    BY <1>1, <1>2, <2>7
  <2>14. Cardinality(DOMAIN idle) = MaxIdle
    BY <1>1, <1>2, <1>3 DEF IInv, IdleBound
  <2> HIDE DEF LruBack
  <2> QED BY <2>4, <2>5, <2>6, <2>9, <2>10, <2>11, <2>12, <2>13, <2>14
<1>4. CASE ~(Cardinality(DOMAIN Grown(c)) > MaxIdle)
  <2>1. idle' = Grown(c) /\ UNCHANGED objVars
    BY <1>4 DEF Park
  <2>2. {} \in SUBSET DOMAIN idle /\ {idle[j].item : j \in {}} = {}
    OBVIOUS
  <2>3. /\ used' = used \ {idle[j].item : j \in {}}
        /\ free' = free \union {idle[j].item : j \in {}}
        /\ UNCHANGED <<created, deleted>>
    BY <2>1, <2>2 DEF objVars
  <2>4. DOMAIN idle' = (DOMAIN idle \ {}) \union {nextId}
    BY <1>1, <2>1
  <2>5. /\ Cardinality(DOMAIN idle') <= MaxIdle
        /\ Cardinality(DOMAIN idle') <= Cardinality(DOMAIN idle) + 1
        /\ Cardinality(DOMAIN idle') \in Nat
    BY <1>1, <1>2, <1>4, <2>1
  <2>6. /\ \A j \in DOMAIN idle' : idle'[j] = Grown(c)[j]
        /\ idle' \in [DOMAIN idle' -> [label : Labels, item : Conns]]
    BY <1>1, <2>1
  <2>7. Cardinality(DOMAIN idle) < MaxIdle
    BY <1>1, <1>2, <1>4
  <2> QED BY <2>2, <2>3, <2>4, <2>5, <2>6, <2>7
<1> QED BY <1>3, <1>4

\* add_idle keeps the invariant: the client's connection goes to the cache
\* under a new id, and the connections that are gone from it become free.
LEMMA AddIdleStep ==
  ASSUME IInv, NEW c \in held, AddIdle(c)
  PROVE  IInv'
<1> DEFINE grown == Grown(c)
<1>1. /\ nextId < MaxId /\ nextId' = nextId + 1
      /\ RemoveActive(c) /\ Park(grown)
      /\ connId' = [connId EXCEPT ![c] = nextId % IdMod]
      /\ held' = held \ {c}
      /\ UNCHANGED <<connLabel, connScheme>>
  BY DEF AddIdle, Grown
<1>2. /\ nextId \notin DOMAIN idle
      /\ \A i \in DOMAIN idle : grown[i] = idle[i]
      /\ grown[nextId] = [label |-> connLabel[c], item |-> c]
  BY ParkedCache
<1>3. PICK gone \in SUBSET DOMAIN idle :
        /\ DOMAIN idle' = (DOMAIN idle \ gone) \union {nextId}
        /\ \A j \in DOMAIN idle' : idle'[j] = grown[j]
        /\ idle' \in [DOMAIN idle' -> [label : Labels, item : Conns]]
        /\ used' = used \ {idle[j].item : j \in gone}
        /\ free' = free \union {idle[j].item : j \in gone}
        /\ UNCHANGED <<created, deleted>>
        /\ Cardinality(DOMAIN idle') <= MaxIdle
        /\ Cardinality(DOMAIN idle') <= Cardinality(DOMAIN idle) + 1
        /\ Cardinality(DOMAIN idle') \in Nat
  BY <1>1, ParkedTrim
<1> DEFINE out == {idle[j].item : j \in gone}
<1>4. /\ \A j \in DOMAIN idle \ gone : j \in DOMAIN idle' /\ idle'[j] = idle[j]
      /\ nextId \in DOMAIN idle'
      /\ idle'[nextId].item = c /\ idle'[nextId].label = connLabel[c]
  BY <1>2, <1>3
<1> HIDE DEF grown
<1>5. c \in Conns /\ c \in used /\ c \notin IdleConns /\ c \notin free
      /\ c \notin deleted
  BY DEF IInv, TypeOK, Placed, NoAliasing
<1>6. out \subseteq IdleConns /\ out \subseteq used
  BY DEF IdleConns, IInv, Placed
<1>7. IdleConns' = (IdleConns \ out) \union {c}
  <2>1. \A j \in DOMAIN idle' : j = nextId \/ (j \in DOMAIN idle \ gone)
    BY <1>3
  <2>2. \A i, j \in DOMAIN idle : idle[i].item = idle[j].item => i = j
    BY DEF IInv, NoAliasing
  <2>3. IdleConns' \subseteq (IdleConns \ out) \union {c}
    BY <1>4, <2>1, <2>2 DEF IdleConns
  <2>4. (IdleConns \ out) \union {c} \subseteq IdleConns'
    BY <1>4 DEF IdleConns
  <2> QED BY <2>3, <2>4
<1>8. used' = used \ out /\ free' = free \union out
  BY <1>3
<1> HIDE DEF out
<1>9. Orphans' = Orphans
  BY <1>1, <1>3, <1>5, <1>6, <1>7, <1>8 DEF Orphans
<1>10. connId'[c] = nextId /\ \A d \in Conns \ {c} : connId'[d] = connId[d]
  <2>1. nextId % IdMod = nextId
    BY <1>1, IdKept DEF IInv, TypeOK
  <2> QED BY <1>1, <1>5, <2>1 DEF IInv, TypeOK
<1>11. TypeOK'
  <2>1. active' \in [Labels -> SUBSET Conns] /\ activeSize' \in Nat
    BY <1>1, <1>5, DeactivateHeld DEF IInv
  <2>2. nextId' \in 0 .. MaxId /\ DOMAIN idle' \subseteq 0 .. nextId' - 1
    BY <1>1, <1>3 DEF IInv, TypeOK
  <2>3. used' \subseteq 1 .. created /\ free' \subseteq 1 .. created
    BY <1>6, <1>8 DEF IInv, TypeOK
  <2>4. connId' \in [Conns -> Nat]
    <3>1. nextId % IdMod \in Nat BY <1>1, IdKept DEF IInv, TypeOK
    <3> QED BY <1>1, <3>1 DEF IInv, TypeOK
  <2> QED BY <1>1, <1>3, <2>1, <2>2, <2>3, <2>4 DEF IInv, TypeOK
<1>12. ActiveIsHeld' BY <1>1, <1>5, DeactivateHeld DEF IInv
<1>13. NoAliasing'
  <2>1. /\ free' \intersect (held' \union IdleConns' \union deleted') = {}
        /\ held' \intersect (IdleConns' \union deleted') = {}
        /\ IdleConns' \intersect deleted' = {}
    BY <1>1, <1>3, <1>5, <1>6, <1>7, <1>8 DEF IInv, NoAliasing
  <2>2. \A i, j \in DOMAIN idle' : idle'[i].item = idle'[j].item => i = j
    <3>1. \A i \in DOMAIN idle : idle[i].item # c
      BY <1>5 DEF IdleConns
    <3> QED BY <1>3, <1>4, <3>1 DEF IInv, NoAliasing
  <2> QED BY <2>1, <2>2 DEF NoAliasing
<1>14. Placed'
  BY <1>1, <1>3, <1>5, <1>6, <1>7, <1>8 DEF IInv, Placed, NoAliasing
<1>15. IdsAgree'
  <2>1. \A i \in DOMAIN idle : idle[i].item \in Conns \ {c}
    BY <1>5 DEF IInv, TypeOK, IdleConns
  <2>2. ASSUME NEW i \in DOMAIN idle'
        PROVE  /\ connId'[idle'[i].item] = i
               /\ connLabel'[idle'[i].item] = idle'[i].label
    BY <1>1, <1>3, <1>4, <1>10, <2>1 DEF IInv, IdsAgree
  <2>3. \A d \in Conns : connId'[d] = 0 \/ connId'[d] < nextId'
    BY <1>1, <1>10 DEF IInv, IdsAgree, TypeOK
  <2>4. ASSUME NEW d \in Conns \ IdleConns', connId'[d] # 0
        PROVE  connId'[d] \notin DOMAIN idle'
    <3>1. d # c /\ connId'[d] = connId[d] /\ connId[d] # 0
      BY <1>7, <1>10, <2>4
    <3>2. connId[d] # nextId
      BY <3>1 DEF IInv, IdsAgree, TypeOK
    <3>3. CASE d \in IdleConns
      <4>1. PICK j \in gone : idle[j].item = d
        BY <1>7, <3>1, <3>3 DEF out
      <4>2. connId[d] = j BY <4>1 DEF IInv, IdsAgree
      <4> QED BY <1>3, <3>1, <3>2, <4>1, <4>2
    <3>4. CASE d \notin IdleConns
      <4>1. connId[d] \notin DOMAIN idle BY <3>1, <3>4 DEF IInv, IdsAgree
      <4> QED BY <1>3, <3>1, <3>2, <4>1
    <3> QED BY <3>3, <3>4
  <2> QED BY <2>2, <2>3, <2>4 DEF IdsAgree
<1>16. OrphanSpent'
  <2>1. c \notin Orphans BY DEF Orphans
  <2>2. Orphans \subseteq Conns
    BY DEF IInv, TypeOK, Orphans, Conns
  <2>3. AtMostOneOrphan'
    BY <1>9, <1>10, <2>1, <2>2 DEF IInv, OrphanSpent, AtMostOneOrphan
  <2>4. Orphans # {} => nextId' > 0 /\ 0 \notin DOMAIN idle'
    BY <1>1, <1>3 DEF IInv, OrphanSpent, TypeOK
  <2> QED BY <1>9, <2>3, <2>4 DEF OrphanSpent
<1>17. activeSize' = activeSize - 1
  BY <1>1, <1>5, DeactivateHeld DEF IInv
<1>18. Cardinality(DOMAIN idle) \in Nat
  BY Finiteness, FS_CardinalityType DEF IInv
<1>19. IdleBound' /\ PoolBound'
  BY <1>3, <1>17, <1>18 DEF IInv, IdleBound, PoolBound, TypeOK
<1> QED
  BY <1>11, <1>12, <1>13, <1>14, <1>15, <1>16, <1>19 DEF IInv

-----------------------------------------------------------------------------

\* Every step of the pool keeps the inductive invariant.
LEMMA NextIInv == IInv /\ [Next]_vars => IInv'
<1> SUFFICES ASSUME IInv, [Next]_vars PROVE IInv' OBVIOUS
<1>1. ASSUME NEW l \in Labels, GetNewActive(l) PROVE IInv'
  BY <1>1, ReuseFreeStep, CreateNewStep DEF GetNewActive
<1>2. ASSUME NEW l \in Labels, GetIdle(l) PROVE IInv'
  BY <1>2, GetIdleStep
<1>3. ASSUME NEW c \in held, AddIdle(c) PROVE IInv'
  BY <1>3, AddIdleStep
<1>4. ASSUME NEW c \in held \union IdleConns \union Orphans, Release(c)
      PROVE  IInv'
  BY <1>4, ReleaseStep
<1>5. CASE EvictAllIdle BY <1>5, EvictAllIdleStep
<1>6. CASE UNCHANGED vars
  BY <1>6 DEF vars, objVars, connVars, IInv, TypeOK, ActiveIsHeld, NoAliasing,
     Placed, IdsAgree, OrphanSpent, AtMostOneOrphan, IdleBound, PoolBound,
     IdleConns, Orphans
<1> QED BY <1>1, <1>2, <1>3, <1>4, <1>5, <1>6 DEF Next

\* The invariant holds in every state of every behaviour.
THEOREM PoolInvariant == Spec => []IInv
BY InitIInv, NextIInv, PTL DEF Spec

\* Type correctness.
THEOREM PoolTypeOK == Spec => []TypeOK
<1>1. IInv => TypeOK BY DEF IInv
<1> QED BY <1>1, PoolInvariant, PTL

\* The active map, its size counter and the hands of the clients agree.
THEOREM PoolActiveIsHeld == Spec => []ActiveIsHeld
<1>1. IInv => ActiveIsHeld BY DEF IInv
<1> QED BY <1>1, PoolInvariant, PTL

\* No connection is ever in two hands.
THEOREM PoolNoAliasing == Spec => []NoAliasing
<1>1. IInv => NoAliasing BY DEF IInv
<1> QED BY <1>1, PoolInvariant, PTL

\* At most one connection is ever lost to the cache's id 0.
THEOREM PoolAtMostOneOrphan == Spec => []AtMostOneOrphan
<1>1. IInv => AtMostOneOrphan BY DEF IInv, OrphanSpent
<1> QED BY <1>1, PoolInvariant, PTL

\* Active and idle connections together stay within the two maxima.
THEOREM PoolStaysBounded == Spec => []PoolBound
<1>1. IInv => PoolBound BY DEF IInv
<1> QED BY <1>1, PoolInvariant, PTL

-----------------------------------------------------------------------------
(***************************************************************************)
(* The pool implements the contract of ConnLedger.                         *)
(***************************************************************************)
\* The state of the contract that the mapping gives.
where == [c \in Conns |-> Where(c)]
lossSpent == nextId > 0 /\ 0 \notin DOMAIN idle

\* Each object is seen in the one place its sets say.
PlacesSeen ==
  /\ \A c \in Conns : Where(c) \in {"none", "free", "active", "idle", "orphan",
                                    "deleted"}
  /\ \A c \in Conns : Where(c) = "active" <=> c \in held
  /\ \A c \in Conns : Where(c) = "idle" <=> c \in IdleConns
  /\ \A c \in Conns : Where(c) = "free" <=> c \in free
  /\ \A c \in Conns : Where(c) = "deleted" <=> c \in deleted
  /\ \A c \in Conns : Where(c) = "orphan" <=> c \in Orphans
  /\ \A c \in Conns : Where(c) = "none" <=> c \notin used \union free
  /\ held \union IdleConns \union free \union deleted \union Orphans \subseteq Conns

LEMMA Seen == IInv => PlacesSeen
<1> SUFFICES ASSUME IInv PROVE PlacesSeen OBVIOUS
<1>1. held \union IdleConns \union free \union deleted \union Orphans \subseteq Conns
  <2>1. 1 .. created \subseteq Conns BY DEF IInv, TypeOK, Conns
  <2>2. held \union IdleConns \union deleted \union Orphans \subseteq used
    BY DEF IInv, Placed, Orphans
  <2> QED BY <2>1, <2>2 DEF IInv, TypeOK
<1>2. /\ free \intersect (held \union IdleConns \union deleted) = {}
      /\ held \intersect (IdleConns \union deleted) = {}
      /\ IdleConns \intersect deleted = {}
      /\ free \intersect used = {}
      /\ deleted \union held \union IdleConns \subseteq used
      /\ Orphans = used \ (deleted \union held \union IdleConns)
  BY DEF IInv, NoAliasing, Placed, Orphans
<1> SUFFICES ASSUME NEW c \in Conns
             PROVE  /\ Where(c) \in {"none", "free", "active", "idle", "orphan",
                                     "deleted"}
                    /\ Where(c) = "active" <=> c \in held
                    /\ Where(c) = "idle" <=> c \in IdleConns
                    /\ Where(c) = "free" <=> c \in free
                    /\ Where(c) = "deleted" <=> c \in deleted
                    /\ Where(c) = "orphan" <=> c \in Orphans
                    /\ Where(c) = "none" <=> c \notin used \union free
  BY <1>1 DEF PlacesSeen
<1>3. CASE c \in held BY <1>2, <1>3 DEF Where
<1>4. CASE c \in IdleConns BY <1>2, <1>4 DEF Where
<1>5. CASE c \in free BY <1>2, <1>5 DEF Where
<1>6. CASE c \in deleted BY <1>2, <1>6 DEF Where
<1>7. CASE c \in Orphans BY <1>2, <1>7 DEF Where
<1>8. CASE c \notin used \union free BY <1>2, <1>8 DEF Where
<1> QED BY <1>2, <1>3, <1>4, <1>5, <1>6, <1>7, <1>8

LEMMA SeenNext == IInv' => PlacesSeen'
BY Seen, PTL

\* As many connections are idle as the cache has entries.
LEMMA IdleCount ==
  ASSUME IInv
  PROVE  IsFiniteSet(IdleConns) /\ Cardinality(IdleConns) = Cardinality(DOMAIN idle)
<1> DEFINE f == [i \in DOMAIN idle |-> idle[i].item]
<1>1. f \in [DOMAIN idle -> IdleConns]
  BY DEF IdleConns
<1>2. \A i, j \in DOMAIN idle : f[i] = f[j] => i = j
  BY DEF IInv, NoAliasing
<1>3. \A c \in IdleConns : \E i \in DOMAIN idle : f[i] = c
  BY DEF IdleConns
<1> HIDE DEF f
<1>4. f \in Bijection(DOMAIN idle, IdleConns)
  BY <1>1, <1>2, <1>3 DEF Bijection, Injection, Surjection, IsInjective
<1>5. IsFiniteSet(DOMAIN idle) BY Finiteness DEF IInv
<1>6. ExistsBijection(DOMAIN idle, IdleConns)
  BY <1>4 DEF ExistsBijection
<1> QED BY <1>5, <1>6, FS_Bijection

\* The contract counts as the pool does.
LEMMA SameCount == ASSUME NEW S PROVE Ledger!Cardinality(S) = Cardinality(S)
BY Zenon DEF Ledger!Cardinality, Cardinality

\* The sets of the contract are those of the pool.
LEMMA Populations ==
  ASSUME IInv
  PROVE  /\ Ledger!At("active") = held /\ Ledger!At("idle") = IdleConns
         /\ Ledger!At("free") = free
         /\ Ledger!Cardinality(Ledger!At("active")) = activeSize
         /\ Ledger!Cardinality(Ledger!At("idle")) = Cardinality(DOMAIN idle)
<1>1. /\ Ledger!At("active") = held /\ Ledger!At("idle") = IdleConns
      /\ Ledger!At("free") = free
  BY Seen DEF PlacesSeen, Ledger!At
<1> QED BY <1>1, IdleCount, SameCount DEF IInv, ActiveIsHeld

\* The loss, once spent, stays spent.
LEMMA SpentForGood ==
  ASSUME IInv, nextId' >= nextId, nextId' \in Nat,
         DOMAIN idle' \subseteq DOMAIN idle \union {nextId}
  PROVE  lossSpent' \in {lossSpent, TRUE}
<1>1. lossSpent => lossSpent'
  BY DEF lossSpent, IInv, TypeOK
<1>2. lossSpent \in BOOLEAN /\ lossSpent' \in BOOLEAN
  BY DEF lossSpent
<1> QED BY <1>1, <1>2

\* Unfolding of the actions of the contract under the mapping.
LEMMA LedgerMoves ==
  ASSUME NEW c, NEW p
  PROVE  Ledger!Moved(c, p) = [where EXCEPT ![c] = p]
BY DEF Ledger!Moved, where

\* get_new_active opens an object anew.
LEMMA ReuseFreeReopens ==
  ASSUME IInv, IInv', NEW label \in Labels, activeSize < MaxActive,
         ReuseFree(label), UNCHANGED <<idle, nextId>>
  PROVE  \E c \in Conns : Ledger!Reopen(c)
<1>1. PICK c \in free :
        /\ free' = free \ {c} /\ used' = used \union {c}
        /\ held' = held \union {c}
        /\ UNCHANGED <<created, deleted>>
  BY DEF ReuseFree
<1>2. PlacesSeen /\ PlacesSeen'
  BY Seen, SeenNext
<1>3. c \in Conns /\ where[c] = "free"
  BY <1>2 DEF PlacesSeen, where
<1>4. IdleConns' = IdleConns
  BY DEF IdleConns
<1>5. \A d \in Conns : Where(d)' = IF d = c THEN "active" ELSE Where(d)
  BY <1>1, <1>2, <1>4 DEF PlacesSeen
<1>6. where' = [where EXCEPT ![c] = "active"]
  BY <1>3, <1>5 DEF where
<1>7. Ledger!Cardinality(Ledger!At("active")) < MaxActive
  BY Populations
<1>8. UNCHANGED lossSpent
  BY DEF lossSpent
<1>9. Ledger!Reopen(c)
  BY <1>3, <1>6, <1>7, <1>8, LedgerMoves DEF Ledger!Reopen, where, lossSpent
<1> QED BY <1>3, <1>9

\* get_new_active creates an object, and may delete a free one for it.
LEMMA CreateNewOpens ==
  ASSUME IInv, IInv', NEW label \in Labels, activeSize < MaxActive,
         CreateNew(label), UNCHANGED <<idle, nextId>>
  PROVE  \E c \in Conns : Ledger!Open(c)
<1> DEFINE c == created + 1
<1>1. PICK dropped \in SUBSET free :
        /\ dropped = {} \/ \E d \in free : dropped = {d}
        /\ c <= MaxConns
        /\ free' = free \ dropped
        /\ used' = used \union dropped \union {c}
        /\ deleted' = deleted \union dropped
        /\ held' = held \union {c}
  BY DEF CreateNew
<1>2. PlacesSeen /\ PlacesSeen'
  BY Seen, SeenNext
<1>3. c \in Conns /\ c \notin used \union free
  BY <1>1 DEF IInv, TypeOK, Conns
<1> HIDE DEF c
<1>4. where[c] = "none"
  BY <1>2, <1>3 DEF PlacesSeen, where
<1>5. IdleConns' = IdleConns
  BY DEF IdleConns
<1>6. \A d \in Conns : Where(d)' = IF d = c THEN "active"
                                  ELSE IF d \in dropped THEN "deleted" ELSE Where(d)
  BY <1>1, <1>2, <1>3, <1>5 DEF PlacesSeen
<1>7. /\ Ledger!Cardinality(Ledger!At("active")) < MaxActive
      /\ Ledger!At("free") = free
  BY Populations
<1>8. \/ where' = [where EXCEPT ![c] = "active"]
      \/ \E d \in free : where' = [[where EXCEPT ![c] = "active"] EXCEPT ![d] = "deleted"]
  <2>1. CASE dropped = {}
    <3>1. \A d \in Conns : Where(d)' = IF d = c THEN "active" ELSE Where(d)
      BY <1>6, <2>1
    <3> QED BY <1>3, <3>1 DEF where
  <2>2. ASSUME NEW d \in free, dropped = {d}
        PROVE  where' = [[where EXCEPT ![c] = "active"] EXCEPT ![d] = "deleted"]
    <3>1. d \in Conns /\ d # c BY <1>2, <1>3 DEF PlacesSeen
    <3> QED BY <1>3, <1>6, <2>2, <3>1 DEF where
  <2> QED BY <1>1, <2>1, <2>2
<1>9. UNCHANGED lossSpent
  BY DEF lossSpent
<1>10. Ledger!Open(c)
  BY <1>4, <1>7, <1>8, <1>9, LedgerMoves DEF Ledger!Open, where, lossSpent
<1> QED BY <1>3, <1>10

\* get_idle hands an idle connection out again.
LEMMA GetIdleResumes ==
  ASSUME IInv, IInv', NEW label \in Labels, GetIdle(label)
  PROVE  \E c \in Conns : Ledger!Resume(c)
<1>1. PICK i \in LruIdsOf(idle, label) :
        /\ idle' = LruWithout(idle, i)
        /\ held' = held \union {idle[i].item}
  BY DEF GetIdle
<1>2. UNCHANGED <<nextId, created, used, free, deleted>>
  BY DEF GetIdle, objVars
<1> DEFINE c == idle[i].item
<1>3. PlacesSeen /\ PlacesSeen'
  BY Seen, SeenNext
<1>4. i \in DOMAIN idle /\ c \in IdleConns
  BY DEF LruIdsOf, IdleConns
<1>5. DOMAIN idle' = DOMAIN idle \ {i} /\ \A j \in DOMAIN idle' : idle'[j] = idle[j]
  BY <1>1 DEF LruWithout, Restrict
<1>6. IdleConns' = IdleConns \ {c}
  BY <1>4, <1>5 DEF IdleConns, IInv, NoAliasing
<1>7. held' = held \union {c}
  BY <1>1
<1> HIDE DEF c
<1>8. c \in Conns /\ where[c] = "idle"
  BY <1>3, <1>4 DEF PlacesSeen, where
<1>9. \A d \in Conns : Where(d)' = IF d = c THEN "active" ELSE Where(d)
  BY <1>2, <1>3, <1>6, <1>7 DEF PlacesSeen
<1>10. where' = [where EXCEPT ![c] = "active"]
  BY <1>8, <1>9 DEF where
<1>11. lossSpent' \in {lossSpent, TRUE}
  <2>1. /\ nextId' >= nextId /\ nextId' \in Nat
        /\ DOMAIN idle' \subseteq DOMAIN idle \union {nextId}
    BY <1>2, <1>5 DEF IInv, TypeOK
  <2> QED BY <2>1, SpentForGood, Zenon
<1>12. Ledger!Resume(c)
  BY <1>8, <1>10, <1>11, LedgerMoves DEF Ledger!Resume, Ledger!MaySpend, where, lossSpent
<1> QED BY <1>8, <1>12

\* evict_all_idle retires every idle connection.
LEMMA EvictAllIdleRetires ==
  ASSUME IInv, IInv', EvictAllIdle
  PROVE  Ledger!RetireAllIdle
<1>1. /\ used' = used \ IdleConns /\ free' = free \union IdleConns
      /\ idle' = LruEmpty /\ idle # LruEmpty
      /\ UNCHANGED <<nextId, created, deleted, held>>
  BY DEF EvictAllIdle, Freed
<1>2. PlacesSeen /\ PlacesSeen'
  BY Seen, SeenNext
<1>3. DOMAIN idle' = {} /\ IdleConns' = {}
  BY <1>1 DEF LruEmpty, IdleConns
<1>4. Ledger!At("idle") # {}
  <2>1. DOMAIN idle # {}
    BY <1>1 DEF LruEmpty, IInv, TypeOK
  <2>2. IdleConns # {} BY <2>1 DEF IdleConns
  <2> QED BY <2>2, Populations
<1>5. \A d \in Conns : Where(d)' = IF Where(d) = "idle" THEN "free" ELSE Where(d)
  BY <1>1, <1>2, <1>3 DEF PlacesSeen
<1>6. where' = [c \in Conns |-> IF where[c] = "idle" THEN "free" ELSE where[c]]
  BY <1>5 DEF where
<1>7. lossSpent' \in {lossSpent, TRUE}
  <2>1. /\ nextId' >= nextId /\ nextId' \in Nat
        /\ DOMAIN idle' \subseteq DOMAIN idle \union {nextId}
    BY <1>1, <1>3 DEF IInv, TypeOK
  <2> QED BY <2>1, SpentForGood, Zenon
<1> QED BY <1>4, <1>6, <1>7 DEF Ledger!RetireAllIdle, Ledger!MaySpend, where, lossSpent

\* add_idle parks the connection of its client.
LEMMA AddIdleParks ==
  ASSUME IInv, IInv', NEW c \in held, AddIdle(c)
  PROVE  Ledger!Park(c)
<1> DEFINE grown == Grown(c)
<1>1. nextId' = nextId + 1 /\ Park(grown) /\ held' = held \ {c}
  BY DEF AddIdle, Grown
<1>2. /\ nextId \notin DOMAIN idle
      /\ \A i \in DOMAIN idle : grown[i] = idle[i]
      /\ grown[nextId] = [label |-> connLabel[c], item |-> c]
  BY ParkedCache
<1>3. PICK gone \in SUBSET DOMAIN idle :
        /\ DOMAIN idle' = (DOMAIN idle \ gone) \union {nextId}
        /\ \A j \in DOMAIN idle' : idle'[j] = grown[j]
        /\ used' = used \ {idle[j].item : j \in gone}
        /\ free' = free \union {idle[j].item : j \in gone}
        /\ UNCHANGED <<created, deleted>>
        /\ \/ gone = {} /\ Cardinality(DOMAIN idle) < MaxIdle
           \/ /\ Cardinality(DOMAIN idle) = MaxIdle
              /\ \E i \in DOMAIN idle : gone = {i}
  BY <1>1, ParkedTrim
<1>4. /\ \A j \in DOMAIN idle \ gone : j \in DOMAIN idle' /\ idle'[j] = idle[j]
      /\ nextId \in DOMAIN idle' /\ idle'[nextId].item = c
  BY <1>2, <1>3
<1> HIDE DEF grown
<1> DEFINE out == {idle[j].item : j \in gone}
<1>5. PlacesSeen /\ PlacesSeen'
  BY Seen, SeenNext
<1>6. c \in Conns /\ c \notin IdleConns /\ where[c] = "active"
  BY <1>5 DEF PlacesSeen, IInv, NoAliasing, where
<1>7. IdleConns' = (IdleConns \ out) \union {c} /\ out \subseteq IdleConns
  <2>1. \A j \in DOMAIN idle' : j = nextId \/ (j \in DOMAIN idle \ gone)
    BY <1>3
  <2>2. \A i, j \in DOMAIN idle : idle[i].item = idle[j].item => i = j
    BY DEF IInv, NoAliasing
  <2>3. IdleConns' \subseteq (IdleConns \ out) \union {c}
    BY <1>4, <2>1, <2>2 DEF IdleConns
  <2>4. (IdleConns \ out) \union {c} \subseteq IdleConns' /\ out \subseteq IdleConns
    BY <1>4 DEF IdleConns
  <2> QED BY <2>3, <2>4
<1>8. used' = used \ out /\ free' = free \union out
  BY <1>3
<1>9. \/ out = {} /\ Cardinality(DOMAIN idle) < MaxIdle
      \/ Cardinality(DOMAIN idle) = MaxIdle /\ \E d \in IdleConns : out = {d}
  BY <1>3 DEF IdleConns
<1> HIDE DEF out
<1>10. \A d \in Conns : Where(d)' = IF d = c THEN "idle"
                                   ELSE IF d \in out THEN "free" ELSE Where(d)
  BY <1>1, <1>3, <1>5, <1>6, <1>7, <1>8 DEF PlacesSeen
<1>11. /\ Ledger!Cardinality(Ledger!At("idle")) = Cardinality(DOMAIN idle)
       /\ Ledger!At("idle") = IdleConns
  BY Populations
<1>12. \/ /\ Ledger!Cardinality(Ledger!At("idle")) < MaxIdle
          /\ where' = [where EXCEPT ![c] = "idle"]
       \/ /\ Ledger!Cardinality(Ledger!At("idle")) = MaxIdle
          /\ \E d \in Ledger!At("idle") :
               where' = [[where EXCEPT ![c] = "idle"] EXCEPT ![d] = "free"]
  <2>1. CASE out = {} /\ Cardinality(DOMAIN idle) < MaxIdle
    <3>1. \A d \in Conns : Where(d)' = IF d = c THEN "idle" ELSE Where(d)
      BY <1>10, <2>1
    <3>2. where' = [where EXCEPT ![c] = "idle"]
      BY <1>6, <3>1 DEF where
    <3> QED BY <1>11, <2>1, <3>2
  <2>2. ASSUME NEW d \in IdleConns, out = {d}, Cardinality(DOMAIN idle) = MaxIdle
        PROVE  /\ Ledger!Cardinality(Ledger!At("idle")) = MaxIdle
               /\ d \in Ledger!At("idle")
               /\ where' = [[where EXCEPT ![c] = "idle"] EXCEPT ![d] = "free"]
    <3>1. d \in Conns /\ d # c BY <1>5, <1>6 DEF PlacesSeen
    <3>2. where' = [[where EXCEPT ![c] = "idle"] EXCEPT ![d] = "free"]
      BY <1>6, <1>10, <2>2, <3>1 DEF where
    <3> QED BY <1>11, <2>2, <3>2
  <2> QED BY <1>9, <2>1, <2>2
<1>13. lossSpent' \in {lossSpent, TRUE}
  <2>1. /\ nextId' >= nextId /\ nextId' \in Nat
        /\ DOMAIN idle' \subseteq DOMAIN idle \union {nextId}
    BY <1>1, <1>3 DEF IInv, TypeOK
  <2> QED BY <2>1, SpentForGood, Zenon
<1> QED
  BY <1>6, <1>12, <1>13, LedgerMoves DEF Ledger!Park, Ledger!MaySpend, where, lossSpent

\* release retires a connection.  If it was never idle the id 0 it carries may
\* be that of another connection, which is then lost, for the only time.
LEMMA ReleaseRetires ==
  ASSUME IInv, IInv', NEW c \in held \union IdleConns \union Orphans, Release(c)
  PROVE  c \in Conns /\ Ledger!Retire(c)
<1>1. /\ idle' = LruWithout(idle, connId[c])
      /\ used' = used \ {c} /\ free' = free \union {c}
      /\ held' = held \ {c}
      /\ UNCHANGED <<created, deleted, nextId, connId>>
  BY DEF Release, WithoutIdle, Freed, connVars
<1>2. PlacesSeen /\ PlacesSeen'
  BY Seen, SeenNext
<1>3. c \in Conns /\ where[c] \in {"active", "idle", "orphan"}
  BY <1>2 DEF PlacesSeen, where
<1>4. /\ DOMAIN idle' = DOMAIN idle \ {connId[c]}
      /\ \A j \in DOMAIN idle' : idle'[j] = idle[j]
  BY <1>1 DEF LruWithout, Restrict
<1>5. IdleConns' \subseteq IdleConns /\ c \notin IdleConns'
  BY <1>1, <1>2, <1>4 DEF PlacesSeen, IdleConns
<1>6. lossSpent' \in {lossSpent, TRUE}
  <2>1. /\ nextId' >= nextId /\ nextId' \in Nat
        /\ DOMAIN idle' \subseteq DOMAIN idle \union {nextId}
    BY <1>1, <1>4 DEF IInv, TypeOK
  <2> QED BY <2>1, SpentForGood, Zenon
<1>7. CASE IdleConns \ {c} = IdleConns'
  <2>1. \A d \in Conns : Where(d)' = IF d = c THEN "free" ELSE Where(d)
    BY <1>1, <1>2, <1>3, <1>7 DEF PlacesSeen
  <2>2. where' = [where EXCEPT ![c] = "free"]
    BY <1>3, <2>1 DEF where
  <2> QED
    BY <1>3, <1>6, <2>2, LedgerMoves DEF Ledger!Retire, Ledger!MaySpend, where, lossSpent
<1>8. ASSUME NEW d \in IdleConns, d # c, d \notin IdleConns'
      PROVE  Ledger!Retire(c)
  <2>1. PICK j \in DOMAIN idle : idle[j].item = d
    BY DEF IdleConns
  <2>2. j = connId[c]
    BY <1>4, <1>8, <2>1 DEF IdleConns
  <2>3. c \notin IdleConns
    BY <1>3, <1>8, <2>1, <2>2 DEF IdleConns, IInv, IdsAgree
  <2>4. connId[c] = 0
    BY <1>3, <2>1, <2>2, <2>3 DEF IInv, IdsAgree
  <2>5. ~lossSpent
    BY <2>1, <2>2, <2>4 DEF lossSpent
  <2>6. nextId \in Nat /\ nextId # 0 /\ 0 \in DOMAIN idle
    BY <2>1, <2>2, <2>4 DEF IInv, TypeOK
  <2>7. lossSpent'
    BY <1>1, <1>4, <2>4, <2>6 DEF lossSpent
  <2>8. IdleConns' = IdleConns \ {d}
    BY <1>4, <1>8, <2>1, <2>2 DEF IdleConns
  <2>9. d \in Conns /\ d \in Ledger!At("idle") \ {c}
    BY <1>2, <1>8, Populations DEF PlacesSeen
  <2>10. d \notin held /\ d \notin deleted /\ d \in used
    BY DEF IInv, NoAliasing, Placed
  <2>11. Orphans' = (Orphans \ {c}) \union {d}
    BY <1>1, <1>8, <2>3, <2>8, <2>10 DEF Orphans
  <2>12. \A e \in Conns : Where(e)' = IF e = d THEN "orphan"
                                     ELSE IF e = c THEN "free" ELSE Where(e)
    BY <1>1, <1>2, <1>3, <1>8, <2>8, <2>9, <2>11 DEF PlacesSeen
  <2>13. where' = [[where EXCEPT ![c] = "free"] EXCEPT ![d] = "orphan"]
    BY <1>3, <2>9, <2>12 DEF where
  <2>14. lossSpent' = TRUE
    BY <2>7
  <2> QED
    BY <1>3, <2>5, <2>9, <2>13, <2>14, LedgerMoves DEF Ledger!Retire, where, lossSpent
<1> QED BY <1>3, <1>5, <1>7, <1>8

\* Every step of the pool is a step of the contract, or none.
LEMMA LedgerStep == IInv /\ IInv' /\ [Next]_vars => [Ledger!Next]_(Ledger!vars)
<1> SUFFICES ASSUME IInv, IInv', [Next]_vars
             PROVE  Ledger!Next \/ UNCHANGED <<where, lossSpent>>
  BY DEF Ledger!vars, where, lossSpent
<1>1. ASSUME NEW l \in Labels, GetNewActive(l) PROVE Ledger!Next
  <2>1. activeSize < MaxActive /\ UNCHANGED <<idle, nextId>>
    BY <1>1 DEF GetNewActive
  <2>2. CASE ReuseFree(l) BY <2>1, <2>2, ReuseFreeReopens DEF Ledger!Next
  <2>3. CASE CreateNew(l) BY <2>1, <2>3, CreateNewOpens DEF Ledger!Next
  <2> QED BY <1>1, <2>2, <2>3 DEF GetNewActive
<1>2. ASSUME NEW l \in Labels, GetIdle(l) PROVE Ledger!Next
  BY <1>2, GetIdleResumes DEF Ledger!Next
<1>3. ASSUME NEW c \in held, AddIdle(c) PROVE Ledger!Next
  <2>1. c \in Conns BY DEF IInv, TypeOK
  <2> QED BY <1>3, <2>1, AddIdleParks DEF Ledger!Next
<1>4. ASSUME NEW c \in held \union IdleConns \union Orphans, Release(c)
      PROVE  Ledger!Next
  BY <1>4, ReleaseRetires DEF Ledger!Next
<1>5. CASE EvictAllIdle
  BY <1>5, EvictAllIdleRetires DEF Ledger!Next
<1>6. CASE UNCHANGED vars
  BY <1>6 DEF vars, objVars, connVars, where, lossSpent, Where, IdleConns, Orphans
<1> QED BY <1>1, <1>2, <1>3, <1>4, <1>5, <1>6 DEF Next

\* In the beginning every object has still to be made.
LEMMA LedgerInit == Init => Ledger!Init
<1> SUFFICES ASSUME Init PROVE Ledger!Init OBVIOUS
<1>1. IInv BY InitIInv
<1>2. \A c \in Conns : Where(c) = "none"
  BY <1>1, Seen DEF PlacesSeen, Init
<1>3. ~lossSpent BY DEF Init, lossSpent
<1>4. where = [c \in Conns |-> "none"] BY <1>2 DEF where
<1> QED BY <1>3, <1>4 DEF Ledger!Init, where, lossSpent

\* The pool implements the contract of ConnLedger: whatever its clients do, each
\* object is handed out only when it is new, free or idle, comes back to be free
\* only when it was given back or evicted, and one at most is ever lost.
THEOREM PoolImplementsLedger == Spec => ImplementsLedger
<1>1. Init /\ [][Next]_vars => Ledger!Init /\ [][Ledger!Next]_(Ledger!vars)
  BY LedgerInit, LedgerStep, InitIInv, NextIInv, PTL
<1> QED BY <1>1 DEF Spec, ImplementsLedger, Ledger!Spec
=============================================================================
