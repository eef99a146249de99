----------------------------- MODULE NconnPool ------------------------------
(***************************************************************************)
(* The connection pool of a server thread (class nconn_pool) with the two  *)
(* containers it is made of: the pool of reusable objects (obj_pool) and   *)
(* the LRU cache of idle connections (nlru, through its specification in   *)
(* LruOps).                                                                *)
(*                                                                         *)
(* A connection object is identified with its index in m_obj_vec, which    *)
(* obj_pool::add gives it and nothing changes.  A pool has one owner       *)
(* thread, so every operation is one atomic step.  `held' is not a         *)
(* variable of the code: it is the set of connections the pool's clients   *)
(* have been given and have not given back, and restricts add_idle to the  *)
(* connections its only caller (ups_srvr_session) passes.                  *)
(***************************************************************************)
EXTENDS LruOps, FiniteSets

CONSTANTS
  Labels,     \* server labels, "<scheme>://<host>:<port>"
  SchemeOf,   \* the scheme a label starts with
  MaxActive,  \* m_active_conn_map_max_size
  MaxIdle,    \* capacity of m_idle_conn_ncache
  MaxConns,   \* bound of the model: connection objects ever created
  MaxId,      \* bound of the model: cache ids issued are below MaxId
  IdMod       \* add_idle keeps the id in a POSIX id_t: 2^32

ASSUME SchemeAssumption == SchemeOf \in [Labels -> {"tcp", "tls"}]
ASSUME SizesAssumption == MaxActive \in Nat \ {0} /\ MaxIdle \in Nat \ {0}
ASSUME BoundsAssumption == MaxConns \in Nat /\ MaxId \in Nat
\* A thread that has not yet parked 2^32 connections: ids are not truncated.
ASSUME IdWidthAssumption == IdMod \in Nat \ {0} /\ MaxId <= IdMod

VARIABLES
  active,     \* m_active_conn_map: label -> set of connections
  activeSize, \* m_active_conn_map_size
  idle,       \* m_idle_conn_ncache: id -> [label, item]
  nextId,     \* the cache's m_next_id
  created,    \* m_obj_vec.size()
  used,       \* m_used_idx_set
  free,       \* m_free_idx_set
  deleted,    \* objects deleted while m_obj_vec still points to them
  connId,     \* per object: m_id, the cache id it was last parked under
  connLabel,  \* per object: m_label
  connScheme, \* per object: m_scheme
  held        \* connections in the hands of the pool's clients

objVars == <<created, used, free, deleted>>
connVars == <<connId, connLabel, connScheme>>
vars == <<active, activeSize, idle, nextId, objVars, connVars, held>>

Conns == 1 .. MaxConns
Schemes == {"tcp", "tls"}
NoLabel == "none"

\* The idle connections and those that are in use although the pool knows
\* them neither as active nor as idle.
IdleConns == {idle[i].item : i \in DOMAIN idle}
Orphans == used \ (deleted \union held \union IdleConns)

Init ==
  /\ active = [l \in Labels |-> {}]
  /\ activeSize = 0
  /\ idle = LruEmpty
  /\ nextId = 0
  /\ created = 0
  /\ used = {}
  /\ free = {}
  /\ deleted = {}
  /\ connId = [c \in Conns |-> 0]
  /\ connLabel = [c \in Conns |-> NoLabel]
  /\ connScheme = [c \in Conns |-> "tcp"]
  /\ held = {}

-----------------------------------------------------------------------------
(* Private members.                                                        *)

\* add_active(): the size grows whether or not the set did.
AddActive(c, label) ==
  /\ active' = [active EXCEPT ![label] = @ \union {c}]
  /\ activeSize' = activeSize + 1

\* remove_active() finds the connection under its label.
IsActive(c) == connLabel[c] \in Labels /\ c \in active[connLabel[c]]

\* remove_active(): an error, ignored by release, if it is not there.
RemoveActive(c) ==
  IF IsActive(c)
  THEN /\ active' = [active EXCEPT ![connLabel[c]] = @ \ {c}]
       /\ activeSize' = activeSize - 1
  ELSE UNCHANGED <<active, activeSize>>

\* Mutant of WithoutIdle: release leaves the cache alone.
WithoutIdleForgotten(c) == idle

\* remove_idle(): by the id in the connection, which is 0 if it was never
\* idle; an unknown id is ignored.
WithoutIdle(c) == LruWithout(idle, connId[c])

\* cleanup() of each connection of cs: obj_pool::release.
Freed(cs) ==
  /\ used' = used \ cs
  /\ free' = free \union cs
  /\ UNCHANGED <<created, deleted>>

-----------------------------------------------------------------------------
(* Public operations.                                                      *)

\* get_new_active() with a free object of the scheme asked for.
ReuseFree(label) ==
  \E c \in free :
    /\ connScheme[c] = SchemeOf[label]
    /\ free' = free \ {c}
    /\ used' = used \union {c}
    /\ connLabel' = [connLabel EXCEPT ![c] = label]
    /\ AddActive(c, label)
    /\ held' = held \union {c}
    /\ UNCHANGED <<created, deleted, connId, connScheme>>

\* get_new_active() with no free object, or one of the other scheme: that
\* one is deleted, but its index stays used and m_obj_vec keeps the pointer.
CreateNew(label) ==
  LET c == created + 1
  IN  \E dropped \in SUBSET free :
        /\ IF free = {} THEN dropped = {}
           ELSE \E d \in free : /\ dropped = {d}
                                /\ connScheme[d] # SchemeOf[label]
        /\ c <= MaxConns
        /\ created' = c
        /\ free' = free \ dropped
        /\ used' = used \union dropped \union {c}
        /\ deleted' = deleted \union dropped
        /\ connId' = [connId EXCEPT ![c] = 0]
        /\ connLabel' = [connLabel EXCEPT ![c] = label]
        /\ connScheme' = [connScheme EXCEPT ![c] = SchemeOf[label]]
        /\ AddActive(c, label)
        /\ held' = held \union {c}

\* Mutant of GetNewActive: one connection too many.
GetNewActiveOffByOne(label) ==
  /\ activeSize <= MaxActive
  /\ ReuseFree(label) \/ CreateNew(label)
  /\ UNCHANGED <<idle, nextId>>

\* get_new_active(); a full pool returns NULL and changes nothing.
GetNewActive(label) ==
  /\ activeSize < MaxActive
  /\ ReuseFree(label) \/ CreateNew(label)
  /\ UNCHANGED <<idle, nextId>>

\* Mutant of GetIdle: the connection does not become active again.
GetIdleNotActive(label) ==
  /\ \E i \in LruIdsOf(idle, label) :
       /\ idle' = LruWithout(idle, i)
       /\ held' = held \union {idle[i].item}
  /\ UNCHANGED <<active, activeSize, nextId, objVars, connVars>>

\* get_idle(): no check against the maximum of active connections.
GetIdle(label) ==
  /\ \E i \in LruIdsOf(idle, label) :
       LET c == idle[i].item
       IN  /\ idle' = LruWithout(idle, i)
           /\ AddActive(c, connLabel[c])
           /\ held' = held \union {c}
  /\ UNCHANGED <<nextId, objVars, connVars>>

\* Mutant of Park: the cache is trimmed one entry too early.
ParkEvictsEarly(grown) ==
  IF Cardinality(DOMAIN grown) >= MaxIdle
  THEN \E i \in LruBack(grown) :
         /\ idle' = LruWithout(grown, i)
         /\ Freed({grown[i].item})
  ELSE idle' = grown /\ UNCHANGED objVars

\* nlru::insert on the cache with the new entry: when it has grown too large
\* the oldest connection goes to s_delete_cb, which cleans it up.
Park(grown) ==
  IF Cardinality(DOMAIN grown) > MaxIdle
  THEN \E i \in LruBack(grown) :
         /\ idle' = LruWithout(grown, i)
         /\ Freed({grown[i].item})
  ELSE idle' = grown /\ UNCHANGED objVars

\* add_idle(): out of the active map, into the cache, and the id the cache
\* gave is kept in the connection, truncated.  That remove_active fails
\* (nconn_pool.cc:211) cannot be: c is in use, so the map has it (ActiveIsHeld).
AddIdle(c) ==
  /\ nextId < MaxId
  /\ RemoveActive(c)
  /\ Park(LruWith(idle, nextId, [label |-> connLabel[c], item |-> c]))
  /\ nextId' = nextId + 1
  /\ connId' = [connId EXCEPT ![c] = nextId % IdMod]
  /\ UNCHANGED <<connLabel, connScheme>>
  /\ held' = held \ {c}

\* release(): of a connection in use, or of an idle or orphaned one whose
\* remote side has closed it.
Release(c) ==
  /\ RemoveActive(c)
  /\ idle' = WithoutIdle(c)
  /\ Freed({c})
  /\ held' = held \ {c}
  /\ UNCHANGED <<nextId, connVars>>

\* evict_all_idle(): evicts until the cache is empty.
EvictAllIdle ==
  /\ idle # LruEmpty
  /\ Freed(IdleConns)
  /\ idle' = LruEmpty
  /\ UNCHANGED <<active, activeSize, nextId, connVars, held>>

Next ==
  \/ \E l \in Labels : GetNewActive(l)
  \/ \E l \in Labels : GetIdle(l)
  \/ \E c \in held : AddIdle(c)
  \/ \E c \in held \union IdleConns \union Orphans : Release(c)
  \/ EvictAllIdle

Spec == Init /\ [][Next]_vars

-----------------------------------------------------------------------------
(* Properties.                                                             *)

\* Every member has the type of its declaration.
TypeOK ==
  /\ active \in [Labels -> SUBSET Conns]
  /\ activeSize \in Nat
  /\ nextId \in 0 .. MaxId
  /\ DOMAIN idle \subseteq 0 .. nextId - 1
  /\ idle \in [DOMAIN idle -> [label : Labels, item : Conns]]
  /\ created \in 0 .. MaxConns
  /\ used \subseteq 1 .. created
  /\ free \subseteq 1 .. created
  /\ deleted \subseteq 1 .. created
  /\ connId \in [Conns -> Nat]
  /\ connLabel \in [Conns -> Labels \union {NoLabel}]
  /\ connScheme \in [Conns -> Schemes]
  /\ held \subseteq Conns

\* The active map holds exactly the connections in the hands of clients, each
\* under its own label, and the separate counter counts them: no sequence of
\* get, add_idle, eviction and release lets the three drift apart.
ActiveIsHeld ==
  /\ \A l \in Labels : active[l] = {c \in held : connLabel[c] = l}
  /\ \A c \in held : connLabel[c] \in Labels
  /\ activeSize = Cardinality(held)

\* A connection is never in two hands: one that is free to be handed out anew
\* is neither held by a client, nor idle (where get_idle could hand it out
\* too), nor deleted; an idle one is not held and is cached once.
NoAliasing ==
  /\ free \intersect (held \union IdleConns \union deleted) = {}
  /\ held \intersect (IdleConns \union deleted) = {}
  /\ IdleConns \intersect deleted = {}
  /\ \A i, j \in DOMAIN idle : idle[i].item = idle[j].item => i = j

\* release removes from the cache by an id that is 0 in a connection that was
\* never idle, so it can throw another connection, the first ever parked, out
\* of the cache without cleaning it up.  That is the only way the pool loses
\* track of a connection, and it loses at most one.
AtMostOneOrphan ==
  \A c, d \in Orphans : c = d /\ connId[c] = 0

\* get_idle may exceed the maximum of active connections, but active and idle
\* connections together never exceed the two maxima together.
PoolBound ==
  activeSize + Cardinality(DOMAIN idle) <= MaxActive + MaxIdle

\* Where the contract of ConnLedger sees each object.
Where(c) ==
  CASE c \in held -> "active"
    [] c \in IdleConns -> "idle"
    [] c \in free -> "free"
    [] c \in deleted -> "deleted"
    [] c \in Orphans -> "orphan"
    [] OTHER -> "none"

\* The pool implements that contract.  The one orphaning is spent once the
\* cache entry with id 0 has been issued and is gone.
Ledger == INSTANCE ConnLedger WITH
  where <- [c \in Conns |-> Where(c)],
  lossSpent <- nextId > 0 /\ 0 \notin DOMAIN idle
ImplementsLedger == Ledger!Spec

=============================================================================
