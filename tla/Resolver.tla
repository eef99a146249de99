------------------------------ MODULE Resolver ------------------------------
(***************************************************************************)
(* The resolver (nresolver) and its cache of addresses (ai_cache), which   *)
(* all server threads share.  A thread looks a name up in the cache under  *)
(* a lock (lookup_tryfast), and copies what it found after the unlock.  A  *)
(* literal address, and with synchronous look-ups any name, is then        *)
(* resolved in place and entered without the lock (lookup_inline); another *)
(* name is resolved by the callback of a query (dns_a4_cb), under the      *)
(* lock.  An entry whose time is over is deleted by the next look-up of    *)
(* its name.                                                               *)
(*                                                                         *)
(* The objects (host_info) live in a heap, where a place that was freed is *)
(* used again.  Two threads in the map at a time are undefined behaviour:  *)
(* the model records it (clash) and goes no further.  The queue of queries *)
(* and their timer are in SubrQueue.                                       *)
(***************************************************************************)
EXTENDS Integers, FiniteSets

CONSTANTS
  Threads,   \* server threads
  Hosts,     \* names with their port, the keys of the cache
  Literals,  \* those that are addresses
  Places     \* bound of the model: places of the heap

ASSUME HostsAssumption == Literals \subseteq Hosts

Nobody == "nobody"
None == "none"
ASSUME NamesAssumption == Nobody \notin Threads /\ None \notin Places \union Hosts

\* What is in a place of the heap that is free.
NoObject == [host |-> None, ttl |-> FALSE, over |-> FALSE]

VARIABLES
  sync,      \* m_dns_use_sync: look-ups in place only
  useCache,  \* m_use_cache
  lock,      \* who has m_cache_mutex
  map,       \* m_ai_cache_map: name -> place of the entry
  heap,      \* place -> [host, ttl, over], or NoObject
  at,        \* where a thread is
  host,      \* the name it looks up
  via,       \* what it looks up for: "fast", "inline" or "answer"
  fresh,     \* the object it made
  ptr,       \* the entry it was given
  late,      \* whether that entry's time is over (history)
  clash      \* two threads were in the map

conf == <<sync, useCache>>
resolverVars == <<sync, useCache, lock, map, heap, at, host, via, fresh, ptr, late, clash>>

Used == {p \in Places : heap[p] # NoObject}
InMap == {t \in Threads : at[t] = "inmap"}

-----------------------------------------------------------------------------
(* ai_cache                                                                *)

Over(h) == map[h] # None /\ heap[map[h]].over

\* lookup(): what a name is cached as; an entry whose time is over is erased.
Found(h) == IF Over(h) THEN None ELSE map[h]
Swept(h) == IF Over(h) THEN {map[h]} ELSE {}

\* Mutant of Loser: the new object is not deleted.
LoserKept(h, new) == {}

\* lookup() with a new object: it is deleted when there is an entry already.
Loser(h, new) == IF Found(h) = None \/ new = None THEN {} ELSE {new}

\* Mutant of Entry: the entry is there, but the new object is given out.
EntryNew(h, new) == IF new # None THEN new ELSE Found(h)
Entry(h, new) == IF Found(h) # None THEN Found(h) ELSE new

-----------------------------------------------------------------------------
(* The steps of a thread.                                                  *)

ResolverInit ==
  /\ sync \in BOOLEAN /\ useCache \in BOOLEAN
  /\ lock = Nobody
  /\ map = [h \in Hosts |-> None]
  /\ heap = [p \in Places |-> NoObject]
  /\ at = [t \in Threads |-> "idle"]
  /\ host \in [Threads -> Hosts]
  /\ via = [t \in Threads |-> "fast"]
  /\ fresh = [t \in Threads |-> None]
  /\ ptr = [t \in Threads |-> None]
  /\ late = [t \in Threads |-> FALSE]
  /\ clash = FALSE

\* lookup_tryfast() and lookup_sync() begin alike.
Ask(t) ==
  /\ ~clash
  /\ at[t] = "idle"
  /\ \E h \in Hosts : host' = [host EXCEPT ![t] = h]
  /\ via' = [via EXCEPT ![t] = "fast"]
  /\ at' = [at EXCEPT ![t] = IF useCache THEN "lock" ELSE "missed"]
  /\ UNCHANGED <<conf, lock, map, heap, fresh, ptr, late, clash>>

Lock(t) ==
  /\ ~clash
  /\ at[t] = "lock" /\ lock = Nobody
  /\ lock' = t
  /\ at' = [at EXCEPT ![t] = "enter"]
  /\ UNCHANGED <<conf, map, heap, host, via, fresh, ptr, late, clash>>

Enter(t) ==
  /\ ~clash
  /\ at[t] = "enter"
  /\ at' = [at EXCEPT ![t] = "inmap"]
  /\ clash' = (InMap # {})
  /\ UNCHANGED <<conf, lock, map, heap, host, via, fresh, ptr, late>>

\* The look-up, with an object to enter or without.
Leave(t) ==
  LET h == host[t]
      gone == Swept(h) \union Loser(h, fresh[t])
      got == Entry(h, fresh[t])
  IN  /\ ~clash
      /\ at[t] = "inmap"
      /\ map' = [map EXCEPT ![h] = got]
      /\ heap' = [p \in Places |-> IF p \in gone THEN NoObject ELSE heap[p]]
      /\ ptr' = [ptr EXCEPT ![t] = got]
      /\ fresh' = [fresh EXCEPT ![t] = None]
      /\ late' = [late EXCEPT ![t] = got # None /\ heap[got].over]
      /\ at' = [at EXCEPT ![t] = IF via[t] = "inline" THEN "copy" ELSE "unlock"]
      /\ UNCHANGED <<conf, lock, host, via, clash>>

Unlock(t) ==
  /\ ~clash
  /\ at[t] = "unlock"
  /\ lock' = Nobody
  /\ at' = [at EXCEPT ![t] = IF ptr[t] = None THEN "missed" ELSE "copy"]
  /\ UNCHANGED <<conf, map, heap, host, via, fresh, ptr, late, clash>>

\* Mutant of Missed: a name that has a query is looked up in the cache again.
MissedAgain(t) ==
  /\ ~clash
  /\ at[t] = "missed"
  /\ at' = [at EXCEPT ![t] = IF sync \/ host[t] \in Literals THEN "resolve"
                             ELSE IF useCache THEN "lock" ELSE "wait"]
  /\ UNCHANGED <<conf, lock, map, heap, host, via, fresh, ptr, late, clash>>

\* What was not cached is resolved in place, or a query is made.
Missed(t) ==
  /\ ~clash
  /\ at[t] = "missed"
  /\ at' = [at EXCEPT ![t] = IF sync \/ host[t] \in Literals THEN "resolve" ELSE "wait"]
  /\ UNCHANGED <<conf, lock, map, heap, host, via, fresh, ptr, late, clash>>

\* The name has no address.
Fails(t) ==
  /\ ~clash
  /\ at[t] \in {"resolve", "wait"}
  /\ at' = [at EXCEPT ![t] = "idle"]
  /\ UNCHANGED <<conf, lock, map, heap, host, via, fresh, ptr, late, clash>>

\* A new object with the address; without a cache it is what the caller gets.
Made(t, p, ttl, for, next) ==
  /\ p \notin Used
  /\ heap' = [heap EXCEPT ![p] = [host |-> host[t], ttl |-> ttl, over |-> FALSE]]
  /\ via' = [via EXCEPT ![t] = for]
  /\ fresh' = [fresh EXCEPT ![t] = IF useCache THEN p ELSE None]
  /\ ptr' = [ptr EXCEPT ![t] = IF useCache THEN None ELSE p]
  /\ late' = [late EXCEPT ![t] = FALSE]
  /\ at' = [at EXCEPT ![t] = IF useCache THEN next ELSE "copy"]

\* lookup_inline(): entries that never expire, entered without the lock.
Resolve(t) ==
  /\ ~clash
  /\ at[t] = "resolve"
  /\ \E p \in Places : Made(t, p, FALSE, "inline", "enter")
  /\ UNCHANGED <<conf, lock, map, host, clash>>

\* Mutant of Answer: the answer is entered without the lock.
AnswerUnlocked(t) ==
  /\ ~clash
  /\ at[t] = "wait"
  /\ useCache \/ Used = {}
  /\ \E p \in Places : Made(t, p, TRUE, "answer", "enter")
  /\ UNCHANGED <<conf, lock, map, host, clash>>

\* dns_a4_cb() with an address.  Without a cache nobody deletes the object:
\* the second conjunct is the bound of the model on such objects.
Answer(t) ==
  /\ ~clash
  /\ at[t] = "wait"
  /\ useCache \/ Used = {}
  /\ \E p \in Places : Made(t, p, TRUE, "answer", "lock")
  /\ UNCHANGED <<conf, lock, map, host, clash>>

\* The caller's copy.  Without a cache, lookup_inline deletes the object.
Copy(t) ==
  /\ ~clash
  /\ at[t] = "copy"
  /\ at' = [at EXCEPT ![t] = "idle"]
  /\ ptr' = [ptr EXCEPT ![t] = None]
  /\ heap' = IF ~useCache /\ via[t] = "inline"
             THEN [heap EXCEPT ![ptr[t]] = NoObject] ELSE heap
  /\ UNCHANGED <<conf, lock, map, host, via, fresh, late, clash>>

\* The time of an address is over; an address in place has none.
Expire(p) ==
  /\ ~clash
  /\ heap[p].ttl /\ ~heap[p].over
  /\ heap' = [heap EXCEPT ![p] = [@ EXCEPT !.over = TRUE]]
  /\ late' = [t \in Threads |-> late[t] \/ ptr[t] = p]
  /\ UNCHANGED <<conf, lock, map, at, host, via, fresh, ptr, clash>>

Step(t) ==
  Enter(t) \/ Leave(t) \/ Unlock(t) \/ Missed(t) \/ Resolve(t) \/ Copy(t)

\* Undefined behaviour is not followed.
Undefined == clash /\ UNCHANGED resolverVars

ResolverNext ==
  \/ \E t \in Threads : Ask(t) \/ Lock(t) \/ Step(t) \/ Fails(t) \/ Answer(t)
  \/ \E p \in Places : Expire(p)
  \/ Undefined

\* A thread goes on, and gets the lock when it is free again and again; names
\* need not be asked for, answered or go out of date.
ResolverSpec ==
  /\ ResolverInit /\ [][ResolverNext]_resolverVars
  /\ \A t \in Threads : WF_resolverVars(Step(t)) /\ SF_resolverVars(Lock(t))

-----------------------------------------------------------------------------
(* Properties.                                                             *)

Held(t) == {fresh[t], ptr[t]} \ {None}
Cached == {map[h] : h \in Hosts} \ {None}

\* Every variable has the type of its declaration; the time of an address
\* without one (m_expires_s is 0) is never over.
ResolverTypeOK ==
  /\ lock \in Threads \union {Nobody}
  /\ map \in [Hosts -> Places \union {None}]
  /\ heap \in [Places -> [host : Hosts, ttl : {TRUE}, over : BOOLEAN]
                         \union [host : Hosts \union {None}, ttl : {FALSE}, over : {FALSE}]]
  /\ at \in [Threads -> {"idle", "lock", "enter", "inmap", "unlock", "missed",
                         "resolve", "wait", "copy"}]
  /\ host \in [Threads -> Hosts] /\ via \in [Threads -> {"fast", "inline", "answer"}]
  /\ fresh \in [Threads -> Places \union {None}]
  /\ ptr \in [Threads -> Places \union {None}]
  /\ late \in [Threads -> BOOLEAN] /\ clash \in BOOLEAN

\* Only a look-up in place can meet another thread in the map: all other
\* accesses to it are under the lock.
ClashIsInline == clash => \E t \in InMap : via[t] = "inline"

\* What a thread copies is the address of the name that it asked for, although
\* it reads it after the unlock: the entry is still there, in its place, unless
\* its time was over by then and another thread deleted it.
CopyIsOwn ==
  \A t \in Threads : at[t] = "copy" /\ ~late[t] =>
    heap[ptr[t]].host = host[t]

\* Besides the types: the cache never holds an object that was deleted, nor one
\* under a name that is not its own, nor one that a thread may still delete; and
\* no object is forgotten: it is cached, or a thread has it in its hands.  The
\* exception: without a cache, nobody deletes the address of an answer.
CacheIsSound ==
  /\ ResolverTypeOK
  /\ \A h \in Hosts : map[h] # None =>
       /\ map[h] \in Used /\ heap[map[h]].host = h
       /\ \A t \in Threads : fresh[t] # map[h]
  /\ useCache \/ sync =>
       \A p \in Used : p \in Cached \/ \E t \in Threads : p \in Held(t)

\* Every look-up ends, or waits for the answer to its query.
LookupEnds ==
  \A t \in Threads : at[t] # "idle" ~> at[t] \in {"idle", "wait"} \/ clash

=============================================================================
