------------------------- MODULE ClntSessionProofs --------------------------
(***************************************************************************)
(* Proofs about client and upstream sessions (module ClntSession): for     *)
(* any number of clients, sessions and block queues, a client that waits   *)
(* is in somebody's care, no queue has two users and no response reaches   *)
(* the wrong client unless a session brought its queue along, a session in *)
(* flight works for a client that waits for it, and a connection is kept   *)
(* only when the last piece of its response was sent.                      *)
(*                                                                         *)
(* A callback works on one client, whose upstream object it replaces, and  *)
(* on the session that works for that client.  In the middle of it neither *)
(* of them is as the invariant has it.  So the invariant says for which    *)
(* sessions (B) it holds and for which clients (outside of X), and which   *)
(* sessions (O) have their input queue to themselves: a callback leaves a  *)
(* client and its session out, does its work, and takes them in again.     *)
(***************************************************************************)
EXTENDS ClntSession, FiniteSetTheorems, SequenceTheorems, TLAPS

-----------------------------------------------------------------------------
(* The inductive invariant.                                                *)

Items == [rqst : Nat, last : BOOLEAN]

Upstreams ==
  [kind : {"none", "proxy", "file"}, state : {"idle", "sending", "done"},
   shutdown : BOOLEAN, cut : BOOLEAN, left : Nat,
   subr : {"none", "queued", "active", "over"}, sess : Sessions \union {NoSession}]

\* The members have the types of their declarations.
Thread ==
  [nc : [Clients -> {"free", "accepting", "connected"}],
   rqst : [Clients -> 0 .. MaxRequests], keep : [Clients -> BOOLEAN],
   ups : [Clients -> Upstreams], outQ : [Clients -> Nbqs \union {Null}],
   armed : [Clients -> BOOLEAN], sent : [Clients -> {"none", "part", "last"}],
   busy : SUBSET Sessions, clnt : [Sessions -> Clients \union {NoClient}],
   inQ : [Sessions -> Nbqs \union {Null}], detached : [Sessions -> BOOLEAN],
   content : [Nbqs -> Seq(Items)], nbqFree : SUBSET Nbqs, orphan : Nbqs,
   outputQ : Seq(Clients), requests : 0 .. MaxRequests, brought : SUBSET Nbqs]

\* A queue that nobody brought along is free, or the orphan, or that of one
\* client, or that of one of the sessions in own.
Single(free, orphan, outQ, own, inQ, brought) ==
  /\ \A q \in free \ brought :
       q # orphan /\ (\A c \in Clients : outQ[c] # q) /\ (\A s \in own : inQ[s] # q)
  /\ orphan \notin brought =>
       (\A c \in Clients : outQ[c] # orphan) /\ (\A s \in own : inQ[s] # orphan)
  /\ \A c, d \in Clients :
       outQ[c] = outQ[d] /\ outQ[c] \notin brought \union {Null} => c = d
  /\ \A s \in own : inQ[s] # Null
  /\ \A r, s \in own : inQ[r] = inQ[s] /\ inQ[r] \notin brought => r = s
  /\ \A c \in Clients, s \in own : outQ[c] = inQ[s] => inQ[s] \in brought

\* What such a queue holds: pieces of the response to the request of its client,
\* and nothing for anybody else.
Filled(content, orphan, outQ, rqst, own, inQ, brought) ==
  /\ \A c \in Clients : outQ[c] \notin brought \union {Null} =>
       /\ \A i \in DOMAIN content[outQ[c]] : content[outQ[c]][i].rqst = rqst[c]
       /\ rqst[c] = 0 => content[outQ[c]] = <<>>
  /\ orphan \notin brought => content[orphan] = <<>>
  /\ \A s \in own : inQ[s] \notin brought => content[inQ[s]] = <<>>

\* The last piece of a response is in the queue, or was sent.
HasLast(content, sent) ==
  IF content = <<>> THEN sent = "last" ELSE content[Len(content)].last

\* The upstream object of c and the sessions in B fit to what c waits for.
ClientOK(u, B, c) ==
  LET x == u.ups[c]
  IN  /\ u.rqst[c] = 0 => x = NoUps
      /\ x.kind \in {"none", "file"} => x.subr = "none"
      /\ x.subr = "queued" => x.kind = "proxy" /\ x.state = "idle"
      /\ x.subr = "active" =>
           x.kind = "proxy" /\ x.state # "done" /\ x.sess \in B /\ u.clnt[x.sess] = c
      /\ x.kind = "proxy" /\ x.state # "done" => x.subr \in {"queued", "active"}
      /\ x.kind = "file" /\ x.state # "done" =>
           x.state = "sending" /\ x.left > 0 /\ u.outQ[c] # Null /\ u.nc[c] = "connected"
      /\ /\ u.rqst[c] # 0 /\ u.outQ[c] \notin u.brought
         /\ x.kind = "none" \/ (x.state = "done" /\ ~x.shutdown)
         => u.outQ[c] # Null /\ HasLast(u.content[u.outQ[c]], u.sent[c])

\* The session s works for a client that waits for it.
SessionOK(u, s) ==
  LET c == u.clnt[s]
      x == u.ups[c]
  IN  /\ c \in Clients /\ u.rqst[c] # 0 /\ u.nc[c] # "free"
      /\ x.subr = "active" /\ x.sess = s
      /\ u.inQ[s] # Null
      /\ x.state = "sending" => u.outQ[c] = u.inQ[s] /\ u.detached[s]

\* What holds of a thread in the middle of a callback.
OK(u, B, O, X) ==
  /\ u \in Thread /\ B \subseteq Sessions /\ O \subseteq Sessions
  /\ \A c \in Clients : u.nc[c] = "free" => u.rqst[c] = 0 /\ u.outQ[c] = Null
  /\ Single(u.nbqFree, u.orphan, u.outQ, O, u.inQ, u.brought)
  /\ Filled(u.content, u.orphan, u.outQ, u.rqst, O \intersect B, u.inQ, u.brought)
  /\ \A c \in Clients \ X : ClientOK(u, B, c)
  /\ \A s \in B : SessionOK(u, s) /\ u.clnt[s] \notin X

\* The sessions that have not passed their queue on.
Owners(u) == {s \in u.busy : u.ups[u.clnt[s]].state # "sending"}

\* The thread between two callbacks.
Whole(u) == OK(u, u.busy, Owners(u), {})

\* Who calls the session of c again.
Cared(u, w, c) ==
  \/ c \in RangeOf(u.outputQ) \/ w = c \/ u.armed[c]
  \/ u.ups[c].subr \in {"queued", "active"}
  \/ u.ups[c].cut
  \/ u.ups[c].kind = "file" /\ u.ups[c].left = 0 /\ u.sent[c] = "none"

Care(u, w, X) ==
  \A c \in Clients \ X : u.nc[c] # "free" /\ u.rqst[c] # 0 => Cared(u, w, c)

IInv ==
  /\ pc \in {"events", "output", "deq"} /\ writing \in Clients \union {Null}
  /\ Whole(t)
  /\ Care(t, writing, {})

-----------------------------------------------------------------------------
(* Who has which queue.                                                    *)

\* A free queue, a client or a session more or less, and what they have.
LEMMA SingleLess ==
  ASSUME NEW free, NEW orphan, NEW outQ, NEW own, NEW inQ, NEW brought,
         NEW F \in SUBSET free, NEW O \in SUBSET own,
         Single(free, orphan, outQ, own, inQ, brought)
  PROVE  Single(F, orphan, outQ, O, inQ, brought)
BY DEF Single

\* A client takes a free queue.
LEMMA SingleTaken ==
  ASSUME NEW free, NEW orphan, NEW outQ \in [Clients -> Nbqs \union {Null}],
         NEW own, NEW inQ, NEW brought, NEW c \in Clients, NEW q \in free,
         q # Null, outQ[c] = Null,
         Single(free, orphan, outQ, own, inQ, brought)
  PROVE  Single(free \ {q}, orphan, [outQ EXCEPT ![c] = q], own, inQ, brought)
BY DEF Single

\* A client gives its queue back.
LEMMA SingleGivenBack ==
  ASSUME NEW free, NEW orphan, NEW outQ \in [Clients -> Nbqs \union {Null}],
         NEW own, NEW inQ, NEW brought, NEW c \in Clients,
         Null \notin free, orphan # Null,
         Single(free, orphan, outQ, own, inQ, brought)
  PROVE  Single(IF outQ[c] = Null THEN free ELSE free \union {outQ[c]}, orphan,
                [outQ EXCEPT ![c] = Null], own, inQ, brought)
<1> DEFINE F == IF outQ[c] = Null THEN free ELSE free \union {outQ[c]}
           o == [outQ EXCEPT ![c] = Null]
<1>1. \A d \in Clients : o[d] = IF d = c THEN Null ELSE outQ[d]
  OBVIOUS
<1>2. \A q \in F : q \in free \/ (q = outQ[c] /\ q # Null)
  OBVIOUS
<1> HIDE DEF o, F
<1>3. \A q \in F \ brought :
        q # orphan /\ (\A d \in Clients : o[d] # q) /\ (\A s \in own : inQ[s] # q)
  <2> SUFFICES ASSUME NEW q \in F \ brought
               PROVE  q # orphan /\ (\A d \in Clients : o[d] # q)
                      /\ (\A s \in own : inQ[s] # q)
    OBVIOUS
  <2>1. CASE q \in free
    BY <1>1, <2>1 DEF Single
  <2>2. CASE q = outQ[c] /\ q # Null
    BY <1>1, <2>2 DEF Single
  <2> QED
    BY <1>2, <2>1, <2>2
<1>4. Single(F, orphan, o, own, inQ, brought)
  BY <1>1, <1>3 DEF Single
<1> QED
  BY <1>4 DEF F, o

\* A session takes a free queue.
LEMMA SingleStarted ==
  ASSUME NEW free, NEW orphan, NEW outQ, NEW own \in SUBSET Sessions,
         NEW inQ \in [Sessions -> Nbqs \union {Null}],
         NEW brought, NEW s \in Sessions \ own, NEW q \in free, q # Null,
         Single(free, orphan, outQ, own, inQ, brought)
  PROVE  Single(free \ {q}, orphan, outQ, own \union {s}, [inQ EXCEPT ![s] = q],
                brought)
BY DEF Single

\* A session starts with the queue it brought along.
LEMMA SingleBrought ==
  ASSUME NEW free, NEW orphan, NEW outQ, NEW own \in SUBSET Sessions,
         NEW inQ \in [Sessions -> Nbqs \union {Null}],
         NEW brought, NEW s \in Sessions, inQ[s] # Null,
         Single(free, orphan, outQ, own, inQ, brought)
  PROVE  Single(free \ {inQ[s]}, orphan, outQ, own \union {s}, inQ,
                brought \union {inQ[s]})
BY DEF Single

\* A session that has a queue to itself gives it back, or loses it.
LEMMA SingleEnded ==
  ASSUME NEW free, NEW orphan, NEW outQ \in [Clients -> Nbqs \union {Null}],
         NEW own \in SUBSET Sessions, NEW inQ \in [Sessions -> Nbqs \union {Null}],
         NEW brought, NEW s \in Sessions, NEW F,
         F = free \/ (s \in own /\ F = free \union {inQ[s]}),
         Single(free, orphan, outQ, own, inQ, brought)
  PROVE  Single(F, orphan, outQ, own \ {s}, [inQ EXCEPT ![s] = Null], brought)
<1> DEFINE i == [inQ EXCEPT ![s] = Null]
<1>1. \A r \in own \ {s} : i[r] = inQ[r]
  OBVIOUS
<1> HIDE DEF i
<1>2. \A q \in F \ brought :
        /\ q # orphan /\ (\A c \in Clients : outQ[c] # q)
        /\ \A r \in own \ {s} : i[r] # q
  BY <1>1 DEF Single
<1> QED
  BY <1>1, <1>2 DEF Single, i

\* A session passes its queue on to a client, which gives its own back.
LEMMA SinglePassed ==
  ASSUME NEW free, NEW orphan, NEW outQ \in [Clients -> Nbqs \union {Null}],
         NEW own \in SUBSET Sessions, NEW inQ \in [Sessions -> Nbqs \union {Null}],
         NEW brought, NEW c \in Clients, NEW s \in own,
         Single(free, orphan, outQ, own, inQ, brought)
  PROVE  Single(free, orphan, [outQ EXCEPT ![c] = inQ[s]], own \ {s}, inQ, brought)
<1> DEFINE o == [outQ EXCEPT ![c] = inQ[s]]
<1>1. \A d \in Clients : o[d] = IF d = c THEN inQ[s] ELSE outQ[d]
  OBVIOUS
<1> HIDE DEF o
<1> QED
  BY <1>1 DEF Single, o

\* A client takes the orphan, and a free queue takes its place.
LEMMA SingleAdopted ==
  ASSUME NEW free, NEW orphan, NEW outQ \in [Clients -> Nbqs \union {Null}],
         NEW own, NEW inQ, NEW brought, NEW c \in Clients, NEW q \in free,
         outQ[c] = Null, orphan # Null,
         Single(free, orphan, outQ, own, inQ, brought)
  PROVE  Single(free \ {q}, q, [outQ EXCEPT ![c] = orphan], own, inQ, brought)
<1> DEFINE o == [outQ EXCEPT ![c] = orphan]
<1>1. \A d \in Clients : o[d] = IF d = c THEN orphan ELSE outQ[d]
  OBVIOUS
<1> HIDE DEF o
<1> QED
  BY <1>1 DEF Single, o

-----------------------------------------------------------------------------
(* A client and its session are left out, and taken in again.              *)

\* What a callback leaves as it is, but for the client c and the sessions outside
\* of B.
Around(u, v, B, c) ==
  /\ \A d \in Clients \ {c} :
       /\ v.nc[d] = u.nc[d] /\ v.rqst[d] = u.rqst[d] /\ v.ups[d] = u.ups[d]
       /\ v.outQ[d] = u.outQ[d] /\ v.sent[d] = u.sent[d]
  /\ \A s \in B : /\ v.clnt[s] = u.clnt[s] /\ v.inQ[s] = u.inQ[s]
                  /\ v.detached[s] = u.detached[s]
  /\ u.brought \subseteq v.brought
  /\ \A d \in Clients \ {c} : u.outQ[d] \notin v.brought \union {Null} =>
       v.content[u.outQ[d]] = u.content[u.outQ[d]]
  /\ v.nc[c] = "free" => v.rqst[c] = 0 /\ v.outQ[c] = Null

LEMMA Elsewhere ==
  ASSUME NEW u, NEW v \in Thread, NEW B, NEW O, NEW P \in SUBSET Sessions,
         NEW c \in Clients, OK(u, B, O, {c}), Around(u, v, B, c),
         Single(v.nbqFree, v.orphan, v.outQ, P, v.inQ, v.brought),
         Filled(v.content, v.orphan, v.outQ, v.rqst, P \intersect B, v.inQ, v.brought)
  PROVE  OK(v, B, P, {c})
<1>1. \A d \in Clients : v.nc[d] = "free" => v.rqst[d] = 0 /\ v.outQ[d] = Null
  BY DEF OK, Around
<1>2. ASSUME NEW d \in Clients \ {c} PROVE ClientOK(v, B, d)
  <2>1. ClientOK(u, B, d)
    BY DEF OK
  <2>2. /\ v.nc[d] = u.nc[d] /\ v.rqst[d] = u.rqst[d] /\ v.ups[d] = u.ups[d]
        /\ v.outQ[d] = u.outQ[d] /\ v.sent[d] = u.sent[d]
        /\ v.outQ[d] \notin v.brought \union {Null} =>
             v.content[v.outQ[d]] = u.content[u.outQ[d]] /\ u.outQ[d] \notin u.brought
    BY DEF Around
  <2>3. u.ups[d].sess \in B => v.clnt[u.ups[d].sess] = u.clnt[u.ups[d].sess]
    BY DEF Around
  <2>4. u.brought \subseteq v.brought
    BY DEF Around
  <2> QED
    BY <2>1, <2>2, <2>3, <2>4 DEF ClientOK
<1>3. ASSUME NEW s \in B PROVE SessionOK(v, s) /\ v.clnt[s] \notin {c}
  <2>1. SessionOK(u, s) /\ u.clnt[s] \notin {c}
    BY DEF OK
  <2>2. v.clnt[s] = u.clnt[s] /\ v.inQ[s] = u.inQ[s] /\ v.detached[s] = u.detached[s]
    BY DEF Around
  <2>3. u.clnt[s] \in Clients \ {c}
    BY <2>1 DEF SessionOK
  <2>4. LET d == u.clnt[s]
        IN  v.nc[d] = u.nc[d] /\ v.rqst[d] = u.rqst[d] /\ v.ups[d] = u.ups[d]
            /\ v.outQ[d] = u.outQ[d]
    BY <2>3 DEF Around
  <2> QED
    BY <2>1, <2>2, <2>3, <2>4 DEF SessionOK
<1> QED
  BY <1>1, <1>2, <1>3 DEF OK

Workers(u, c) == {s \in u.busy : u.clnt[s] = c}

LEMMA FilledLess ==
  ASSUME NEW content, NEW orphan, NEW outQ, NEW rqst, NEW own, NEW inQ, NEW brought,
         NEW O \in SUBSET own,
         Filled(content, orphan, outQ, rqst, own, inQ, brought)
  PROVE  Filled(content, orphan, outQ, rqst, O, inQ, brought)
BY DEF Filled

\* The client c and the session that works for it are left out.
LEMMA LeftOut ==
  ASSUME NEW u, NEW c \in Clients, Whole(u)
  PROVE  OK(u, u.busy \ Workers(u, c), Owners(u), {c})
<1> DEFINE B == u.busy \ Workers(u, c)
<1>1. Filled(u.content, u.orphan, u.outQ, u.rqst, Owners(u) \intersect B, u.inQ,
             u.brought)
  <2>1. Filled(u.content, u.orphan, u.outQ, u.rqst, Owners(u) \intersect u.busy,
               u.inQ, u.brought)
    BY DEF OK, Whole
  <2>2. Owners(u) \intersect B \in SUBSET (Owners(u) \intersect u.busy)
    OBVIOUS
  <2> QED
    BY ONLY <2>1, <2>2, FilledLess
<1>2. ASSUME NEW d \in Clients \ {c} PROVE ClientOK(u, B, d)
  <2>1. ClientOK(u, u.busy, d)
    BY DEF OK, Whole
  <2>2. u.clnt[u.ups[d].sess] = d => u.ups[d].sess \notin Workers(u, c)
    BY DEF Workers
  <2> QED
    BY <2>1, <2>2 DEF ClientOK
<1>3. ASSUME NEW s \in B PROVE SessionOK(u, s) /\ u.clnt[s] \notin {c}
  BY DEF OK, Whole, Workers
<1>4. B \subseteq Sessions
  BY DEF OK, Whole
<1> HIDE DEF B
<1> QED
  BY <1>1, <1>2, <1>3, <1>4 DEF OK, Whole, B

\* The only session that works for a client is the one that its object names.
LEMMA OneWorker ==
  ASSUME NEW u, NEW s \in u.busy, Whole(u)
  PROVE  /\ s \in Sessions /\ SessionOK(u, s) /\ u.clnt[s] \in Clients
         /\ ClientOK(u, u.busy, u.clnt[s])
         /\ Workers(u, u.clnt[s]) = {s}
<1>1. \A r \in u.busy : SessionOK(u, r)
  BY DEF OK, Whole
<1>2. Workers(u, u.clnt[s]) = {s}
  BY <1>1 DEF Workers, SessionOK
<1> QED
  BY <1>1, <1>2 DEF OK, Whole, SessionOK

\* No session works for a client whose subrequest is not active.
LEMMA NoWorker ==
  ASSUME NEW u, NEW c \in Clients, Whole(u),
         u.ups[c].subr # "active"
  PROVE  Workers(u, c) = {}
<1>1. \A r \in u.busy : SessionOK(u, r)
  BY DEF OK, Whole
<1> QED
  BY <1>1 DEF Workers, SessionOK

\* A client whose session is there is taken in again, without one and with one.
LEMMA TakenIn ==
  ASSUME NEW u, NEW B, NEW O, NEW c \in Clients, OK(u, B, O, {c}), ClientOK(u, B, c)
  PROVE  OK(u, B, O, {})
BY DEF OK

LEMMA TakenInBoth ==
  ASSUME NEW u, NEW B, NEW O, NEW c \in Clients, NEW s \in Sessions,
         OK(u, B, O, {c}), ClientOK(u, B \union {s}, c), SessionOK(u, s),
         u.clnt[s] = c,
         s \in O /\ u.inQ[s] \notin u.brought => u.content[u.inQ[s]] = <<>>
  PROVE  OK(u, B \union {s}, O, {})
<1>1. Filled(u.content, u.orphan, u.outQ, u.rqst, O \intersect (B \union {s}), u.inQ,
             u.brought)
  BY DEF OK, Filled
<1>2. ASSUME NEW d \in Clients \ {} PROVE ClientOK(u, B \union {s}, d)
  <2>1. CASE d = c
    BY <2>1
  <2>2. CASE d # c
    <3>1. ClientOK(u, B, d)
      BY <2>2 DEF OK
    <3> QED
      BY <3>1 DEF ClientOK
  <2> QED
    BY <2>1, <2>2
<1>3. ASSUME NEW r \in B \union {s} PROVE SessionOK(u, r) /\ u.clnt[r] \notin {}
  BY DEF OK
<1> QED
  BY <1>1, <1>2, <1>3 DEF OK

-----------------------------------------------------------------------------
(* What the operators of the model do to a client that is left out.        *)

\* Its own members change, and it goes on with what is in its queue.
LEMMA AtClient ==
  ASSUME NEW u, NEW v \in Thread, NEW B, NEW O, NEW c \in Clients, OK(u, B, O, {c}),
         /\ v.outQ = u.outQ /\ v.clnt = u.clnt /\ v.inQ = u.inQ
         /\ v.detached = u.detached /\ v.brought = u.brought
         /\ v.content = u.content /\ v.nbqFree = u.nbqFree /\ v.orphan = u.orphan,
         \A d \in Clients \ {c} :
           /\ v.nc[d] = u.nc[d] /\ v.rqst[d] = u.rqst[d] /\ v.ups[d] = u.ups[d]
           /\ v.sent[d] = u.sent[d],
         v.nc[c] = "free" => v.rqst[c] = 0 /\ v.outQ[c] = Null,
         \/ v.rqst[c] = u.rqst[c]
         \/ u.outQ[c] \notin u.brought \union {Null} => u.content[u.outQ[c]] = <<>>
  PROVE  OK(v, B, O, {c})
<1>1. Single(v.nbqFree, v.orphan, v.outQ, O, v.inQ, v.brought)
  BY DEF OK
<1>2. Filled(v.content, v.orphan, v.outQ, v.rqst, O \intersect B, v.inQ, v.brought)
  BY DEF OK, Filled
<1>3. O \in SUBSET Sessions
  BY DEF OK
<1>4. Around(u, v, B, c)
  BY DEF Around
<1> QED
  BY ONLY <1>1, <1>2, <1>3, <1>4, v \in Thread, OK(u, B, O, {c}), c \in Clients,
     Elsewhere

\* The queue of c is filled with pieces of its response, or emptied.
LEMMA AtQueue ==
  ASSUME NEW u, NEW B, NEW O, NEW c \in Clients, OK(u, B, O, {c}),
         u.outQ[c] # Null, NEW S \in Seq(Items),
         u.outQ[c] \notin u.brought => /\ \A i \in DOMAIN S : S[i].rqst = u.rqst[c]
                                       /\ u.rqst[c] = 0 => S = <<>>
  PROVE  OK([u EXCEPT !.content[u.outQ[c]] = S], B, O, {c})
<1> DEFINE q == u.outQ[c]
           v == [u EXCEPT !.content[q] = S]
<1>1. u \in Thread /\ O \in SUBSET Sessions
  BY DEF OK
<1>2. q \in Nbqs
  BY <1>1 DEF Thread
<1>3. v.content = [u.content EXCEPT ![q] = S]
  BY <1>1 DEF Thread
<1>4. /\ v.nc = u.nc /\ v.rqst = u.rqst /\ v.ups = u.ups /\ v.sent = u.sent
      /\ v.outQ = u.outQ /\ v.clnt = u.clnt /\ v.inQ = u.inQ
      /\ v.detached = u.detached /\ v.brought = u.brought
      /\ v.nbqFree = u.nbqFree /\ v.orphan = u.orphan
  BY <1>1 DEF Thread
<1>5. v \in Thread
  <2>1. [u.content EXCEPT ![q] = S] \in [Nbqs -> Seq(Items)]
    BY <1>1, <1>2 DEF Thread
  <2> QED
    BY <1>1, <2>1 DEF Thread
<1> HIDE DEF v
<1>6. Single(u.nbqFree, u.orphan, u.outQ, O, u.inQ, u.brought)
  BY DEF OK
<1>7. \A p \in Nbqs : p # q => v.content[p] = u.content[p]
  BY <1>1, <1>3 DEF Thread
<1>8. v.content[q] = S
  BY <1>1, <1>2, <1>3 DEF Thread
<1>9. \A d \in Clients : u.outQ[d] \in Nbqs \union {Null}
  BY <1>1 DEF Thread
<1>10. \A d \in Clients \ {c} : u.outQ[d] \notin u.brought \union {Null} =>
         v.content[u.outQ[d]] = u.content[u.outQ[d]]
  BY <1>6, <1>7, <1>9 DEF Single
<1>11. Filled(v.content, v.orphan, v.outQ, v.rqst, O \intersect B, v.inQ, v.brought)
  <2>1. Filled(u.content, u.orphan, u.outQ, u.rqst, O \intersect B, u.inQ, u.brought)
    BY DEF OK
  <2>2. u.orphan \notin u.brought => v.content[u.orphan] = <<>>
    <3>1. u.orphan \in Nbqs
      BY <1>1 DEF Thread
    <3> QED
      BY <1>6, <1>7, <2>1, <3>1 DEF Single, Filled
  <2>3. ASSUME NEW s \in O \intersect B, u.inQ[s] \notin u.brought
        PROVE  v.content[u.inQ[s]] = <<>>
    <3>1. u.inQ[s] \in Nbqs /\ u.inQ[s] # q
      BY <1>1, <1>6, <2>3 DEF Thread, Single
    <3> QED
      BY <1>7, <2>1, <2>3, <3>1 DEF Filled
  <2>4. ASSUME NEW d \in Clients, u.outQ[d] \notin u.brought \union {Null}
        PROVE  /\ \A i \in DOMAIN v.content[u.outQ[d]] :
                    v.content[u.outQ[d]][i].rqst = u.rqst[d]
               /\ u.rqst[d] = 0 => v.content[u.outQ[d]] = <<>>
    <3>1. CASE d = c
      BY <1>8, <2>4, <3>1
    <3>2. CASE d # c
      BY <1>10, <2>1, <2>4, <3>2, ZenonT(40) DEF Filled
    <3> QED
      BY <3>1, <3>2
  <2> QED
    BY <1>4, <2>2, <2>3, <2>4, ZenonT(40) DEF Filled
<1>12. v.nc[c] = "free" => v.rqst[c] = 0 /\ v.outQ[c] = Null
  BY <1>4 DEF OK
<1>13. OK(v, B, O, {c})
  <2>1. Around(u, v, B, c)
    BY <1>4, <1>10, <1>12 DEF Around
  <2>2. Single(v.nbqFree, v.orphan, v.outQ, O, v.inQ, v.brought)
    BY <1>4, <1>6
  <2> QED
    BY ONLY <1>1, <1>5, <1>11, <2>1, <2>2, OK(u, B, O, {c}), c \in Clients, Elsewhere
<1> QED
  BY <1>13 DEF v

\* A client without a queue takes a free one, or the orphan, or that of a session.
\* What it does not change is what follows for the others.
LEMMA NewQueueOK ==
  ASSUME NEW u, NEW B, NEW O, NEW c \in Clients, OK(u, B, O, {c}),
         u.outQ[c] = Null, u.nc[c] # "free", NEW q \in u.nbqFree
  PROVE  OK([u EXCEPT !.nbqFree = @ \ {q}, !.outQ[c] = q, !.content[q] = <<>>],
            B, O, {c})
<1> DEFINE v == [u EXCEPT !.nbqFree = @ \ {q}, !.outQ[c] = q, !.content[q] = <<>>]
<1>1. u \in Thread /\ O \in SUBSET Sessions
  BY DEF OK
<1>2. q \in Nbqs /\ q # Null
  BY <1>1 DEF Thread, Nbqs, Null
<1>3. /\ v.content = [u.content EXCEPT ![q] = <<>>]
      /\ v.nbqFree = u.nbqFree \ {q} /\ v.outQ = [u.outQ EXCEPT ![c] = q]
      /\ v.nc = u.nc /\ v.rqst = u.rqst /\ v.ups = u.ups /\ v.sent = u.sent
      /\ v.clnt = u.clnt /\ v.inQ = u.inQ
      /\ v.detached = u.detached /\ v.brought = u.brought /\ v.orphan = u.orphan
  BY <1>1 DEF Thread
<1>4. v \in Thread
  <2>1. [u.content EXCEPT ![q] = <<>>] \in [Nbqs -> Seq(Items)]
    BY <1>1, <1>2 DEF Thread
  <2>2. [u.outQ EXCEPT ![c] = q] \in [Clients -> Nbqs \union {Null}]
    BY <1>1, <1>2 DEF Thread
  <2> QED
    BY <1>1, <2>1, <2>2 DEF Thread
<1> HIDE DEF v
<1>5. Single(u.nbqFree, u.orphan, u.outQ, O, u.inQ, u.brought)
  BY DEF OK
<1>6. u.outQ \in [Clients -> Nbqs \union {Null}]
  BY <1>1 DEF Thread
<1>7. Single(v.nbqFree, v.orphan, v.outQ, O, v.inQ, v.brought)
  <2>1. Single(u.nbqFree \ {q}, u.orphan, [u.outQ EXCEPT ![c] = q], O, u.inQ,
               u.brought)
    BY ONLY <1>2, <1>5, <1>6, SingleTaken, q \in u.nbqFree, u.outQ[c] = Null,
       c \in Clients
  <2> QED
    BY <1>3, <2>1
<1>8. /\ \A d \in Clients \ {c} : v.outQ[d] = u.outQ[d]
      /\ v.outQ[c] = q
  BY <1>3, <1>6
<1>9. /\ \A p \in Nbqs : p # q => v.content[p] = u.content[p]
      /\ v.content[q] = <<>>
  BY <1>1, <1>2, <1>3 DEF Thread
<1>10. \A d \in Clients \ {c} : u.outQ[d] \notin v.brought \union {Null} =>
         v.content[u.outQ[d]] = u.content[u.outQ[d]]
  BY <1>3, <1>5, <1>6, <1>9 DEF Single
<1>11. Filled(v.content, v.orphan, v.outQ, v.rqst, O \intersect B, v.inQ, v.brought)
  <2>1. Filled(u.content, u.orphan, u.outQ, u.rqst, O \intersect B, u.inQ, u.brought)
    BY DEF OK
  <2>2. u.orphan \notin u.brought => v.content[u.orphan] = <<>>
    <3>1. u.orphan \in Nbqs
      BY <1>1 DEF Thread
    <3> QED
      BY <1>9, <2>1, <3>1 DEF Filled
  <2>3. ASSUME NEW s \in O \intersect B, u.inQ[s] \notin u.brought
        PROVE  v.content[u.inQ[s]] = <<>>
    <3>1. u.inQ[s] \in Nbqs
      BY <1>1, <1>5, <2>3 DEF Thread, Single
    <3> QED
      BY <1>9, <2>1, <2>3, <3>1 DEF Filled
  <2>4. ASSUME NEW d \in Clients, v.outQ[d] \notin u.brought \union {Null}
        PROVE  /\ \A i \in DOMAIN v.content[v.outQ[d]] :
                    v.content[v.outQ[d]][i].rqst = u.rqst[d]
               /\ u.rqst[d] = 0 => v.content[v.outQ[d]] = <<>>
    <3>1. CASE d = c
      BY <1>8, <1>9, <3>1
    <3>2. CASE d # c
      <4>1. d \in Clients \ {c}
        BY <3>2
      <4>2. v.outQ[d] = u.outQ[d] /\ v.content[u.outQ[d]] = u.content[u.outQ[d]]
        BY <1>3, <1>8, <1>10, <2>4, <4>1
      <4> QED
        BY <2>1, <2>4, <4>2 DEF Filled
    <3> QED
      BY <3>1, <3>2
  <2> QED
    BY <1>3, <2>2, <2>3, <2>4 DEF Filled
<1>12. v.nc[c] = "free" => v.rqst[c] = 0 /\ v.outQ[c] = Null
  BY <1>3
<1>13. OK(v, B, O, {c})
  <2>1. \A d \in Clients \ {c} :
          /\ v.nc[d] = u.nc[d] /\ v.rqst[d] = u.rqst[d] /\ v.ups[d] = u.ups[d]
          /\ v.outQ[d] = u.outQ[d] /\ v.sent[d] = u.sent[d]
    BY <1>3, <1>8
  <2>2. \A s \in B : /\ v.clnt[s] = u.clnt[s] /\ v.inQ[s] = u.inQ[s]
                     /\ v.detached[s] = u.detached[s]
    BY <1>3
  <2>3. u.brought \subseteq v.brought
    BY <1>3
  <2>4. Around(u, v, B, c)
    BY <1>10, <1>12, <2>1, <2>2, <2>3 DEF Around
  <2> QED
    BY ONLY c \in Clients, OK(u, B, O, {c}), <1>1, <1>4, <1>7, <1>11, <2>4, Elsewhere
<1> QED
  BY <1>13 DEF v

-----------------------------------------------------------------------------
(* The handlers' common steps.                                             *)

LEMMA AppendItem ==
  ASSUME NEW S \in Seq(Items), NEW x \in Items
  PROVE  /\ Append(S, x) \in Seq(Items) /\ Append(S, x) # <<>>
         /\ Len(Append(S, x)) \in Nat /\ Append(S, x)[Len(Append(S, x))] = x
         /\ \A i \in DOMAIN Append(S, x) :
              Append(S, x)[i] = x \/ (i \in DOMAIN S /\ Append(S, x)[i] = S[i])
<1>1. Len(Append(S, x)) = Len(S) + 1 /\ Append(S, x) \in Seq(Items) /\ Len(S) \in Nat
  OBVIOUS
<1>2. /\ \A i \in 1 .. Len(S) : Append(S, x)[i] = S[i]
      /\ Append(S, x)[Len(S) + 1] = x
  OBVIOUS
<1>3. DOMAIN S = 1 .. Len(S) /\ DOMAIN Append(S, x) = 1 .. (Len(S) + 1)
  BY <1>1
<1> QED
  BY <1>1, <1>2, <1>3

LEMMA OutputGrows ==
  ASSUME NEW S \in Seq(Clients), NEW c \in Clients
  PROVE  /\ Append(S, c) \in Seq(Clients) /\ c \in RangeOf(Append(S, c))
         /\ RangeOf(S) \subseteq RangeOf(Append(S, c))
<1>1. Len(Append(S, c)) = Len(S) + 1 /\ Append(S, c) \in Seq(Clients) /\ Len(S) \in Nat
  OBVIOUS
<1>2. /\ \A i \in 1 .. Len(S) : Append(S, c)[i] = S[i]
      /\ Append(S, c)[Len(S) + 1] = c
  OBVIOUS
<1>3. DOMAIN S = 1 .. Len(S) /\ DOMAIN Append(S, c) = 1 .. (Len(S) + 1)
  BY <1>1
<1> QED
  BY <1>1, <1>2, <1>3 DEF RangeOf

\* What changes in the care of others when c is served: nothing gets lost.
Kept(u, v, c) ==
  /\ \A d \in Clients \ {c} :
       /\ v.nc[d] = u.nc[d] /\ v.rqst[d] = u.rqst[d] /\ v.ups[d] = u.ups[d]
       /\ v.armed[d] = u.armed[d] /\ v.sent[d] = u.sent[d] /\ v.outQ[d] = u.outQ[d]
  /\ RangeOf(u.outputQ) \subseteq RangeOf(v.outputQ)

LEMMA CareKept ==
  ASSUME NEW u, NEW v, NEW w, NEW c \in Clients, Kept(u, v, c),
         Care(u, w, {}) \/ Care(u, w, {c}),
         v.nc[c] # "free" /\ v.rqst[c] # 0 => Cared(v, w, c)
  PROVE  Care(v, w, {})
<1> SUFFICES ASSUME NEW d \in Clients, v.nc[d] # "free", v.rqst[d] # 0
             PROVE  Cared(v, w, d)
  BY DEF Care
<1>1. CASE d = c
  BY <1>1
<1>2. CASE d # c
  <2>1. u.nc[d] # "free" /\ u.rqst[d] # 0
    BY <1>2 DEF Kept
  <2>2. Cared(u, w, d)
    BY <1>2, <2>1 DEF Care
  <2> QED
    BY <1>2, <2>2 DEF Kept, Cared
<1> QED
  BY <1>1, <1>2

LEMMA ReleasedFields ==
  ASSUME NEW u \in Thread, NEW q \in Nbqs \union {Null}
  PROVE  /\ Released(u, q) \in Thread
         /\ Released(u, q).nbqFree =
              IF q = Null THEN u.nbqFree ELSE u.nbqFree \union {q}
         /\ Released(u, q).nc = u.nc /\ Released(u, q).rqst = u.rqst
         /\ Released(u, q).keep = u.keep /\ Released(u, q).ups = u.ups
         /\ Released(u, q).outQ = u.outQ /\ Released(u, q).armed = u.armed
         /\ Released(u, q).sent = u.sent /\ Released(u, q).busy = u.busy
         /\ Released(u, q).clnt = u.clnt /\ Released(u, q).inQ = u.inQ
         /\ Released(u, q).detached = u.detached /\ Released(u, q).content = u.content
         /\ Released(u, q).orphan = u.orphan /\ Released(u, q).outputQ = u.outputQ
         /\ Released(u, q).requests = u.requests /\ Released(u, q).brought = u.brought
<1>1. CASE q = Null
  BY <1>1 DEF Released
<1>2. CASE q # Null
  BY <1>2 DEF Released, Thread
<1> QED
  BY <1>1, <1>2

\* cleanup_srvr_session() of a session that is left out.
LEMMA CleanedOK ==
  ASSUME NEW u, NEW B, NEW O, NEW c \in Clients, NEW s \in Sessions \ B,
         OK(u, B, O, {c}), u.inQ[s] # Null, s \in O \/ u.detached[s]
  PROVE  /\ OK(Cleaned(u, s), B, O \ {s}, {c})
         /\ Cleaned(u, s).busy = u.busy \ {s}
         /\ Cleaned(u, s).nc = u.nc /\ Cleaned(u, s).rqst = u.rqst
         /\ Cleaned(u, s).ups = u.ups /\ Cleaned(u, s).outQ = u.outQ
         /\ Cleaned(u, s).armed = u.armed /\ Cleaned(u, s).sent = u.sent
         /\ \A r \in Sessions \ {s} : Cleaned(u, s).clnt[r] = u.clnt[r]
         /\ Cleaned(u, s).content = u.content /\ Cleaned(u, s).outputQ = u.outputQ
         /\ Cleaned(u, s).brought = u.brought
<1> DEFINE v == IF u.detached[s] THEN u ELSE Released(u, u.inQ[s])
           x == Cleaned(u, s)
           F == IF u.detached[s] THEN u.nbqFree ELSE u.nbqFree \union {u.inQ[s]}
<1>1. u \in Thread /\ O \in SUBSET Sessions
  BY DEF OK
<1>2. u.inQ[s] \in Nbqs
  BY <1>1 DEF Thread
<1>3. /\ v \in Thread /\ v.nbqFree = F
      /\ v.nc = u.nc /\ v.rqst = u.rqst /\ v.keep = u.keep /\ v.ups = u.ups
      /\ v.outQ = u.outQ /\ v.armed = u.armed /\ v.sent = u.sent
      /\ v.busy = u.busy /\ v.clnt = u.clnt /\ v.inQ = u.inQ
      /\ v.detached = u.detached /\ v.content = u.content /\ v.orphan = u.orphan
      /\ v.outputQ = u.outputQ /\ v.brought = u.brought
  <2>1. CASE u.detached[s]
    BY <1>1, <2>1
  <2>2. CASE ~u.detached[s]
    <3> DEFINE y == Released(u, u.inQ[s])
    <3>1. /\ y \in Thread
          /\ y.nbqFree = IF u.inQ[s] = Null THEN u.nbqFree
                         ELSE u.nbqFree \union {u.inQ[s]}
          /\ y.nc = u.nc /\ y.rqst = u.rqst /\ y.keep = u.keep /\ y.ups = u.ups
          /\ y.outQ = u.outQ /\ y.armed = u.armed /\ y.sent = u.sent
          /\ y.busy = u.busy /\ y.clnt = u.clnt /\ y.inQ = u.inQ
          /\ y.detached = u.detached /\ y.content = u.content /\ y.orphan = u.orphan
          /\ y.outputQ = u.outputQ /\ y.brought = u.brought
      BY ONLY <1>1, <1>2, ReleasedFields
    <3>2. v = y
      BY <2>2
    <3> HIDE DEF y, v
    <3> QED
      BY <2>2, <3>1, <3>2
  <2> QED
    BY <2>1, <2>2
<1>4. x = [v EXCEPT !.inQ[s] = Null, !.busy = @ \ {s}, !.clnt[s] = NoClient]
  BY DEF Cleaned
<1> HIDE DEF v, x
<1>5. /\ [v.inQ EXCEPT ![s] = Null] \in [Sessions -> Nbqs \union {Null}]
      /\ [v.clnt EXCEPT ![s] = NoClient] \in [Sessions -> Clients \union {NoClient}]
  BY <1>3 DEF Thread
<1>6. x \in Thread
  BY <1>3, <1>4, <1>5 DEF Thread
<1>7. /\ x.nbqFree = F /\ x.inQ = [u.inQ EXCEPT ![s] = Null]
      /\ x.busy = u.busy \ {s} /\ x.clnt = [u.clnt EXCEPT ![s] = NoClient]
      /\ x.nc = u.nc /\ x.rqst = u.rqst /\ x.ups = u.ups
      /\ x.outQ = u.outQ /\ x.armed = u.armed /\ x.sent = u.sent
      /\ x.detached = u.detached /\ x.content = u.content /\ x.orphan = u.orphan
      /\ x.outputQ = u.outputQ /\ x.brought = u.brought
  BY <1>3, <1>4 DEF Thread
<1>8. \A r \in Sessions \ {s} : x.clnt[r] = u.clnt[r] /\ x.inQ[r] = u.inQ[r]
  BY <1>1, <1>7 DEF Thread
<1>9. Single(x.nbqFree, x.orphan, x.outQ, O \ {s}, x.inQ, x.brought)
  <2>1. Single(u.nbqFree, u.orphan, u.outQ, O, u.inQ, u.brought)
    BY DEF OK
  <2>2. u.outQ \in [Clients -> Nbqs \union {Null}]
        /\ u.inQ \in [Sessions -> Nbqs \union {Null}]
    BY <1>1 DEF Thread
  <2>3. F = u.nbqFree \/ (s \in O /\ F = u.nbqFree \union {u.inQ[s]})
    OBVIOUS
  <2> HIDE DEF F
  <2>4. Single(F, u.orphan, u.outQ, O \ {s}, [u.inQ EXCEPT ![s] = Null], u.brought)
    BY ONLY <1>1, <2>1, <2>2, <2>3, s \in Sessions, SingleEnded
  <2> QED
    BY <1>7, <2>4
<1>10. Filled(x.content, x.orphan, x.outQ, x.rqst, (O \ {s}) \intersect B, x.inQ,
              x.brought)
  <2>1. Filled(u.content, u.orphan, u.outQ, u.rqst, O \intersect B, u.inQ, u.brought)
    BY DEF OK
  <2>2. \A r \in (O \ {s}) \intersect B : x.inQ[r] = u.inQ[r]
    BY <1>1, <1>8
  <2> QED
    BY <1>7, <2>1, <2>2 DEF Filled
<1>11. OK(x, B, O \ {s}, {c})
  <2>1. \A r \in B : /\ x.clnt[r] = u.clnt[r] /\ x.inQ[r] = u.inQ[r]
                     /\ x.detached[r] = u.detached[r]
    <3>1. B \subseteq Sessions \ {s}
      BY DEF OK
    <3> QED
      BY <1>7, <1>8, <3>1
  <2>2. \A d \in Clients \ {c} :
          /\ x.nc[d] = u.nc[d] /\ x.rqst[d] = u.rqst[d] /\ x.ups[d] = u.ups[d]
          /\ x.outQ[d] = u.outQ[d] /\ x.sent[d] = u.sent[d]
    BY <1>7
  <2>3. x.nc[c] = "free" => x.rqst[c] = 0 /\ x.outQ[c] = Null
    BY <1>7 DEF OK
  <2>4. \A d \in Clients \ {c} : u.outQ[d] \notin x.brought \union {Null} =>
          x.content[u.outQ[d]] = u.content[u.outQ[d]]
    BY <1>7
  <2>5. u.brought \subseteq x.brought /\ O \ {s} \in SUBSET Sessions
    BY <1>1, <1>7
  <2>6. Around(u, x, B, c)
    BY <2>1, <2>2, <2>3, <2>4, <2>5 DEF Around
  <2> QED
    BY ONLY c \in Clients, OK(u, B, O, {c}), <1>6, <1>9, <1>10, <2>5, <2>6, Elsewhere
<1> QED
  BY <1>7, <1>8, <1>11 DEF x

-----------------------------------------------------------------------------
(* The end of a callback.                                                  *)

\* A callback on c leaves the sessions in B to their clients, and those in P have
\* their queue to themselves.
Apart(u, v, B, P, c) ==
  /\ B \subseteq u.busy /\ \A r \in B : v.clnt[r] = u.clnt[r]
  /\ \A d \in Clients \ {c} : v.ups[d] = u.ups[d]
  /\ Owners(u) \intersect B \subseteq P

\* The callback ends without a session for c.
LEMMA EndsAlone ==
  ASSUME NEW u, NEW v, NEW B, NEW P, NEW c \in Clients, OK(v, B, P, {c}),
         v.busy = B, Apart(u, v, B, P, c), ClientOK(v, B, c)
  PROVE  Whole(v)
<1>1. OK(v, B, P, {})
  BY ONLY OK(v, B, P, {c}), ClientOK(v, B, c), c \in Clients, TakenIn
<1>2. Owners(v) \subseteq P
  <2>1. \A r \in B : v.clnt[r] \in Clients \ {c}
    BY DEF OK, SessionOK
  <2> QED
    BY <2>1 DEF Owners, Apart
<1>3. Single(v.nbqFree, v.orphan, v.outQ, Owners(v), v.inQ, v.brought)
  <2>1. Single(v.nbqFree, v.orphan, v.outQ, P, v.inQ, v.brought)
    BY <1>1 DEF OK
  <2>2. v.nbqFree \in SUBSET v.nbqFree /\ Owners(v) \in SUBSET P
    BY <1>2
  <2> QED
    BY ONLY <2>1, <2>2, SingleLess
<1>4. Filled(v.content, v.orphan, v.outQ, v.rqst, Owners(v) \intersect B, v.inQ,
             v.brought)
  <2>1. Filled(v.content, v.orphan, v.outQ, v.rqst, P \intersect B, v.inQ, v.brought)
    BY <1>1 DEF OK
  <2>2. Owners(v) \intersect B \in SUBSET (P \intersect B)
    BY <1>2
  <2> QED
    BY ONLY <2>1, <2>2, FilledLess
<1> QED
  BY <1>1, <1>2, <1>3, <1>4 DEF OK, Whole

\* The callback ends with the session s at work for c.
LEMMA EndsWith ==
  ASSUME NEW u, NEW v, NEW B, NEW P, NEW c \in Clients, NEW s \in Sessions \ B,
         OK(v, B, P, {c}),
         v.busy = B \union {s}, Apart(u, v, B, P, c), ClientOK(v, B \union {s}, c),
         SessionOK(v, s), v.clnt[s] = c,
         v.ups[c].state # "sending" =>
           s \in P /\ (v.inQ[s] \notin v.brought => v.content[v.inQ[s]] = <<>>)
  PROVE  Whole(v)
<1>1. Owners(v) \subseteq P
  <2>1. \A r \in B : v.clnt[r] \in Clients \ {c}
    BY DEF OK, SessionOK
  <2> QED
    BY <2>1 DEF Owners, Apart
<1>2. Single(v.nbqFree, v.orphan, v.outQ, Owners(v), v.inQ, v.brought)
  <2>1. Single(v.nbqFree, v.orphan, v.outQ, P, v.inQ, v.brought)
    BY DEF OK
  <2>2. v.nbqFree \in SUBSET v.nbqFree /\ Owners(v) \in SUBSET P
    BY <1>1
  <2> QED
    BY ONLY <2>1, <2>2, SingleLess
<1>3. Filled(v.content, v.orphan, v.outQ, v.rqst, Owners(v) \intersect B, v.inQ,
             v.brought)
  <2>1. Filled(v.content, v.orphan, v.outQ, v.rqst, P \intersect B, v.inQ, v.brought)
    BY DEF OK
  <2>2. Owners(v) \intersect B \in SUBSET (P \intersect B)
    BY <1>1
  <2> QED
    BY ONLY <2>1, <2>2, FilledLess
<1>4. OK(v, B, Owners(v), {c})
  BY <1>1, <1>2, <1>3 DEF OK
<1>5. s \in Owners(v) /\ v.inQ[s] \notin v.brought => v.content[v.inQ[s]] = <<>>
  BY DEF Owners
<1>6. OK(v, B \union {s}, Owners(v), {})
  BY ONLY <1>4, <1>5, ClientOK(v, B \union {s}, c), SessionOK(v, s), v.clnt[s] = c,
     c \in Clients, s \in Sessions, TakenInBoth
<1> QED
  BY <1>6 DEF Whole

\* The callback leaves the session of c, if there is one, as it was.
LEMMA EndsSame ==
  ASSUME NEW u, NEW v, NEW c \in Clients, Whole(u),
         OK(v, u.busy \ Workers(u, c), Owners(u), {c}),
         /\ v.busy = u.busy /\ v.clnt = u.clnt /\ v.inQ = u.inQ
         /\ v.detached = u.detached /\ v.ups = u.ups /\ v.brought = u.brought,
         v.nc[c] # "free", v.rqst[c] = u.rqst[c],
         u.outQ[c] # Null => v.outQ[c] = u.outQ[c],
         ClientOK(v, u.busy, c),
         \A s \in Owners(u) :
           u.inQ[s] \notin u.brought => v.content[u.inQ[s]] = u.content[u.inQ[s]]
  PROVE  Whole(v)
<1> DEFINE B == u.busy \ Workers(u, c)
           P == Owners(u)
<1>1. Apart(u, v, B, P, c)
  BY DEF Apart
<1>2. CASE u.ups[c].subr # "active"
  <2>1. Workers(u, c) = {}
    BY ONLY <1>2, Whole(u), c \in Clients, NoWorker
  <2>2. B = u.busy
    BY <2>1
  <2>3. v.busy = B /\ ClientOK(v, B, c) /\ OK(v, B, P, {c})
    BY <2>2
  <2> HIDE DEF B, P
  <2> QED
    BY ONLY <1>1, <2>3, c \in Clients, EndsAlone
<1>3. CASE u.ups[c].subr = "active"
  <2> DEFINE s == u.ups[c].sess
  <2>1. s \in u.busy /\ u.clnt[s] = c
    BY <1>3 DEF Whole, OK, ClientOK
  <2>2. s \in Sessions /\ SessionOK(u, s) /\ Workers(u, u.clnt[s]) = {s}
    BY ONLY <2>1, Whole(u), OneWorker
  <2>3. u.busy = B \union {s} /\ s \notin B
    BY <2>1, <2>2
  <2>4. v.busy = B \union {s} /\ ClientOK(v, B \union {s}, c) /\ v.clnt[s] = c
    BY <2>1, <2>3
  <2>5. u.outQ[c] = Null => u.inQ[s] # u.outQ[c]
    BY <2>1, <2>2 DEF SessionOK
  <2>6. SessionOK(v, s)
    BY <2>1, <2>2, <2>5 DEF SessionOK
  <2>7. v.ups[c].state # "sending" =>
          s \in P /\ (v.inQ[s] \notin v.brought => v.content[v.inQ[s]] = <<>>)
    <3>1. v.ups[c].state # "sending" => s \in Owners(u) /\ s \in u.busy
      BY <2>1 DEF Owners, Apart
    <3>2. \A r \in Owners(u) \intersect u.busy : u.inQ[r] \notin u.brought =>
            u.content[u.inQ[r]] = <<>>
      BY DEF Whole, OK, Filled
    <3> QED
      BY <3>1, <3>2
  <2>8. s \in Sessions \ B /\ OK(v, B, P, {c})
    BY <2>2, <2>3
  <2> HIDE DEF B, P, s
  <2> QED
    BY ONLY <1>1, <2>4, <2>6, <2>7, <2>8, c \in Clients, EndsWith
<1> QED
  BY <1>2, <1>3

-----------------------------------------------------------------------------
(* The end of a client session.                                            *)

LEMMA NoUpsIsOne == NoUps \in Upstreams
BY DEF NoUps, Upstreams

\* cleanup_clnt_session() of a client that is left out.
LEMMA ClntCleanedOK ==
  ASSUME NEW u, NEW B, NEW O, NEW c \in Clients, OK(u, B, O, {c})
  PROVE  LET v == ClntCleaned(u, c)
         IN  /\ OK(v, B, O, {c}) /\ Kept(u, v, c)
             /\ v.nc[c] = "free" /\ v.rqst[c] = 0 /\ v.ups[c] = NoUps
             /\ v.busy = u.busy /\ v.clnt = u.clnt
<1> DEFINE y == Released(u, u.outQ[c])
           v == ClntCleaned(u, c)
           F == IF u.outQ[c] = Null THEN u.nbqFree ELSE u.nbqFree \union {u.outQ[c]}
<1>1. u \in Thread /\ O \in SUBSET Sessions /\ u.outQ[c] \in Nbqs \union {Null}
  BY DEF OK, Thread
<1>2. /\ y \in Thread /\ y.nbqFree = F
      /\ y.nc = u.nc /\ y.rqst = u.rqst /\ y.keep = u.keep /\ y.ups = u.ups
      /\ y.outQ = u.outQ /\ y.armed = u.armed /\ y.sent = u.sent
      /\ y.busy = u.busy /\ y.clnt = u.clnt /\ y.inQ = u.inQ
      /\ y.detached = u.detached /\ y.content = u.content /\ y.orphan = u.orphan
      /\ y.outputQ = u.outputQ /\ y.brought = u.brought
  BY ONLY <1>1, ReleasedFields, SMTT(30)
<1>3. v = [y EXCEPT !.outQ[c] = Null, !.nc[c] = "free", !.rqst[c] = 0,
                    !.keep[c] = FALSE, !.ups[c] = NoUps, !.armed[c] = FALSE,
                    !.sent[c] = "none"]
  BY DEF ClntCleaned
<1> HIDE DEF y, v, F
<1>4. /\ v.outQ = [u.outQ EXCEPT ![c] = Null] /\ v.nc = [u.nc EXCEPT ![c] = "free"]
      /\ v.rqst = [u.rqst EXCEPT ![c] = 0] /\ v.keep = [u.keep EXCEPT ![c] = FALSE]
      /\ v.ups = [u.ups EXCEPT ![c] = NoUps] /\ v.armed = [u.armed EXCEPT ![c] = FALSE]
      /\ v.sent = [u.sent EXCEPT ![c] = "none"]
      /\ v.nbqFree = F /\ v.busy = u.busy /\ v.clnt = u.clnt /\ v.inQ = u.inQ
      /\ v.detached = u.detached /\ v.content = u.content /\ v.orphan = u.orphan
      /\ v.outputQ = u.outputQ /\ v.brought = u.brought
  BY <1>2, <1>3 DEF Thread
<1>5. v \in Thread
  <2>1. /\ v.outQ \in [Clients -> Nbqs \union {Null}]
        /\ v.nc \in [Clients -> {"free", "accepting", "connected"}]
        /\ v.rqst \in [Clients -> 0 .. MaxRequests]
        /\ v.sent \in [Clients -> {"none", "part", "last"}]
    BY <1>1, <1>4, SizesAssumption DEF Thread
  <2>2. /\ v.keep \in [Clients -> BOOLEAN] /\ v.armed \in [Clients -> BOOLEAN]
        /\ v.ups \in [Clients -> Upstreams]
    BY <1>1, <1>4, NoUpsIsOne DEF Thread
  <2> QED
    BY <1>2, <1>3, <1>4, <2>1, <2>2 DEF Thread
<1>6. \A d \in Clients \ {c} :
        /\ v.nc[d] = u.nc[d] /\ v.rqst[d] = u.rqst[d] /\ v.ups[d] = u.ups[d]
        /\ v.outQ[d] = u.outQ[d] /\ v.sent[d] = u.sent[d] /\ v.armed[d] = u.armed[d]
  BY <1>1, <1>4 DEF Thread
<1>7. /\ v.nc[c] = "free" /\ v.rqst[c] = 0 /\ v.ups[c] = NoUps /\ v.outQ[c] = Null
  BY <1>1, <1>4 DEF Thread
<1>8. Single(v.nbqFree, v.orphan, v.outQ, O, v.inQ, v.brought)
  <2>1. Single(u.nbqFree, u.orphan, u.outQ, O, u.inQ, u.brought)
    BY DEF OK
  <2>2. /\ u.outQ \in [Clients -> Nbqs \union {Null}]
        /\ Null \notin u.nbqFree /\ u.orphan # Null
    BY <1>1 DEF Thread, Nbqs, Null
  <2>3. Single(F, u.orphan, [u.outQ EXCEPT ![c] = Null], O, u.inQ, u.brought)
    BY ONLY <2>1, <2>2, c \in Clients, SingleGivenBack DEF F
  <2> QED
    BY <1>4, <2>3
<1>9. Filled(v.content, v.orphan, v.outQ, v.rqst, O \intersect B, v.inQ, v.brought)
  <2>1. Filled(u.content, u.orphan, u.outQ, u.rqst, O \intersect B, u.inQ, u.brought)
    BY DEF OK
  <2>2. ASSUME NEW d \in Clients, v.outQ[d] \notin v.brought \union {Null}
        PROVE  /\ \A i \in DOMAIN v.content[v.outQ[d]] :
                    v.content[v.outQ[d]][i].rqst = v.rqst[d]
               /\ v.rqst[d] = 0 => v.content[v.outQ[d]] = <<>>
    <3>1. d \in Clients \ {c}
      BY <1>7, <2>2
    <3>2. /\ v.outQ[d] = u.outQ[d] /\ v.rqst[d] = u.rqst[d]
          /\ v.content = u.content /\ v.brought = u.brought
      BY <1>4, <1>6, <3>1
    <3> QED
      BY <2>1, <2>2, <3>2 DEF Filled
  <2>3. /\ v.orphan \notin v.brought => v.content[v.orphan] = <<>>
        /\ \A r \in O \intersect B : v.inQ[r] \notin v.brought =>
             v.content[v.inQ[r]] = <<>>
    BY <1>4, <2>1 DEF Filled
  <2> QED
    BY <2>2, <2>3 DEF Filled
<1>10. OK(v, B, O, {c})
  <2>1. \A r \in B : /\ v.clnt[r] = u.clnt[r] /\ v.inQ[r] = u.inQ[r]
                     /\ v.detached[r] = u.detached[r]
    BY <1>4
  <2>2. \A d \in Clients \ {c} : u.outQ[d] \notin v.brought \union {Null} =>
          v.content[u.outQ[d]] = u.content[u.outQ[d]]
    BY <1>4
  <2>3. u.brought \subseteq v.brought /\ O \in SUBSET Sessions
    BY <1>1, <1>4
  <2>4. \A d \in Clients \ {c} :
          /\ v.nc[d] = u.nc[d] /\ v.rqst[d] = u.rqst[d] /\ v.ups[d] = u.ups[d]
          /\ v.outQ[d] = u.outQ[d] /\ v.sent[d] = u.sent[d]
    BY <1>6
  <2>5. v.nc[c] = "free" => v.rqst[c] = 0 /\ v.outQ[c] = Null
    BY <1>7
  <2>6. Around(u, v, B, c)
    BY <2>1, <2>2, <2>3, <2>4, <2>5 DEF Around
  <2> QED
    BY ONLY c \in Clients, OK(u, B, O, {c}), <1>5, <1>8, <1>9, <2>3, <2>6, Elsewhere
<1>11. Kept(u, v, c)
  BY <1>4, <1>6 DEF Kept
<1> QED
  BY <1>4, <1>7, <1>10, <1>11 DEF v

\* A client that has no request needs nothing.
LEMMA NoRequestOK ==
  ASSUME NEW v, NEW B, NEW c, v.rqst[c] = 0, v.ups[c] = NoUps
  PROVE  ClientOK(v, B, c)
BY DEF ClientOK, NoUps

\* clnt_session::teardown.
LEMMA TornDownOK ==
  ASSUME NEW u, NEW c \in Clients, Whole(u)
  PROVE  LET v == TornDown(u, c)
         IN  Whole(v) /\ Kept(u, v, c) /\ v.nc[c] = "free"
<1> DEFINE s == u.ups[c].sess
           B == u.busy \ Workers(u, c)
           P == Owners(u)
           w == IF u.ups[c].subr = "active" /\ ~UpsDone(u, c) THEN Cleaned(u, s) ELSE u
           v == TornDown(u, c)
<1>1. OK(u, B, P, {c})
  BY ONLY Whole(u), c \in Clients, LeftOut
<1>2. ClientOK(u, u.busy, c)
  BY DEF Whole, OK
<1>3. /\ \E Q \in SUBSET P : P \intersect B \subseteq Q /\ OK(w, B, Q, {c})
      /\ w.busy = B /\ \A r \in B : w.clnt[r] = u.clnt[r]
      /\ w.nc = u.nc /\ w.rqst = u.rqst /\ w.ups = u.ups /\ w.outQ = u.outQ
      /\ w.armed = u.armed /\ w.sent = u.sent /\ w.outputQ = u.outputQ
  <2>1. CASE u.ups[c].subr = "active"
    <3>1. s \in u.busy /\ u.clnt[s] = c /\ ~UpsDone(u, c)
      BY <1>2, <2>1 DEF ClientOK, UpsDone
    <3>2. s \in Sessions /\ SessionOK(u, s) /\ Workers(u, u.clnt[s]) = {s}
      BY ONLY <3>1, Whole(u), OneWorker
    <3>3. s \in Sessions \ B /\ u.inQ[s] # Null /\ (s \in P \/ u.detached[s])
      BY <3>1, <3>2 DEF SessionOK, Owners
    <3>4. B = u.busy \ {s} /\ B \subseteq Sessions \ {s}
      BY <1>1, <3>1, <3>2 DEF OK
    <3>5. w = Cleaned(u, s)
      BY <2>1, <3>1
    <3> HIDE DEF s, B, P, w
    <3>6. /\ OK(w, B, P \ {s}, {c}) /\ w.busy = u.busy \ {s}
          /\ \A r \in Sessions \ {s} : w.clnt[r] = u.clnt[r]
          /\ w.nc = u.nc /\ w.rqst = u.rqst /\ w.ups = u.ups /\ w.outQ = u.outQ
          /\ w.armed = u.armed /\ w.sent = u.sent /\ w.outputQ = u.outputQ
      BY ONLY <1>1, <3>3, <3>5, c \in Clients, CleanedOK
    <3>7. P \ {s} \in SUBSET P /\ P \intersect B \subseteq P \ {s}
      BY <3>4
    <3> QED
      BY <3>4, <3>6, <3>7
  <2>2. CASE u.ups[c].subr # "active"
    <3>1. Workers(u, c) = {}
      BY ONLY <2>2, Whole(u), c \in Clients, NoWorker
    <3>2. B = u.busy /\ w = u
      BY <2>2, <3>1
    <3> HIDE DEF B, P, w
    <3> QED
      BY <1>1, <3>2
  <2> QED
    BY <2>1, <2>2
<1>4. v = ClntCleaned(w, c)
  BY DEF TornDown
<1> HIDE DEF s, w, v, P
<1>5. PICK Q \in SUBSET P : P \intersect B \subseteq Q /\ OK(w, B, Q, {c})
  BY <1>3
<1>6. /\ OK(v, B, Q, {c}) /\ Kept(w, v, c)
      /\ v.nc[c] = "free" /\ v.rqst[c] = 0 /\ v.ups[c] = NoUps
      /\ v.busy = w.busy /\ v.clnt = w.clnt
  BY ONLY <1>4, <1>5, c \in Clients, ClntCleanedOK
<1>7. ClientOK(v, B, c)
  BY ONLY <1>6, NoRequestOK
<1>8. Apart(u, v, B, Q, c)
  BY <1>3, <1>5, <1>6 DEF Apart, Kept, P
<1>9. Whole(v)
  <2>1. v.busy = B
    BY <1>3, <1>6
  <2> HIDE DEF B
  <2> QED
    BY ONLY <1>6, <1>7, <1>8, <2>1, c \in Clients, EndsAlone
<1>10. Kept(u, v, c)
  BY <1>3, <1>6 DEF Kept
<1> QED
  BY <1>6, <1>9, <1>10 DEF v

-----------------------------------------------------------------------------
(* What is put into the queue of a client.                                 *)

\* The queue and the upstream object of c change, and nothing else of the client,
\* of its session and of others.
Served(u, v, c) ==
  /\ Kept(u, v, c)
  /\ v.nc = u.nc /\ v.rqst = u.rqst /\ v.armed = u.armed /\ v.sent = u.sent
  /\ v.busy = u.busy /\ v.clnt = u.clnt /\ v.inQ = u.inQ /\ v.detached = u.detached
  /\ v.brought = u.brought

LEMMA ServedTwice ==
  ASSUME NEW u, NEW v, NEW w, NEW c, Served(u, v, c), Served(v, w, c)
  PROVE  Served(u, w, c)
BY DEF Served, Kept

LEMMA UpsSetOK ==
  ASSUME NEW u, NEW B, NEW O, NEW c \in Clients, OK(u, B, O, {c}), NEW x \in Upstreams
  PROVE  LET v == [u EXCEPT !.ups[c] = x]
         IN  /\ OK(v, B, O, {c}) /\ Served(u, v, c) /\ v.ups[c] = x
             /\ v.outQ = u.outQ /\ v.content = u.content /\ v.outputQ = u.outputQ
             /\ v.nbqFree = u.nbqFree
<1> DEFINE v == [u EXCEPT !.ups[c] = x]
<1>1. u \in Thread
  BY DEF OK
<1>2. /\ v.ups = [u.ups EXCEPT ![c] = x]
      /\ v.nc = u.nc /\ v.rqst = u.rqst /\ v.armed = u.armed /\ v.sent = u.sent
      /\ v.outQ = u.outQ /\ v.busy = u.busy /\ v.clnt = u.clnt /\ v.inQ = u.inQ
      /\ v.detached = u.detached /\ v.content = u.content /\ v.nbqFree = u.nbqFree
      /\ v.orphan = u.orphan /\ v.outputQ = u.outputQ /\ v.brought = u.brought
  BY <1>1 DEF Thread
<1>3. v \in Thread
  <2>1. [u.ups EXCEPT ![c] = x] \in [Clients -> Upstreams]
    BY <1>1 DEF Thread
  <2> QED
    BY <1>1, <2>1 DEF Thread
<1> HIDE DEF v
<1>4. v.ups[c] = x /\ \A d \in Clients \ {c} : v.ups[d] = u.ups[d]
  BY <1>1, <1>2 DEF Thread
<1>5. OK(v, B, O, {c})
  <2>1. \A d \in Clients \ {c} :
          /\ v.nc[d] = u.nc[d] /\ v.rqst[d] = u.rqst[d] /\ v.ups[d] = u.ups[d]
          /\ v.sent[d] = u.sent[d]
    BY <1>2, <1>4
  <2>2. v.nc[c] = "free" => v.rqst[c] = 0 /\ v.outQ[c] = Null
    BY <1>2 DEF OK
  <2> QED
    BY ONLY c \in Clients, OK(u, B, O, {c}), <1>2, <1>3, <2>1, <2>2, AtClient
<1>6. Served(u, v, c)
  BY <1>2, <1>4 DEF Served, Kept
<1> QED
  BY <1>2, <1>4, <1>5, <1>6 DEF v

LEMMA QueueOutputOK ==
  ASSUME NEW u, NEW B, NEW O, NEW c \in Clients, OK(u, B, O, {c})
  PROVE  LET v == QueueOutput(u, c)
         IN  /\ OK(v, B, O, {c}) /\ Served(u, v, c) /\ c \in RangeOf(v.outputQ)
             /\ v.ups = u.ups /\ v.outQ = u.outQ /\ v.content = u.content
<1> DEFINE v == QueueOutput(u, c)
<1>1. u \in Thread /\ u.outputQ \in Seq(Clients)
  BY DEF OK, Thread
<1>2. /\ v.outputQ = Append(u.outputQ, c)
      /\ v.nc = u.nc /\ v.rqst = u.rqst /\ v.armed = u.armed /\ v.sent = u.sent
      /\ v.outQ = u.outQ /\ v.busy = u.busy /\ v.clnt = u.clnt /\ v.inQ = u.inQ
      /\ v.detached = u.detached /\ v.content = u.content /\ v.nbqFree = u.nbqFree
      /\ v.orphan = u.orphan /\ v.ups = u.ups /\ v.brought = u.brought
  BY <1>1 DEF Thread, QueueOutput
<1>3. /\ Append(u.outputQ, c) \in Seq(Clients)
      /\ c \in RangeOf(Append(u.outputQ, c))
      /\ RangeOf(u.outputQ) \subseteq RangeOf(Append(u.outputQ, c))
  BY ONLY <1>1, c \in Clients, OutputGrows
<1>4. v \in Thread
  BY <1>1, <1>3 DEF Thread, QueueOutput
<1> HIDE DEF v
<1>5. OK(v, B, O, {c})
  <2>1. \A d \in Clients \ {c} :
          /\ v.nc[d] = u.nc[d] /\ v.rqst[d] = u.rqst[d] /\ v.ups[d] = u.ups[d]
          /\ v.sent[d] = u.sent[d]
    BY <1>2
  <2>2. v.nc[c] = "free" => v.rqst[c] = 0 /\ v.outQ[c] = Null
    BY <1>2 DEF OK
  <2> QED
    BY ONLY c \in Clients, OK(u, B, O, {c}), <1>2, <1>4, <2>1, <2>2, AtClient
<1>6. Served(u, v, c)
  BY <1>2, <1>3 DEF Served, Kept
<1> QED
  BY <1>2, <1>3, <1>5, <1>6 DEF v

\* get_nbq().
LEMMA WithNbqOK ==
  ASSUME NEW u, NEW B, NEW O, NEW c \in Clients, OK(u, B, O, {c}),
         u.rqst[c] # 0, u.nbqFree # {}
  PROVE  LET v == WithNbq(u, c)
         IN  /\ OK(v, B, O, {c}) /\ Served(u, v, c)
             /\ v.ups = u.ups /\ v.outputQ = u.outputQ
             /\ v.outQ[c] # Null /\ v.content[v.outQ[c]] = <<>>
<1> DEFINE v == WithNbq(u, c)
           q == NewNbq(u)
<1>1. u \in Thread /\ u.nc[c] # "free" /\ u.outQ[c] \in Nbqs \union {Null}
  BY DEF OK, Thread
<1>2. CASE u.outQ[c] # Null
  <2>1. v = [u EXCEPT !.content[u.outQ[c]] = <<>>]
    BY <1>2 DEF WithNbq
  <2> HIDE DEF v
  <2>2. <<>> \in Seq(Items) /\ \A i \in DOMAIN <<>> : <<>>[i].rqst = u.rqst[c]
    OBVIOUS
  <2>3. OK(v, B, O, {c})
    BY ONLY <1>2, <2>1, <2>2, OK(u, B, O, {c}), c \in Clients, AtQueue
  <2>4. /\ v.content = [u.content EXCEPT ![u.outQ[c]] = <<>>]
        /\ v.nc = u.nc /\ v.rqst = u.rqst /\ v.armed = u.armed /\ v.sent = u.sent
        /\ v.outQ = u.outQ /\ v.busy = u.busy /\ v.clnt = u.clnt /\ v.inQ = u.inQ
        /\ v.detached = u.detached /\ v.outputQ = u.outputQ
        /\ v.ups = u.ups /\ v.brought = u.brought
    BY <1>1, <2>1 DEF Thread
  <2>5. v.content[v.outQ[c]] = <<>>
    BY <1>1, <1>2, <2>4 DEF Thread
  <2>6. Served(u, v, c)
    BY <2>4 DEF Served, Kept
  <2> QED
    BY <1>2, <2>3, <2>4, <2>5, <2>6 DEF v
<1>3. CASE u.outQ[c] = Null
  <2>1. v = [u EXCEPT !.nbqFree = @ \ {q}, !.outQ[c] = q, !.content[q] = <<>>]
    BY <1>3 DEF WithNbq
  <2>2. q \in u.nbqFree /\ q \in Nbqs /\ q # Null
    BY <1>1 DEF NewNbq, Thread, Nbqs, Null
  <2> HIDE DEF v, q
  <2>3. OK(v, B, O, {c})
    BY ONLY <1>1, <1>3, <2>1, <2>2, OK(u, B, O, {c}), c \in Clients, NewQueueOK
  <2>4. /\ v.content = [u.content EXCEPT ![q] = <<>>]
        /\ v.outQ = [u.outQ EXCEPT ![c] = q]
        /\ v.nc = u.nc /\ v.rqst = u.rqst /\ v.armed = u.armed /\ v.sent = u.sent
        /\ v.busy = u.busy /\ v.clnt = u.clnt /\ v.inQ = u.inQ
        /\ v.detached = u.detached /\ v.outputQ = u.outputQ
        /\ v.ups = u.ups /\ v.brought = u.brought
    BY <1>1, <2>1 DEF Thread
  <2>5. v.outQ[c] = q /\ v.content[q] = <<>>
    BY <1>1, <2>2, <2>4 DEF Thread
  <2>6. \A d \in Clients \ {c} : v.outQ[d] = u.outQ[d]
    BY <1>1, <2>4 DEF Thread
  <2>7. Served(u, v, c)
    BY <2>4, <2>6 DEF Served, Kept
  <2> QED
    BY <2>2, <2>3, <2>4, <2>5, <2>7 DEF v
<1> QED
  BY <1>2, <1>3

LEMMA ItemOK ==
  ASSUME NEW r \in 0 .. MaxRequests, NEW last \in BOOLEAN
  PROVE  Item(r, last) \in Items /\ Item(r, last).rqst = r /\ Item(r, last).last = last
<1>1. r \in Nat
  BY SizesAssumption
<1> QED
  BY <1>1 DEF Item, Items

\* The last item in the queue of c.
EndsIn(u, c, x) ==
  LET S == u.content[u.outQ[c]] IN S # <<>> /\ S[Len(S)] = x

\* A piece of the response to the request of c is put into its queue.
LEMMA PutOK ==
  ASSUME NEW u, NEW B, NEW O, NEW c \in Clients, OK(u, B, O, {c}),
         u.rqst[c] # 0, u.outQ[c] # Null, NEW x \in Items, x.rqst = u.rqst[c]
  PROVE  LET v == Put(u, u.outQ[c], x)
         IN  /\ OK(v, B, O, {c}) /\ Served(u, v, c) /\ EndsIn(v, c, x)
             /\ v.ups = u.ups /\ v.outputQ = u.outputQ /\ v.outQ = u.outQ
<1> DEFINE q == u.outQ[c]
           v == Put(u, q, x)
           S == Append(u.content[q], x)
<1>1. u \in Thread /\ q \in Nbqs /\ u.content[q] \in Seq(Items)
  <2>1. u \in Thread
    BY DEF OK
  <2> QED
    BY <2>1 DEF Thread
<1>2. v = [u EXCEPT !.content[q] = S]
  BY DEF Put
<1>3. /\ S \in Seq(Items) /\ S # <<>> /\ S[Len(S)] = x
      /\ \A i \in DOMAIN S :
           S[i] = x \/ (i \in DOMAIN u.content[q] /\ S[i] = u.content[q][i])
  <2> HIDE DEF q
  <2> QED
    BY ONLY <1>1, x \in Items, AppendItem DEF S
<1>4. u.outQ[c] \notin u.brought => /\ \A i \in DOMAIN S : S[i].rqst = u.rqst[c]
                                    /\ u.rqst[c] = 0 => S = <<>>
  <2>1. q \notin u.brought => \A i \in DOMAIN u.content[q] :
          u.content[q][i].rqst = u.rqst[c]
    BY DEF OK, Filled
  <2> HIDE DEF S, q
  <2> QED
    BY <1>1, <1>3, <2>1 DEF q
<1> HIDE DEF v, S
<1>5. OK(v, B, O, {c})
  BY ONLY <1>2, <1>3, <1>4, OK(u, B, O, {c}), c \in Clients, u.outQ[c] # Null, AtQueue
<1>6. /\ v.content = [u.content EXCEPT ![q] = S]
      /\ v.nc = u.nc /\ v.rqst = u.rqst /\ v.armed = u.armed /\ v.sent = u.sent
      /\ v.outQ = u.outQ /\ v.busy = u.busy /\ v.clnt = u.clnt /\ v.inQ = u.inQ
      /\ v.detached = u.detached /\ v.outputQ = u.outputQ
      /\ v.ups = u.ups /\ v.brought = u.brought
  BY <1>1, <1>2 DEF Thread
<1>7. v.content[v.outQ[c]] = S
  BY <1>1, <1>6 DEF Thread
<1>8. Served(u, v, c)
  BY <1>6 DEF Served, Kept
<1> QED
  BY <1>3, <1>5, <1>6, <1>7, <1>8 DEF v, EndsIn

-----------------------------------------------------------------------------
(* Handlers that answer, and upstream sessions that fail.                  *)

\* What is left of a response is in its queue, with its last piece.
Complete(u, c) ==
  LET S == u.content[u.outQ[c]]
  IN  u.outQ[c] # Null /\ S # <<>> /\ S[Len(S)].last

LEMMA QueueApiRespOK ==
  ASSUME NEW u, NEW B, NEW O, NEW c \in Clients, OK(u, B, O, {c}),
         u.rqst[c] # 0, u.nbqFree # {}
  PROVE  LET v == QueueApiResp(u, c)
         IN  /\ OK(v, B, O, {c}) /\ Served(u, v, c) /\ v.ups = u.ups
             /\ c \in RangeOf(v.outputQ) /\ Complete(v, c)
<1> DEFINE w == WithNbq(u, c)
           i == Item(u.rqst[c], TRUE)
           x == Put(w, w.outQ[c], i)
           v == QueueApiResp(u, c)
<1>1. /\ OK(w, B, O, {c}) /\ Served(u, w, c) /\ w.ups = u.ups /\ w.outQ[c] # Null
  BY ONLY c \in Clients, OK(u, B, O, {c}), u.rqst[c] # 0, u.nbqFree # {}, WithNbqOK
<1>2. i \in Items /\ i.rqst = u.rqst[c] /\ i.last
  <2>1. u.rqst[c] \in 0 .. MaxRequests
    BY DEF OK, Thread
  <2> QED
    BY <2>1, ItemOK
<1>3. v = QueueOutput(x, c)
  BY DEF QueueApiResp
<1> HIDE DEF w, i
<1>4. /\ OK(x, B, O, {c}) /\ Served(w, x, c) /\ x.ups = w.ups /\ Complete(x, c)
  <2>1. w.rqst[c] # 0 /\ i.rqst = w.rqst[c]
    BY <1>1, <1>2 DEF Served
  <2>2. /\ OK(x, B, O, {c}) /\ Served(w, x, c) /\ x.ups = w.ups
        /\ x.outQ = w.outQ /\ EndsIn(x, c, i)
    BY ONLY <1>1, <1>2, <2>1, c \in Clients, PutOK
  <2> HIDE DEF x
  <2> QED
    BY <1>1, <1>2, <2>2 DEF Complete, EndsIn
<1> HIDE DEF x, v
<1>5. /\ OK(v, B, O, {c}) /\ Served(x, v, c) /\ c \in RangeOf(v.outputQ)
      /\ v.ups = x.ups /\ v.outQ = x.outQ /\ v.content = x.content
  BY ONLY c \in Clients, <1>3, <1>4, QueueOutputOK
<1>6. Complete(v, c)
  BY <1>4, <1>5 DEF Complete
<1>7. Served(u, v, c)
  BY ONLY <1>1, <1>4, <1>5, ServedTwice
<1> QED
  BY <1>1, <1>4, <1>5, <1>6, <1>7 DEF v

LEMMA ErrorCbOK ==
  ASSUME NEW u, NEW B, NEW O, NEW c \in Clients, OK(u, B, O, {c}),
         u.rqst[c] # 0, u.nbqFree # {}
  PROVE  LET v == ErrorCb(u, c)
         IN  /\ OK(v, B, O, {c}) /\ Served(u, v, c) /\ v.ups[c] = NoUps
             /\ c \in RangeOf(v.outputQ) /\ Complete(v, c)
<1> DEFINE w == [u EXCEPT !.ups[c] = NoUps]
           v == ErrorCb(u, c)
<1>1. /\ OK(w, B, O, {c}) /\ Served(u, w, c) /\ w.ups[c] = NoUps
      /\ w.nbqFree = u.nbqFree
  BY ONLY c \in Clients, OK(u, B, O, {c}), NoUpsIsOne, UpsSetOK
<1>2. v = QueueApiResp(w, c)
  BY DEF ErrorCb
<1> HIDE DEF w, v
<1>3. w.rqst[c] # 0 /\ w.nbqFree # {}
  BY <1>1 DEF Served
<1>4. /\ OK(v, B, O, {c}) /\ Served(w, v, c) /\ v.ups = w.ups
      /\ c \in RangeOf(v.outputQ) /\ Complete(v, c)
  BY ONLY c \in Clients, <1>1, <1>2, <1>3, QueueApiRespOK
<1>5. Served(u, v, c)
  BY ONLY <1>1, <1>4, ServedTwice
<1> QED
  BY <1>1, <1>4, <1>5 DEF v

\* A client whose response is complete, or sent, needs nobody.
LEMMA CompleteOK ==
  ASSUME NEW v, NEW B, NEW c, v.ups[c] = NoUps, Complete(v, c)
  PROVE  ClientOK(v, B, c)
BY DEF ClientOK, NoUps, Complete, HasLast

\* A callback on c may go back to the loop: the thread is as the invariant has it,
\* and c and the others are cared for.
Back(u, v, c) ==
  /\ Whole(v) /\ Kept(u, v, c) /\ v.rqst[c] # 0
  /\ \A w : Cared(v, w, c)

\* teardown with an error of the session s, which works for c.
LEMMA TornDownErrorOK ==
  ASSUME NEW u, NEW B, NEW O, NEW c \in Clients, NEW s \in Sessions \ B,
         OK(u, B, O, {c}), u.busy = B \union {s}, u.clnt[s] = c,
         Owners(u) \subseteq O, u.inQ[s] # Null, s \in O \/ u.detached[s],
         u.rqst[c] # 0, u.nbqFree # {}
  PROVE  Back(u, TornDownError(u, s), c)
<1> DEFINE v == ErrorCb(u, c)
           x == TornDownError(u, s)
<1>1. /\ OK(v, B, O, {c}) /\ Served(u, v, c) /\ v.ups[c] = NoUps
      /\ c \in RangeOf(v.outputQ) /\ Complete(v, c)
  BY ONLY c \in Clients, OK(u, B, O, {c}), u.rqst[c] # 0, u.nbqFree # {}, ErrorCbOK
<1>2. x = Cleaned(v, s)
  BY DEF TornDownError
<1> HIDE DEF v, x
<1>3. v.inQ[s] # Null /\ (s \in O \/ v.detached[s])
  BY <1>1 DEF Served
<1>4. /\ OK(x, B, O \ {s}, {c}) /\ x.busy = v.busy \ {s}
      /\ x.nc = v.nc /\ x.rqst = v.rqst /\ x.ups = v.ups /\ x.outQ = v.outQ
      /\ x.armed = v.armed /\ x.sent = v.sent
      /\ \A r \in Sessions \ {s} : x.clnt[r] = v.clnt[r]
      /\ x.content = v.content /\ x.outputQ = v.outputQ
  BY ONLY c \in Clients, s \in Sessions \ B, <1>1, <1>2, <1>3, CleanedOK
<1>5. x.ups[c] = NoUps /\ Complete(x, c) /\ c \in RangeOf(x.outputQ)
  BY <1>1, <1>4 DEF Complete
<1>6. ClientOK(x, B, c)
  BY ONLY <1>5, CompleteOK
<1>7. x.busy = B /\ B \subseteq Sessions
  BY <1>1, <1>4 DEF Served, OK
<1>8. Apart(u, x, B, O \ {s}, c)
  BY <1>1, <1>4, <1>7 DEF Apart, Served, Kept
<1>9. Whole(x)
  BY ONLY <1>4, <1>6, <1>7, <1>8, c \in Clients, EndsAlone
<1>10. Kept(u, x, c) /\ x.rqst[c] # 0
  BY <1>1, <1>4 DEF Served, Kept
<1> QED
  BY <1>5, <1>9, <1>10 DEF x, Cared, Back

-----------------------------------------------------------------------------
(* Files.                                                                  *)

\* file_u::ups_read.
LEMMA FileReadOK ==
  ASSUME NEW u, NEW B, NEW O, NEW c \in Clients, OK(u, B, O, {c}),
         u.rqst[c] # 0, u.outQ[c] # Null, u.nc[c] = "connected",
         u.ups[c].kind = "file", u.ups[c].subr = "none", u.ups[c].left > 0
  PROVE  LET v == FileRead(u, c)
         IN  /\ OK(v, B, O, {c}) /\ Served(u, v, c) /\ v.outQ = u.outQ
             /\ c \in RangeOf(v.outputQ) /\ v.content[v.outQ[c]] # <<>>
             /\ v.ups[c].kind = "file" /\ v.ups[c].subr = "none"
             /\ \A D : ClientOK(v, D, c)
<1> DEFINE last == u.ups[c].left = 1
           i == Item(u.rqst[c], last)
           w == Put(u, u.outQ[c], i)
           x == [w EXCEPT !.ups[c].left = @ - 1,
                          !.ups[c].state = IF last THEN "done" ELSE "sending"]
           a == [w.ups[c] EXCEPT !.left = @ - 1,
                                 !.state = IF last THEN "done" ELSE "sending"]
           v == FileRead(u, c)
<1>0. i \in Items /\ i.rqst = u.rqst[c] /\ (last => i.last)
  <2>1. u.rqst[c] \in 0 .. MaxRequests /\ last \in BOOLEAN
    BY DEF OK, Thread
  <2> HIDE DEF last
  <2> QED
    BY <2>1, ItemOK
<1>1. v = QueueOutput(x, c)
  BY DEF FileRead
<1> HIDE DEF i, last, v
<1>2. /\ OK(w, B, O, {c}) /\ Served(u, w, c) /\ w.ups = u.ups
      /\ w.outQ = u.outQ /\ EndsIn(w, c, i)
  BY ONLY c \in Clients, OK(u, B, O, {c}), u.rqst[c] # 0, u.outQ[c] # Null, <1>0,
     PutOK
<1> HIDE DEF w
<1>3. /\ a \in Upstreams /\ a.kind = "file" /\ a.subr = "none"
      /\ last => a.state = "done"
      /\ ~last => a.state = "sending" /\ a.left > 0
  <2>1. u.ups[c] \in Upstreams
    BY DEF OK, Thread
  <2>2. w.ups[c] \in Upstreams /\ w.ups[c].left = u.ups[c].left /\ u.ups[c].left \in Nat
        /\ w.ups[c].kind = "file" /\ w.ups[c].subr = "none"
    BY <1>2, <2>1 DEF Upstreams
  <2>3. w.ups[c].left - 1 \in Nat /\ (~last => w.ups[c].left - 1 > 0)
    BY <2>2 DEF last
  <2>4. (IF last THEN "done" ELSE "sending") \in {"idle", "sending", "done"}
    OBVIOUS
  <2> QED
    BY <2>2, <2>3, <2>4 DEF Upstreams
<1>4. x = [w EXCEPT !.ups[c] = a]
  <2>1. w.ups[c] \in Upstreams /\ w.ups \in [Clients -> Upstreams]
    BY <1>2 DEF OK, Thread
  <2> QED
    BY <2>1 DEF Upstreams
<1> HIDE DEF a, x
<1>5. /\ OK(x, B, O, {c}) /\ Served(w, x, c) /\ x.ups[c] = a
      /\ x.outQ = w.outQ /\ x.content = w.content
  <2>1. OK(w, B, O, {c}) /\ a \in Upstreams
    BY <1>2, <1>3
  <2> QED
    BY ONLY c \in Clients, <1>4, <2>1, UpsSetOK
<1>6. /\ OK(v, B, O, {c}) /\ Served(x, v, c) /\ c \in RangeOf(v.outputQ)
      /\ v.ups = x.ups /\ v.outQ = x.outQ /\ v.content = x.content
  BY ONLY c \in Clients, <1>1, <1>5, QueueOutputOK
<1>7. Served(u, v, c)
  <2>1. Served(u, x, c)
    BY ONLY <1>2, <1>5, ServedTwice
  <2> QED
    BY ONLY <1>6, <2>1, ServedTwice
<1>8. /\ v.ups[c] = a /\ v.outQ[c] # Null /\ v.content[v.outQ[c]] # <<>>
      /\ last => HasLast(v.content[v.outQ[c]], v.sent[c])
      /\ v.nc[c] = "connected" /\ v.rqst[c] # 0
  BY <1>0, <1>2, <1>5, <1>6, <1>7 DEF HasLast, Served, EndsIn
<1>9. \A D : ClientOK(v, D, c)
  BY <1>3, <1>8 DEF ClientOK
<1> QED
  BY <1>2, <1>3, <1>5, <1>6, <1>7, <1>8, <1>9 DEF v

\* file_h::get_file.
LEMMA GetFileOK ==
  ASSUME NEW u, NEW B, NEW O, NEW c \in Clients, OK(u, B, O, {c}),
         u.rqst[c] # 0, u.nc[c] = "connected", u.nbqFree # {}, u.sent[c] = "none",
         NEW n \in Nat
  PROVE  LET v == GetFile(u, c, n)
         IN  /\ OK(v, B, O, {c}) /\ Served(u, v, c)
             /\ \A D : ClientOK(v, D, c)
             /\ \A w : Cared(v, w, c)
<1> DEFINE y == IF u.outQ[c] = Null THEN WithNbq(u, c) ELSE u
           w == [y EXCEPT !.ups[c] = FileUps(n)]
           v == GetFile(u, c, n)
<1>1. OK(y, B, O, {c}) /\ Served(u, y, c) /\ y.outQ[c] # Null
  <2>1. CASE u.outQ[c] = Null
    <3> DEFINE z == WithNbq(u, c)
    <3>1. OK(z, B, O, {c}) /\ Served(u, z, c) /\ z.outQ[c] # Null
      BY ONLY c \in Clients, OK(u, B, O, {c}), u.rqst[c] # 0, u.nbqFree # {}, WithNbqOK
    <3> QED
      BY <2>1, <3>1
  <2>2. CASE u.outQ[c] # Null
    BY <2>2 DEF Served, Kept
  <2> QED
    BY <2>1, <2>2
<1> HIDE DEF y
<1>2. /\ FileUps(n) \in Upstreams /\ FileUps(n).kind = "file" /\ FileUps(n).left = n
      /\ FileUps(n).subr = "none" /\ FileUps(n).state = "sending"
  BY DEF FileUps, NoUps, Upstreams
<1>3. /\ OK(w, B, O, {c}) /\ Served(y, w, c) /\ w.ups[c] = FileUps(n)
      /\ w.outQ = y.outQ
  <2> HIDE DEF w
  <2> QED
    BY ONLY c \in Clients, <1>1, <1>2, UpsSetOK, SMTT(30) DEF w
<1>4. Served(u, w, c)
  <2> HIDE DEF w
  <2> QED
    BY ONLY <1>1, <1>3, ServedTwice
<1>5. v = IF n = 0 THEN [Put(w, w.outQ[c], Item(u.rqst[c], TRUE))
                           EXCEPT !.ups[c].state = "done"]
          ELSE FileRead(w, c)
  BY DEF GetFile, y
<1> HIDE DEF w, v
<1>6. w.rqst[c] # 0 /\ w.outQ[c] # Null /\ w.nc[c] = "connected" /\ w.sent[c] = "none"
  BY <1>1, <1>3, <1>4 DEF Served
<1>7. CASE n = 0
  <2> DEFINE i == Item(u.rqst[c], TRUE)
             z == Put(w, w.outQ[c], i)
             a == [FileUps(n) EXCEPT !.state = "done"]
  <2>0. i \in Items /\ i.rqst = w.rqst[c] /\ i.last
    <3>1. u.rqst[c] \in 0 .. MaxRequests /\ w.rqst[c] = u.rqst[c]
      BY <1>4 DEF OK, Thread, Served
    <3> QED
      BY <3>1, ItemOK
  <2> HIDE DEF i
  <2>1. /\ OK(z, B, O, {c}) /\ Served(w, z, c) /\ z.ups = w.ups
        /\ z.outQ = w.outQ /\ EndsIn(z, c, i)
    BY ONLY c \in Clients, <1>3, <1>6, <2>0, PutOK, ZenonT(40)
  <2> HIDE DEF z
  <2>2. v = [z EXCEPT !.ups[c] = a]
    <3>1. v = [z EXCEPT !.ups[c].state = "done"]
      BY <1>5, <1>7 DEF z, i
    <3>2. z.ups[c] = FileUps(n)
      BY <1>3, <2>1
    <3> QED
      BY <3>1, <3>2
  <2>3. a \in Upstreams /\ a.kind = "file" /\ a.subr = "none" /\ a.left = 0
        /\ a.state = "done"
    BY <1>2, <1>7 DEF Upstreams
  <2> HIDE DEF a
  <2>4. /\ OK(v, B, O, {c}) /\ Served(z, v, c) /\ v.ups[c] = a
        /\ v.outQ = z.outQ /\ v.content = z.content
    <3>1. OK(z, B, O, {c}) /\ a \in Upstreams
      BY <2>1, <2>3
    <3> QED
      BY ONLY c \in Clients, <2>2, <3>1, UpsSetOK
  <2>5. Served(u, v, c)
    <3>1. Served(u, z, c)
      BY ONLY <1>4, <2>1, ServedTwice
    <3> QED
      BY ONLY <2>4, <3>1, ServedTwice
  <2>6. HasLast(v.content[v.outQ[c]], v.sent[c]) /\ v.outQ[c] # Null /\ v.sent[c] = "none"
        /\ v.rqst[c] # 0
    BY <1>6, <2>0, <2>1, <2>4 DEF HasLast, Served, EndsIn
  <2>7. \A D : ClientOK(v, D, c)
    BY <2>3, <2>4, <2>6 DEF ClientOK
  <2>8. \A r : Cared(v, r, c)
    BY <2>3, <2>4, <2>6 DEF Cared
  <2> QED
    BY <2>4, <2>5, <2>7, <2>8 DEF v
<1>8. CASE n # 0
  <2>1. v = FileRead(w, c) /\ w.ups[c].kind = "file" /\ w.ups[c].subr = "none"
        /\ w.ups[c].left > 0
    BY <1>2, <1>3, <1>5, <1>8
  <2>2. /\ OK(v, B, O, {c}) /\ Served(w, v, c) /\ c \in RangeOf(v.outputQ)
        /\ \A D : ClientOK(v, D, c)
    BY ONLY c \in Clients, <1>3, <1>6, <2>1, FileReadOK
  <2>3. Served(u, v, c)
    BY ONLY <1>4, <2>2, ServedTwice
  <2> QED
    BY <2>2, <2>3 DEF v, Cared
<1> QED
  BY <1>7, <1>8

-----------------------------------------------------------------------------
(* Upstream sessions at work.                                              *)

\* The session s works for c; both are left out.  It has its queue to itself, or
\* it has passed it on to its client.
Working(u, B, O, c, s) ==
  /\ OK(u, B, O, {c}) /\ s \in Sessions \ B /\ u.busy = B \union {s} /\ u.clnt[s] = c
  /\ Owners(u) \intersect B \subseteq O
  /\ u.inQ[s] # Null /\ u.rqst[c] # 0
  /\ u.ups[c].kind = "proxy" /\ u.ups[c].subr = "active" /\ u.ups[c].sess = s
  /\ \/ /\ u.ups[c].state = "idle" /\ s \in O
        /\ u.inQ[s] \notin u.brought => \A i \in DOMAIN u.content[u.inQ[s]] :
             u.content[u.inQ[s]][i].rqst = u.rqst[c]
     \/ /\ u.ups[c].state = "sending" /\ s \notin O
        /\ u.outQ[c] = u.inQ[s] /\ u.detached[s]

LEMMA IsWorking ==
  ASSUME NEW u, NEW s \in u.busy, Whole(u)
  PROVE  /\ u.clnt[s] \in Clients
         /\ Working(u, u.busy \ {s}, Owners(u), u.clnt[s], s)
<1> DEFINE c == u.clnt[s]
           B == u.busy \ {s}
<1>1. /\ s \in Sessions /\ SessionOK(u, s) /\ c \in Clients
      /\ ClientOK(u, u.busy, c) /\ Workers(u, c) = {s}
  BY ONLY s \in u.busy, Whole(u), OneWorker
<1>2. OK(u, B, Owners(u), {c})
  <2>1. OK(u, u.busy \ Workers(u, c), Owners(u), {c})
    BY ONLY <1>1, Whole(u), LeftOut
  <2> QED
    BY <1>1, <2>1
<1>3. u.ups[c].state \in {"idle", "sending"} /\ u.ups[c].kind = "proxy"
  <2>1. u.ups[c] \in Upstreams
    BY <1>1 DEF Whole, OK, Thread
  <2>2. u.ups[c].state \in {"idle", "sending", "done"}
    BY <2>1 DEF Upstreams
  <2> QED
    BY <1>1, <2>2 DEF ClientOK, SessionOK
<1>4. CASE u.ups[c].state = "idle"
  <2>1. s \in Owners(u)
    BY <1>4 DEF Owners
  <2>2. u.inQ[s] \notin u.brought => u.content[u.inQ[s]] = <<>>
    BY <2>1 DEF Whole, OK, Filled
  <2>3. u.inQ[s] \notin u.brought => \A i \in DOMAIN u.content[u.inQ[s]] :
          u.content[u.inQ[s]][i].rqst = u.rqst[c]
    BY <2>2
  <2> QED
    BY <1>1, <1>2, <1>3, <1>4, <2>1, <2>3 DEF Working, SessionOK
<1>5. CASE u.ups[c].state = "sending"
  <2>1. s \notin Owners(u)
    BY <1>5 DEF Owners
  <2> QED
    BY <1>1, <1>2, <1>3, <1>5, <2>1 DEF Working, SessionOK
<1> QED
  BY <1>1, <1>3, <1>4, <1>5

\* A session writes into the queue that it has to itself.
LEMMA AtSession ==
  ASSUME NEW u, NEW B, NEW O, NEW c \in Clients, OK(u, B, O, {c}),
         NEW s \in O \ B, NEW S \in Seq(Items)
  PROVE  LET v == [u EXCEPT !.content[u.inQ[s]] = S]
         IN  OK(v, B, O, {c}) /\ Served(u, v, c)
<1> DEFINE q == u.inQ[s]
           v == [u EXCEPT !.content[q] = S]
<1>1. u \in Thread /\ O \in SUBSET Sessions
  BY DEF OK
<1>2. Single(u.nbqFree, u.orphan, u.outQ, O, u.inQ, u.brought)
  BY DEF OK
<1>3. q \in Nbqs
  BY <1>1, <1>2 DEF Thread, Single
<1>4. /\ v.content = [u.content EXCEPT ![q] = S]
      /\ v.nc = u.nc /\ v.rqst = u.rqst /\ v.ups = u.ups /\ v.sent = u.sent
      /\ v.outQ = u.outQ /\ v.clnt = u.clnt /\ v.inQ = u.inQ /\ v.armed = u.armed
      /\ v.detached = u.detached /\ v.brought = u.brought /\ v.busy = u.busy
      /\ v.nbqFree = u.nbqFree /\ v.orphan = u.orphan /\ v.outputQ = u.outputQ
  BY <1>1 DEF Thread
<1>5. v \in Thread
  <2>1. [u.content EXCEPT ![q] = S] \in [Nbqs -> Seq(Items)]
    BY <1>1, <1>3 DEF Thread
  <2> QED
    BY <1>1, <2>1 DEF Thread
<1> HIDE DEF v
<1>6. \A p \in Nbqs : p # q => v.content[p] = u.content[p]
  BY <1>1, <1>4 DEF Thread
<1>7. \A d \in Clients : u.outQ[d] \notin u.brought \union {Null} =>
        v.content[u.outQ[d]] = u.content[u.outQ[d]]
  <2>1. \A d \in Clients : u.outQ[d] \in Nbqs \union {Null}
    BY <1>1 DEF Thread
  <2> QED
    BY <1>2, <1>6, <2>1 DEF Single
<1>8. Filled(v.content, v.orphan, v.outQ, v.rqst, O \intersect B, v.inQ, v.brought)
  <2>1. Filled(u.content, u.orphan, u.outQ, u.rqst, O \intersect B, u.inQ, u.brought)
    BY DEF OK
  <2>2. u.orphan \notin u.brought => v.content[u.orphan] = <<>>
    <3>1. u.orphan \in Nbqs
      BY <1>1 DEF Thread
    <3> QED
      BY <1>2, <1>6, <2>1, <3>1 DEF Single, Filled
  <2>3. ASSUME NEW r \in O \intersect B, u.inQ[r] \notin u.brought
        PROVE  v.content[u.inQ[r]] = <<>>
    <3>1. u.inQ[r] \in Nbqs /\ u.inQ[r] # q
      BY <1>1, <1>2, <2>3 DEF Thread, Single
    <3> QED
      BY <1>6, <2>1, <2>3, <3>1 DEF Filled
  <2>4. ASSUME NEW d \in Clients, u.outQ[d] \notin u.brought \union {Null}
        PROVE  /\ \A i \in DOMAIN v.content[u.outQ[d]] :
                    v.content[u.outQ[d]][i].rqst = u.rqst[d]
               /\ u.rqst[d] = 0 => v.content[u.outQ[d]] = <<>>
    BY <1>7, <2>1, <2>4 DEF Filled
  <2> QED
    BY <1>4, <2>2, <2>3, <2>4 DEF Filled
<1>9. OK(v, B, O, {c})
  <2>1. \A d \in Clients \ {c} :
          /\ v.nc[d] = u.nc[d] /\ v.rqst[d] = u.rqst[d] /\ v.ups[d] = u.ups[d]
          /\ v.outQ[d] = u.outQ[d] /\ v.sent[d] = u.sent[d]
    BY <1>4
  <2>2. \A r \in B : /\ v.clnt[r] = u.clnt[r] /\ v.inQ[r] = u.inQ[r]
                     /\ v.detached[r] = u.detached[r]
    BY <1>4
  <2>3. \A d \in Clients \ {c} : u.outQ[d] \notin v.brought \union {Null} =>
          v.content[u.outQ[d]] = u.content[u.outQ[d]]
    BY <1>4, <1>7
  <2>4. u.brought \subseteq v.brought
    BY <1>4
  <2>5. v.nc[c] = "free" => v.rqst[c] = 0 /\ v.outQ[c] = Null
    BY <1>4 DEF OK
  <2>6. Single(v.nbqFree, v.orphan, v.outQ, O, v.inQ, v.brought)
    BY <1>2, <1>4
  <2>7. O \in SUBSET Sessions
    BY <1>1
  <2>8. Around(u, v, B, c)
    BY <2>1, <2>2, <2>3, <2>4, <2>5 DEF Around
  <2> QED
    BY ONLY c \in Clients, OK(u, B, O, {c}), <1>5, <1>8, <2>6, <2>7, <2>8, Elsewhere
<1>10. Served(u, v, c)
  BY <1>4 DEF Served, Kept
<1> QED
  BY <1>9, <1>10 DEF v

\* The last item of the queue that s reads into.
ReadEnds(u, s, x) ==
  LET S == u.content[u.inQ[s]] IN S # <<>> /\ S[Len(S)] = x

\* nc_read into the queue of the session.
LEMMA ReadOK ==
  ASSUME NEW u, NEW B, NEW O, NEW c \in Clients, NEW s, Working(u, B, O, c, s),
         NEW last \in BOOLEAN
  PROVE  LET v == Read(u, s, last)
         IN  /\ Working(v, B, O, c, s) /\ Served(u, v, c)
             /\ ReadEnds(v, s, Item(u.rqst[c], last)) /\ v.ups = u.ups
<1> DEFINE q == u.inQ[s]
           x == Item(u.rqst[c], last)
           S == Append(u.content[q], x)
           v == Read(u, s, last)
<1>1. u \in Thread /\ s \in Sessions
  BY DEF Working, OK
<1>2. q \in Nbqs /\ u.content[q] \in Seq(Items)
  BY <1>1 DEF Thread, Working
<1>3. x \in Items /\ x.rqst = u.rqst[c]
  <2>1. u.rqst[c] \in 0 .. MaxRequests
    BY <1>1 DEF Thread
  <2> QED
    BY <2>1, ItemOK
<1>4. v = [u EXCEPT !.content[q] = S]
  BY DEF Read, Put, Working
<1>5. /\ S \in Seq(Items) /\ S # <<>> /\ S[Len(S)] = x
      /\ \A i \in DOMAIN S :
           S[i] = x \/ (i \in DOMAIN u.content[q] /\ S[i] = u.content[q][i])
  <2> HIDE DEF q, x
  <2> QED
    BY ONLY <1>2, <1>3, AppendItem DEF S
<1> HIDE DEF S, x, v
<1>6. /\ v.content = [u.content EXCEPT ![q] = S]
      /\ v.ups = u.ups /\ v.outQ = u.outQ /\ v.inQ = u.inQ
  BY <1>1, <1>4 DEF Thread
<1>7. v.content[v.inQ[s]] = S
  BY <1>1, <1>2, <1>6 DEF Thread
<1>8. OK(v, B, O, {c}) /\ Served(u, v, c)
  <2>1. CASE s \in O
    <3>1. OK(u, B, O, {c}) /\ s \in O \ B
      BY <2>1 DEF Working
    <3> QED
      BY ONLY c \in Clients, <1>4, <1>5, <3>1, AtSession
  <2>2. CASE u.outQ[c] = q
    <3>1. OK(u, B, O, {c}) /\ u.outQ[c] # Null /\ u.rqst[c] # 0
      BY <2>2 DEF Working
    <3>2. v = Put(u, u.outQ[c], x)
      BY <1>4, <2>2 DEF Put, S
    <3> QED
      BY ONLY c \in Clients, <1>3, <3>1, <3>2, PutOK
  <2> QED
    BY <2>1, <2>2 DEF Working
<1>9. CASE u.ups[c].state = "idle"
  <2>1. v.inQ[s] \notin v.brought => \A i \in DOMAIN v.content[v.inQ[s]] :
          v.content[v.inQ[s]][i].rqst = v.rqst[c]
    <3>1. u.inQ[s] \notin u.brought => \A i \in DOMAIN u.content[q] :
            u.content[q][i].rqst = u.rqst[c]
      BY <1>9 DEF Working
    <3> QED
      BY <1>3, <1>5, <1>6, <1>7, <1>8, <3>1 DEF Served
  <2>2. Owners(v) = Owners(u)
    BY <1>6, <1>8 DEF Owners, Served
  <2>3. Working(v, B, O, c, s)
    BY <1>6, <1>8, <1>9, <2>1, <2>2 DEF Working, Served
  <2> QED
    BY <1>5, <1>6, <1>7, <1>8, <2>3 DEF v, x, ReadEnds
<1>10. CASE u.ups[c].state = "sending"
  <2>1. Owners(v) = Owners(u)
    BY <1>6, <1>8 DEF Owners, Served
  <2>2. Working(v, B, O, c, s)
    BY <1>6, <1>8, <1>10, <2>1 DEF Working, Served
  <2> QED
    BY <1>5, <1>6, <1>7, <1>8, <2>2 DEF v, x, ReadEnds
<1> QED
  BY <1>9, <1>10 DEF Working

\* What a session does not change when it works for c.
Relayed(u, v, c) ==
  /\ Kept(u, v, c) /\ v.rqst = u.rqst /\ v.sent = u.sent /\ v.nc = u.nc
  /\ v.busy = u.busy /\ v.clnt = u.clnt /\ v.inQ = u.inQ /\ v.brought = u.brought
  /\ v.content = u.content

\* The queue of the session becomes that of the client.
LEMMA PassedOK ==
  ASSUME NEW u, NEW B, NEW O, NEW c \in Clients, NEW s, Working(u, B, O, c, s),
         u.ups[c].state = "idle"
  PROVE  LET v == [Released(u, u.outQ[c]) EXCEPT !.outQ[c] = u.inQ[s],
                                                 !.detached[s] = TRUE]
         IN  /\ OK(v, B, O \ {s}, {c}) /\ Relayed(u, v, c) /\ v.ups = u.ups
             /\ v.outQ[c] = v.inQ[s] /\ v.detached[s]
<1> DEFINE q == u.inQ[s]
           y == Released(u, u.outQ[c])
           v == [y EXCEPT !.outQ[c] = q, !.detached[s] = TRUE]
           F == IF u.outQ[c] = Null THEN u.nbqFree ELSE u.nbqFree \union {u.outQ[c]}
<1>1. /\ u \in Thread /\ O \in SUBSET Sessions /\ s \in Sessions \ B /\ s \in O
      /\ OK(u, B, O, {c})
  BY DEF Working, OK
<1>2. u.outQ[c] \in Nbqs \union {Null} /\ q \in Nbqs
  BY <1>1 DEF Thread, Working
<1>3. /\ y \in Thread /\ y.nbqFree = F
      /\ y.nc = u.nc /\ y.rqst = u.rqst /\ y.keep = u.keep /\ y.ups = u.ups
      /\ y.outQ = u.outQ /\ y.armed = u.armed /\ y.sent = u.sent
      /\ y.busy = u.busy /\ y.clnt = u.clnt /\ y.inQ = u.inQ
      /\ y.detached = u.detached /\ y.content = u.content /\ y.orphan = u.orphan
      /\ y.outputQ = u.outputQ /\ y.brought = u.brought
  BY ONLY <1>1, <1>2, ReleasedFields
<1> HIDE DEF y, F
<1>4. /\ v.outQ = [u.outQ EXCEPT ![c] = q] /\ v.detached = [u.detached EXCEPT ![s] = TRUE]
      /\ v.nbqFree = F
      /\ v.nc = u.nc /\ v.rqst = u.rqst /\ v.ups = u.ups
      /\ v.armed = u.armed /\ v.sent = u.sent
      /\ v.busy = u.busy /\ v.clnt = u.clnt /\ v.inQ = u.inQ
      /\ v.content = u.content /\ v.orphan = u.orphan
      /\ v.outputQ = u.outputQ /\ v.brought = u.brought
  BY <1>3 DEF Thread
<1>5. v \in Thread
  <2>1. /\ [y.outQ EXCEPT ![c] = q] \in [Clients -> Nbqs \union {Null}]
        /\ [y.detached EXCEPT ![s] = TRUE] \in [Sessions -> BOOLEAN]
    BY <1>2, <1>3 DEF Thread
  <2> QED
    BY <1>3, <2>1 DEF Thread
<1> HIDE DEF v
<1>6. /\ v.outQ[c] = q /\ v.detached[s]
      /\ \A d \in Clients \ {c} : v.outQ[d] = u.outQ[d]
      /\ \A r \in Sessions \ {s} : v.detached[r] = u.detached[r]
  BY <1>1, <1>4 DEF Thread
<1>7. Single(u.nbqFree, u.orphan, u.outQ, O, u.inQ, u.brought)
  BY <1>1 DEF OK
<1>8. Single(v.nbqFree, v.orphan, v.outQ, O \ {s}, v.inQ, v.brought)
  <2> DEFINE o == [u.outQ EXCEPT ![c] = Null]
  <2>1. /\ u.outQ \in [Clients -> Nbqs \union {Null}]
        /\ u.inQ \in [Sessions -> Nbqs \union {Null}]
        /\ Null \notin u.nbqFree /\ u.orphan # Null
    BY <1>1 DEF Thread, Nbqs, Null
  <2>2. o \in [Clients -> Nbqs \union {Null}] /\ [o EXCEPT ![c] = q] = v.outQ
    BY <1>4, <2>1
  <2>3. Single(F, u.orphan, o, O, u.inQ, u.brought)
    BY ONLY <1>7, <2>1, c \in Clients, SingleGivenBack DEF F
  <2> HIDE DEF o
  <2>4. Single(F, u.orphan, [o EXCEPT ![c] = u.inQ[s]], O \ {s}, u.inQ, u.brought)
    BY ONLY <1>1, <2>1, <2>2, <2>3, c \in Clients, SinglePassed
  <2> QED
    BY <1>4, <2>2, <2>4
<1>9. Filled(v.content, v.orphan, v.outQ, v.rqst, (O \ {s}) \intersect B, v.inQ,
             v.brought)
  <2>1. Filled(u.content, u.orphan, u.outQ, u.rqst, O \intersect B, u.inQ, u.brought)
    BY <1>1 DEF OK
  <2>2. /\ v.orphan \notin v.brought => v.content[v.orphan] = <<>>
        /\ \A r \in (O \ {s}) \intersect B : v.inQ[r] \notin v.brought =>
             v.content[v.inQ[r]] = <<>>
    BY <1>4, <2>1 DEF Filled
  <2>3. ASSUME NEW d \in Clients, v.outQ[d] \notin v.brought \union {Null}
        PROVE  /\ \A i \in DOMAIN v.content[v.outQ[d]] :
                    v.content[v.outQ[d]][i].rqst = v.rqst[d]
               /\ v.rqst[d] = 0 => v.content[v.outQ[d]] = <<>>
    <3>1. CASE d = c
      BY <1>4, <1>6, <2>3, <3>1 DEF Working
    <3>2. CASE d # c
      <4>1. v.outQ[d] = u.outQ[d] /\ v.content = u.content /\ v.rqst = u.rqst
            /\ v.brought = u.brought
        BY <1>4, <1>6, <3>2
      <4> QED
        BY <2>1, <2>3, <4>1 DEF Filled
    <3> QED
      BY <3>1, <3>2
  <2> QED
    BY <2>2, <2>3 DEF Filled
<1>10. OK(v, B, O \ {s}, {c})
  <2>1. \A d \in Clients \ {c} :
          /\ v.nc[d] = u.nc[d] /\ v.rqst[d] = u.rqst[d] /\ v.ups[d] = u.ups[d]
          /\ v.outQ[d] = u.outQ[d] /\ v.sent[d] = u.sent[d]
    BY <1>4, <1>6
  <2>2. \A r \in B : /\ v.clnt[r] = u.clnt[r] /\ v.inQ[r] = u.inQ[r]
                     /\ v.detached[r] = u.detached[r]
    <3>1. B \subseteq Sessions \ {s}
      BY <1>1 DEF OK
    <3> QED
      BY <1>4, <1>6, <3>1
  <2>3. \A d \in Clients \ {c} : u.outQ[d] \notin v.brought \union {Null} =>
          v.content[u.outQ[d]] = u.content[u.outQ[d]]
    BY <1>4
  <2>4. u.brought \subseteq v.brought /\ O \ {s} \in SUBSET Sessions
    BY <1>1, <1>4
  <2>5. v.nc[c] = "free" => v.rqst[c] = 0 /\ v.outQ[c] = Null
    <3>1. u.nc[c] # "free"
      BY <1>1 DEF Working, OK
    <3> QED
      BY <1>4, <3>1
  <2>6. Around(u, v, B, c)
    BY <2>1, <2>2, <2>3, <2>4, <2>5 DEF Around
  <2> QED
    BY ONLY c \in Clients, <1>1, <1>5, <1>8, <1>9, <2>4, <2>6, Elsewhere
<1>11. Relayed(u, v, c)
  <2>1. u.outputQ = v.outputQ /\ \A d \in Clients \ {c} : v.outQ[d] = u.outQ[d]
    BY <1>4, <1>6
  <2> QED
    BY <1>4, <2>1 DEF Relayed, Kept
<1> QED
  BY <1>4, <1>6, <1>10, <1>11 DEF v, y

\* Only the state of the upstream object of c is another one.
StateIs(u, v, c, complete) ==
  v.ups[c] = [u.ups[c] EXCEPT !.state = IF complete THEN "done" ELSE "sending"]

\* proxy_u::ups_read.
LEMMA UpsReadOK ==
  ASSUME NEW u, NEW B, NEW O, NEW c \in Clients, NEW s, Working(u, B, O, c, s),
         NEW complete \in BOOLEAN
  PROVE  LET v == UpsRead(u, s, complete)
         IN  /\ OK(v, B, O \ {s}, {c}) /\ Relayed(u, v, c)
             /\ v.outQ[c] = v.inQ[s] /\ v.detached[s] /\ c \in RangeOf(v.outputQ)
             /\ StateIs(u, v, c, complete)
<1> DEFINE P == O \ {s}
           z == [Released(u, u.outQ[c]) EXCEPT !.outQ[c] = u.inQ[s],
                                               !.detached[s] = TRUE]
           y == IF u.ups[c].state = "idle" THEN z ELSE u
           f == IF complete THEN "done" ELSE "sending"
           a == [u.ups[c] EXCEPT !.state = f]
           x == [y EXCEPT !.ups[c] = [@ EXCEPT !.state = f]]
           v == UpsRead(u, s, complete)
<1>1. /\ OK(y, B, P, {c}) /\ Relayed(u, y, c) /\ y.ups = u.ups
      /\ y.outQ[c] = y.inQ[s] /\ y.detached[s]
  <2>1. CASE u.ups[c].state = "idle"
    <3>1. /\ OK(z, B, P, {c}) /\ Relayed(u, z, c) /\ z.ups = u.ups
          /\ z.outQ[c] = z.inQ[s] /\ z.detached[s]
      BY ONLY c \in Clients, <2>1, Working(u, B, O, c, s), PassedOK
    <3> QED
      BY <2>1, <3>1
  <2>2. CASE u.ups[c].state = "sending"
    <3>1. P = O /\ y = u
      BY <2>2 DEF Working
    <3>2. OK(u, B, O, {c}) /\ Relayed(u, u, c) /\ u.outQ[c] = u.inQ[s] /\ u.detached[s]
      BY <2>2 DEF Working, Relayed, Kept
    <3> HIDE DEF P, y
    <3> QED
      BY <3>1, <3>2
  <2> QED
    BY <2>1, <2>2 DEF Working
<1>2. v = QueueOutput(x, c)
  BY DEF UpsRead, Working
<1> HIDE DEF y, P, v, z
<1>3. a \in Upstreams /\ x = [y EXCEPT !.ups[c] = a]
  <2>1. u.ups[c] \in Upstreams
    BY DEF Working, OK, Thread
  <2>2. f \in {"idle", "sending", "done"}
    OBVIOUS
  <2>3. a \in Upstreams
    <3> HIDE DEF f
    <3> QED
      BY <2>1, <2>2 DEF Upstreams
  <2> QED
    BY <1>1, <2>3
<1> HIDE DEF a, x
<1>4. /\ OK(x, B, P, {c}) /\ Served(y, x, c) /\ x.ups[c] = a
      /\ x.outQ = y.outQ /\ x.content = y.content
  <2>1. OK(y, B, P, {c}) /\ a \in Upstreams /\ x = [y EXCEPT !.ups[c] = a]
    BY <1>1, <1>3
  <2> QED
    BY ONLY c \in Clients, <2>1, UpsSetOK
<1>5. /\ OK(v, B, P, {c}) /\ Served(x, v, c) /\ c \in RangeOf(v.outputQ)
      /\ v.ups = x.ups /\ v.outQ = x.outQ /\ v.content = x.content
  BY ONLY c \in Clients, <1>2, <1>4, QueueOutputOK
<1>6. Relayed(u, v, c)
  <2>1. Served(y, v, c) /\ v.content = y.content
    BY <1>4, <1>5, ServedTwice
  <2> QED
    BY <1>1, <2>1 DEF Relayed, Served, Kept
<1> QED
  BY <1>1, <1>4, <1>5, <1>6 DEF v, P, a, Served, StateIs

\* A client whose upstream was shut down needs nobody but the output queue.
LEMMA ShutDownOK ==
  ASSUME NEW v, NEW B, NEW c, v.rqst[c] # 0, v.ups[c].kind = "proxy",
         v.ups[c].state = "done", v.ups[c].shutdown, v.ups[c].subr = "over"
  PROVE  ClientOK(v, B, c)
BY DEF ClientOK

\* ups_srvr_session::teardown after the response of c.
LEMMA TornDownOkKeeps ==
  ASSUME NEW u, NEW v, NEW B, NEW O, NEW c \in Clients, NEW s \in Sessions \ B,
         OK(v, B, O, {c}), v.busy = B \union {s}, v.clnt[s] = c, v.inQ[s] # Null,
         s \in O \/ v.detached[s], v.rqst[c] # 0, v.ups[c].kind = "proxy",
         Kept(u, v, c), v.clnt = u.clnt, B \subseteq u.busy,
         Owners(u) \intersect B \subseteq O,
         c \in RangeOf(v.outputQ) \/ v.ups[c].cut
  PROVE  Back(u, TornDownOk(v, s), c)
<1> DEFINE a == [v.ups[c] EXCEPT !.state = "done", !.shutdown = TRUE,
                                 !.subr = "over", !.sess = NoSession]
           x == [v EXCEPT !.ups[c] = a]
           y == TornDownOk(v, s)
<1>1. y = Cleaned(x, s)
  BY DEF TornDownOk
<1>2. /\ a \in Upstreams /\ a.kind = "proxy" /\ a.state = "done" /\ a.shutdown
      /\ a.subr = "over" /\ a.cut = v.ups[c].cut
  <2>1. v.ups[c] \in Upstreams
    BY DEF OK, Thread
  <2> QED
    BY <2>1 DEF Upstreams
<1> HIDE DEF a, x, y
<1>3. /\ OK(x, B, O, {c}) /\ Served(v, x, c) /\ x.ups[c] = a
      /\ x.outputQ = v.outputQ
  <2>1. a \in Upstreams
    BY <1>2
  <2> QED
    BY ONLY c \in Clients, OK(v, B, O, {c}), <2>1, UpsSetOK DEF x
<1>4. x.inQ[s] # Null /\ (s \in O \/ x.detached[s])
  BY <1>3 DEF Served
<1>5. /\ OK(y, B, O \ {s}, {c}) /\ y.busy = x.busy \ {s}
      /\ y.nc = x.nc /\ y.rqst = x.rqst /\ y.ups = x.ups /\ y.outQ = x.outQ
      /\ y.armed = x.armed /\ y.sent = x.sent
      /\ \A r \in Sessions \ {s} : y.clnt[r] = x.clnt[r]
      /\ y.content = x.content /\ y.outputQ = x.outputQ
  BY ONLY c \in Clients, s \in Sessions \ B, <1>1, <1>3, <1>4, CleanedOK
<1>6. /\ y.ups[c] = a /\ y.rqst[c] # 0 /\ Kept(u, y, c)
      /\ c \in RangeOf(y.outputQ) \/ y.ups[c].cut
  BY <1>2, <1>3, <1>5 DEF Served, Kept
<1>7. ClientOK(y, B, c)
  BY <1>2, <1>6, ShutDownOK
<1>8. y.busy = B /\ B \subseteq Sessions \ {s}
  BY <1>3, <1>5 DEF Served, OK
<1>9. Apart(u, y, B, O \ {s}, c)
  BY <1>3, <1>5, <1>6, <1>8 DEF Apart, Served, Kept
<1>10. Whole(y)
  BY ONLY <1>5, <1>7, <1>8, <1>9, c \in Clients, EndsAlone
<1> QED
  BY <1>6, <1>10 DEF y, Cared, Back

\* The session goes back to its pool, and its connection is kept.
LEMMA ParkedOK ==
  ASSUME NEW u, NEW v, NEW B, NEW P, NEW c \in Clients, NEW s \in Sessions \ B,
         OK(v, B, P, {c}), v.busy = B \union {s}, v.clnt[s] = c,
         v.rqst[c] # 0, v.ups[c].kind = "proxy", v.ups[c].state = "done",
         Complete(v, c), c \in RangeOf(v.outputQ),
         Kept(u, v, c), v.clnt = u.clnt, B \subseteq u.busy,
         Owners(u) \intersect B \subseteq P
  PROVE  Back(u, Parked(v, s), c)
<1> DEFINE a == [v.ups[c] EXCEPT !.subr = "over", !.sess = NoSession]
           x == [v EXCEPT !.ups[c] = a]
           y == Parked(v, s)
<1>1. /\ a \in Upstreams /\ a.kind = "proxy" /\ a.state = "done" /\ a.subr = "over"
  <2>1. v.ups[c] \in Upstreams
    BY DEF OK, Thread
  <2> QED
    BY <2>1 DEF Upstreams
<1>2. v \in Thread
  BY DEF OK
<1>3. y = [v EXCEPT !.busy = @ \ {s}, !.clnt[s] = NoClient, !.ups[c] = a]
  BY DEF Parked
<1> HIDE DEF a
<1>4. /\ x.ups = [v.ups EXCEPT ![c] = a] /\ x.busy = v.busy /\ x.clnt = v.clnt
      /\ x.nc = v.nc /\ x.rqst = v.rqst /\ x.outQ = v.outQ /\ x.armed = v.armed
      /\ x.sent = v.sent /\ x.inQ = v.inQ /\ x.detached = v.detached
      /\ x.content = v.content /\ x.nbqFree = v.nbqFree /\ x.orphan = v.orphan
      /\ x.outputQ = v.outputQ /\ x.brought = v.brought
  BY <1>2 DEF Thread
<1>5. /\ y.ups = [v.ups EXCEPT ![c] = a] /\ y.busy = v.busy \ {s}
      /\ y.clnt = [v.clnt EXCEPT ![s] = NoClient]
      /\ y.nc = v.nc /\ y.rqst = v.rqst /\ y.outQ = v.outQ /\ y.armed = v.armed
      /\ y.sent = v.sent /\ y.inQ = v.inQ /\ y.detached = v.detached
      /\ y.content = v.content /\ y.nbqFree = v.nbqFree /\ y.orphan = v.orphan
      /\ y.outputQ = v.outputQ /\ y.brought = v.brought
  BY <1>2, <1>3 DEF Thread
<1>6. y \in Thread
  <2>1. /\ [v.ups EXCEPT ![c] = a] \in [Clients -> Upstreams]
        /\ [v.clnt EXCEPT ![s] = NoClient] \in [Sessions -> Clients \union {NoClient}]
    BY <1>1, <1>2 DEF Thread
  <2>2. v.busy \ {s} \in SUBSET Sessions
    BY <1>2 DEF Thread
  <2> DEFINE U == [v.ups EXCEPT ![c] = a]
             K == [v.clnt EXCEPT ![s] = NoClient]
             A == v.busy \ {s}
  <2>3. y = [v EXCEPT !.busy = A, !.clnt = K, !.ups = U]
    BY <1>3
  <2> HIDE DEF U, K, A, y
  <2>4. /\ U \in [Clients -> Upstreams] /\ A \in SUBSET Sessions
        /\ K \in [Sessions -> Clients \union {NoClient}]
    BY <2>1, <2>2 DEF U, K, A
  <2> QED
    BY <1>2, <2>3, <2>4 DEF Thread
<1> HIDE DEF x, y
<1>7. /\ y.ups[c] = a /\ \A d \in Clients \ {c} : y.ups[d] = v.ups[d]
      /\ \A r \in Sessions \ {s} : y.clnt[r] = v.clnt[r]
  BY <1>2, <1>5 DEF Thread
<1>8. B \subseteq Sessions \ {s} /\ P \in SUBSET Sessions /\ y.busy = B
  BY <1>5 DEF OK
<1>9. OK(y, B, P, {c})
  <2>1. \A d \in Clients \ {c} :
          /\ y.nc[d] = v.nc[d] /\ y.rqst[d] = v.rqst[d] /\ y.ups[d] = v.ups[d]
          /\ y.outQ[d] = v.outQ[d] /\ y.sent[d] = v.sent[d]
    BY <1>5, <1>7
  <2>2. \A r \in B : /\ y.clnt[r] = v.clnt[r] /\ y.inQ[r] = v.inQ[r]
                     /\ y.detached[r] = v.detached[r]
    BY <1>5, <1>7, <1>8
  <2>3. \A d \in Clients \ {c} : v.outQ[d] \notin y.brought \union {Null} =>
          y.content[v.outQ[d]] = v.content[v.outQ[d]]
    BY <1>5
  <2>4. v.brought \subseteq y.brought /\ P \in SUBSET Sessions
    BY <1>5, <1>8
  <2>5. y.nc[c] = "free" => y.rqst[c] = 0 /\ y.outQ[c] = Null
    BY <1>5 DEF OK
  <2>6. /\ Single(y.nbqFree, y.orphan, y.outQ, P, y.inQ, y.brought)
        /\ Filled(y.content, y.orphan, y.outQ, y.rqst, P \intersect B, y.inQ, y.brought)
    BY <1>5 DEF OK
  <2>7. Around(v, y, B, c)
    BY <2>1, <2>2, <2>3, <2>4, <2>5 DEF Around
  <2> QED
    BY ONLY c \in Clients, OK(v, B, P, {c}), <1>6, <2>4, <2>6, <2>7, Elsewhere
<1>10. ClientOK(y, B, c)
  <2>1. y.outQ[c] # Null /\ HasLast(y.content[y.outQ[c]], y.sent[c])
    BY <1>5 DEF Complete, HasLast
  <2>2. y.ups[c].kind = "proxy" /\ y.ups[c].state = "done" /\ y.ups[c].subr = "over"
        /\ y.rqst[c] # 0
    BY <1>1, <1>5, <1>7
  <2> QED
    BY <2>1, <2>2 DEF ClientOK
<1>11. Kept(u, y, c)
  BY <1>5, <1>7 DEF Kept
<1>12. Apart(u, y, B, P, c)
  BY <1>7, <1>8, <1>11 DEF Apart, Kept
<1>13. Whole(y)
  BY ONLY <1>8, <1>9, <1>10, <1>12, c \in Clients, EndsAlone
<1> QED
  BY <1>5, <1>11, <1>13 DEF y, Cared, Back

\* READ in the middle of a response.
LEMMA DataReadOK ==
  ASSUME NEW u, NEW s \in u.busy, Whole(u)
  PROVE  Back(u, DataRead(u, s), u.clnt[s])
<1> DEFINE c == u.clnt[s]
           B == u.busy \ {s}
           O == Owners(u)
           x == Read(u, s, FALSE)
           v == DataRead(u, s)
<1>1. c \in Clients /\ Working(u, B, O, c, s)
  BY ONLY s \in u.busy, Whole(u), IsWorking
<1>2. v = UpsRead(x, s, FALSE)
  BY DEF DataRead
<1> HIDE DEF c, B, O, x, v
<1>3. Working(x, B, O, c, s) /\ Served(u, x, c)
  <2>1. FALSE \in BOOLEAN
    OBVIOUS
  <2> QED
    BY ONLY <1>1, <2>1, ReadOK DEF x
<1>4. /\ OK(v, B, O \ {s}, {c}) /\ Relayed(x, v, c)
      /\ v.outQ[c] = v.inQ[s] /\ v.detached[s] /\ c \in RangeOf(v.outputQ)
      /\ v.ups[c] = [x.ups[c] EXCEPT !.state = "sending"]
  <2>1. FALSE \in BOOLEAN
    OBVIOUS
  <2> DEFINE w == UpsRead(x, s, FALSE)
  <2>2. /\ OK(w, B, O \ {s}, {c}) /\ Relayed(x, w, c)
        /\ w.outQ[c] = w.inQ[s] /\ w.detached[s] /\ c \in RangeOf(w.outputQ)
        /\ StateIs(x, w, c, FALSE)
    BY ONLY <1>1, <1>3, <2>1, UpsReadOK
  <2> QED
    BY <1>2, <2>2 DEF StateIs
<1>5. /\ v.ups[c].kind = "proxy" /\ v.ups[c].state = "sending"
      /\ v.ups[c].subr = "active" /\ v.ups[c].sess = s
  <2>1. x.ups[c] \in Upstreams
    <3>1. x \in Thread /\ c \in Clients
      BY <1>1, <1>3 DEF Working, OK
    <3> QED
      BY <3>1 DEF Thread
  <2> QED
    BY <1>3, <1>4, <2>1 DEF Working, Upstreams
<1>6. /\ v.busy = B \union {s} /\ v.clnt[s] = c /\ v.rqst[c] # 0 /\ v.inQ[s] # Null
      /\ Kept(u, v, c) /\ s \in Sessions \ B
  BY <1>3, <1>4 DEF Working, Relayed, Served, Kept
<1>7. SessionOK(v, s)
  <2>1. v.nc[c] # "free"
    BY <1>1, <1>4, <1>6 DEF OK
  <2> QED
    BY <1>1, <1>4, <1>5, <1>6, <2>1 DEF SessionOK
<1>8. ClientOK(v, B \union {s}, c)
  BY <1>5, <1>6 DEF ClientOK
<1>9. Apart(u, v, B, O \ {s}, c)
  BY <1>1, <1>3, <1>4, <1>6 DEF Apart, Kept, Relayed, Served, B, O
<1>10. Whole(v)
  <2>1. v.ups[c].state = "sending" /\ "sending" = "sending"
    BY <1>5
  <2> QED
    BY ONLY <1>1, <1>4, <1>6, <1>7, <1>8, <1>9, <2>1, EndsWith
<1> QED
  BY <1>4, <1>6, <1>10 DEF v, c, Back, Cared

\* READ at the end of a response.
LEMMA ResponseReadOK ==
  ASSUME NEW u, NEW s \in u.busy, Whole(u), NEW y \in ResponseRead(u, s)
  PROVE  Back(u, y, u.clnt[s])
<1> DEFINE c == u.clnt[s]
           B == u.busy \ {s}
           O == Owners(u)
           x == Read(u, s, TRUE)
           v == UpsRead(x, s, TRUE)
<1>1. c \in Clients /\ Working(u, B, O, c, s)
  BY ONLY s \in u.busy, Whole(u), IsWorking
<1>2. y = TornDownOk(v, s) \/ y = Parked(v, s)
  BY DEF ResponseRead
<1>3. B \subseteq u.busy
  OBVIOUS
<1> HIDE DEF c, B, O, x, v
<1>4. Working(x, B, O, c, s) /\ Served(u, x, c) /\ ReadEnds(x, s, Item(u.rqst[c], TRUE))
  <2>1. TRUE \in BOOLEAN
    OBVIOUS
  <2> QED
    BY ONLY <1>1, <2>1, ReadOK DEF x
<1>5. /\ OK(v, B, O \ {s}, {c}) /\ Relayed(x, v, c)
      /\ v.outQ[c] = v.inQ[s] /\ v.detached[s] /\ c \in RangeOf(v.outputQ)
      /\ v.ups[c] = [x.ups[c] EXCEPT !.state = "done"]
  <2>1. TRUE \in BOOLEAN
    OBVIOUS
  <2>2. /\ OK(v, B, O \ {s}, {c}) /\ Relayed(x, v, c)
        /\ v.outQ[c] = v.inQ[s] /\ v.detached[s] /\ c \in RangeOf(v.outputQ)
        /\ StateIs(x, v, c, TRUE)
    BY ONLY <1>1, <1>4, <2>1, UpsReadOK DEF v
  <2> QED
    BY <2>2 DEF StateIs
<1>6. v.ups[c].kind = "proxy" /\ v.ups[c].state = "done"
  <2>1. x.ups[c] \in Upstreams
    <3>1. x \in Thread /\ c \in Clients
      BY <1>1, <1>4 DEF Working, OK
    <3> QED
      BY <3>1 DEF Thread
  <2> QED
    BY <1>4, <1>5, <2>1 DEF Working, Upstreams
<1>7. /\ v.busy = B \union {s} /\ v.clnt[s] = c /\ v.rqst[c] # 0 /\ v.inQ[s] # Null
      /\ Kept(u, v, c) /\ s \in Sessions \ B /\ v.clnt = u.clnt
  BY <1>4, <1>5 DEF Working, Relayed, Served, Kept
<1>8. Owners(u) \intersect B \subseteq O \ {s}
  BY <1>7 DEF O
<1>9. CASE y = TornDownOk(v, s)
  <2>1. s \in O \ {s} \/ v.detached[s]
    BY <1>5
  <2>2. Back(u, TornDownOk(v, s), c)
    BY ONLY <1>1, <1>3, <1>5, <1>6, <1>7, <1>8, <2>1, TornDownOkKeeps
  <2> QED
    BY <1>9, <2>2 DEF c
<1>10. CASE y = Parked(v, s)
  <2>1. Complete(v, c)
    <3>1. ReadEnds(v, s, Item(u.rqst[c], TRUE))
      BY <1>4, <1>5 DEF Relayed, ReadEnds
    <3>2. Item(u.rqst[c], TRUE).last
      BY DEF Item
    <3> QED
      BY <1>5, <1>7, <3>1, <3>2 DEF ReadEnds, Complete
  <2>2. Back(u, Parked(v, s), c)
    BY ONLY <1>1, <1>3, <1>5, <1>6, <1>7, <1>8, <2>1, ParkedOK
  <2> QED
    BY <1>10, <2>2 DEF c
<1> QED
  BY <1>2, <1>9, <1>10

\* READ at the end of the connection.
LEMMA EofReadOK ==
  ASSUME NEW u, NEW s \in u.busy, Whole(u), NEW y \in EofRead(u, s)
  PROVE  Back(u, y, u.clnt[s])
<1> DEFINE c == u.clnt[s]
           B == u.busy \ {s}
           O == Owners(u)
           x == Read(u, s, TRUE)
           Cut(v) == [v EXCEPT !.ups[v.clnt[s]].cut = TRUE]
<1>1. c \in Clients /\ Working(u, B, O, c, s)
  BY ONLY s \in u.busy, Whole(u), IsWorking
<1>2. \E v \in {u, x} : y = TornDownOk(Cut(v), s)
  BY DEF EofRead
<1>3. B \subseteq u.busy /\ Owners(u) \intersect B \subseteq O
  OBVIOUS
<1> HIDE DEF c, B, O, x, Cut
<1>4. Working(x, B, O, c, s) /\ Served(u, x, c)
  <2>1. TRUE \in BOOLEAN
    OBVIOUS
  <2> QED
    BY ONLY <1>1, <2>1, ReadOK DEF x
<1>5. PICK v \in {u, x} : y = TornDownOk(Cut(v), s)
  BY <1>2
<1>6. Working(v, B, O, c, s) /\ Served(u, v, c)
  <2>1. Served(u, u, c)
    BY DEF Served, Kept
  <2> QED
    BY <1>1, <1>4, <2>1
<1> DEFINE a == [v.ups[c] EXCEPT !.cut = TRUE]
           z == [v EXCEPT !.ups[c] = a]
<1>7. OK(v, B, O, {c}) /\ a \in Upstreams /\ a.kind = "proxy" /\ a.cut
  <2>1. v.ups[c] \in Upstreams /\ v.ups[c].kind = "proxy"
    <3>1. v \in Thread /\ c \in Clients /\ v.ups[c].kind = "proxy"
      BY <1>1, <1>6 DEF Working, OK
    <3> QED
      BY <3>1 DEF Thread
  <2> QED
    BY <1>6, <2>1 DEF Working, Upstreams
<1>8. Cut(v) = z
  BY <1>6 DEF Cut, Working
<1> HIDE DEF a
<1>9. OK(z, B, O, {c}) /\ Served(v, z, c) /\ z.ups[c] = a
  BY ONLY <1>1, <1>7, UpsSetOK
<1> HIDE DEF z
<1>10. /\ z.busy = B \union {s} /\ z.clnt[s] = c /\ z.rqst[c] # 0 /\ z.inQ[s] # Null
       /\ Kept(u, z, c) /\ s \in Sessions \ B /\ z.clnt = u.clnt
       /\ s \in O \/ z.detached[s]
       /\ z.ups[c].kind = "proxy" /\ (c \in RangeOf(z.outputQ) \/ z.ups[c].cut)
  BY <1>6, <1>7, <1>9 DEF Working, Served, Kept
<1>11. Back(u, TornDownOk(z, s), c)
  BY ONLY <1>1, <1>3, <1>9, <1>10, TornDownOkKeeps
<1> QED
  BY <1>5, <1>8, <1>11 DEF c

\* The connection to the upstream server fails, or times out.
LEMMA UpsFailedOK ==
  ASSUME NEW u, NEW s \in u.busy, Whole(u), u.nbqFree # {}
  PROVE  Back(u, TornDownError(u, s), u.clnt[s])
<1> DEFINE c == u.clnt[s]
           B == u.busy \ {s}
           O == Owners(u)
<1>1. c \in Clients /\ Working(u, B, O, c, s)
  BY ONLY s \in u.busy, Whole(u), IsWorking
<1> HIDE DEF c, B, O
<1>2. /\ s \in Sessions \ B /\ OK(u, B, O, {c}) /\ u.busy = B \union {s} /\ u.clnt[s] = c
      /\ Owners(u) \subseteq O /\ u.inQ[s] # Null /\ (s \in O \/ u.detached[s])
      /\ u.rqst[c] # 0
  BY <1>1 DEF Working, O
<1>3. Back(u, TornDownError(u, s), c)
  BY ONLY <1>1, <1>2, u.nbqFree # {}, TornDownErrorOK
<1> QED
  BY <1>3 DEF c

-----------------------------------------------------------------------------
(* Subrequests.                                                            *)

\* The session s is at work for c, with the queue q.
Launched(u, v, c, s, q) ==
  /\ v.busy = u.busy \union {s} /\ v.clnt[s] = c
  /\ \A r \in Sessions \ {s} : v.clnt[r] = u.clnt[r]
  /\ v.rqst = u.rqst /\ v.nc = u.nc /\ u.rqst[c] # 0
  /\ v.inQ[s] = q /\ q # Null /\ v.content[q] = <<>>
  /\ v.nbqFree = u.nbqFree \ {q}
  /\ v.ups[c] = [u.ups[c] EXCEPT !.subr = "active", !.sess = s]
  /\ u.ups[c].kind = "proxy" /\ u.ups[c].state = "idle"

\* A request is sent upstream: with a free queue, or with the one that the
\* session brought along.
LEMMA StartedOK ==
  ASSUME NEW u, NEW c \in Clients, Whole(u), u.ups[c].subr = "queued",
         NEW s \in Sessions \ u.busy, u.nbqFree # {}
  PROVE  LET v == Started(u, c, s)
         IN  /\ OK(v, u.busy, Owners(u) \union {s}, {c}) /\ Kept(u, v, c)
             /\ Launched(u, v, c, s, IF u.inQ[s] = Null THEN NewNbq(u) ELSE u.inQ[s])
<1> DEFINE B == u.busy
           O == Owners(u)
           P == O \union {s}
           q == IF u.inQ[s] = Null THEN NewNbq(u) ELSE u.inQ[s]
           a == [u.ups[c] EXCEPT !.subr = "active", !.sess = s]
           b == IF u.inQ[s] = Null THEN u.brought ELSE u.brought \union {q}
           v == Started(u, c, s)
<1>1. OK(u, B, O, {c})
  <2>1. Workers(u, c) = {}
    <3>1. u.ups[c].subr # "active"
      OBVIOUS
    <3> QED
      BY ONLY <3>1, Whole(u), c \in Clients, NoWorker
  <2>2. OK(u, u.busy \ Workers(u, c), Owners(u), {c})
    BY ONLY Whole(u), c \in Clients, LeftOut
  <2> QED
    BY <2>1, <2>2
<1>2. u \in Thread /\ B \subseteq Sessions /\ O \in SUBSET Sessions /\ s \notin O
  BY DEF Whole, OK, Owners
<1>3. ClientOK(u, B, c)
  BY DEF Whole, OK
<1>4. /\ u.rqst[c] # 0 /\ u.nc[c] # "free"
      /\ u.ups[c].kind = "proxy" /\ u.ups[c].state = "idle"
  BY <1>1, <1>3 DEF ClientOK, NoUps, OK
<1>5. q \in Nbqs /\ q # Null
  <2>1. u.inQ[s] \in Nbqs \union {Null} /\ NewNbq(u) \in Nbqs
    BY <1>2 DEF Thread, NewNbq
  <2> QED
    BY <2>1 DEF Nbqs, Null
<1>6. v = [u EXCEPT !.busy = @ \union {s}, !.clnt[s] = c, !.inQ[s] = q,
                    !.nbqFree = @ \ {q}, !.content[q] = <<>>, !.brought = b,
                    !.ups[c] = a]
  BY DEF Started
<1>7. a \in Upstreams
  <2>1. u.ups[c] \in Upstreams
    BY <1>2 DEF Thread
  <2> QED
    BY <2>1 DEF Upstreams
<1> DEFINE K == [u.clnt EXCEPT ![s] = c]
           I == [u.inQ EXCEPT ![s] = q]
           C == [u.content EXCEPT ![q] = <<>>]
           U == [u.ups EXCEPT ![c] = a]
           D == B \union {s}
           F == u.nbqFree \ {q}
<1>8. v = [u EXCEPT !.busy = D, !.clnt = K, !.inQ = I, !.nbqFree = F, !.content = C,
                    !.brought = b, !.ups = U]
  BY <1>6
<1>9. /\ K \in [Sessions -> Clients \union {NoClient}] /\ D \in SUBSET Sessions
      /\ I \in [Sessions -> Nbqs \union {Null}] /\ F \in SUBSET Nbqs
      /\ C \in [Nbqs -> Seq(Items)] /\ U \in [Clients -> Upstreams]
      /\ b \in SUBSET Nbqs
  <2> HIDE DEF a, q
  <2> QED
    BY <1>2, <1>5, <1>7 DEF Thread
<1>10. /\ \A r \in Sessions \ {s} : K[r] = u.clnt[r] /\ I[r] = u.inQ[r]
       /\ K[s] = c /\ I[s] = q /\ C[q] = <<>>
       /\ \A p \in Nbqs \ {q} : C[p] = u.content[p]
       /\ U[c] = a /\ \A d \in Clients \ {c} : U[d] = u.ups[d]
  <2> HIDE DEF a, q
  <2> QED
    BY <1>2, <1>5 DEF Thread
<1>11. /\ u.brought \subseteq b
       /\ Single(F, u.orphan, u.outQ, P, I, b)
       /\ u.inQ[s] # Null => q \in b
       /\ u.inQ[s] = Null => q \in u.nbqFree /\ b = u.brought
  <2>1. Single(u.nbqFree, u.orphan, u.outQ, O, u.inQ, u.brought)
    BY <1>1 DEF OK
  <2>2. u.inQ \in [Sessions -> Nbqs \union {Null}]
    BY <1>2 DEF Thread
  <2>3. CASE u.inQ[s] = Null
    <3>1. q \in u.nbqFree /\ b = u.brought /\ s \in Sessions \ O /\ q # Null
      BY <1>2, <1>5, <2>3 DEF NewNbq
    <3> HIDE DEF q, b, O
    <3>2. Single(F, u.orphan, u.outQ, P, I, u.brought)
      BY ONLY <1>2, <2>1, <2>2, <3>1, SingleStarted DEF F, P, I
    <3> QED
      BY <2>3, <3>1, <3>2
  <2>4. CASE u.inQ[s] # Null
    <3>1. q = u.inQ[s] /\ b = u.brought \union {q} /\ I = u.inQ /\ s \in Sessions
      BY <2>2, <2>4
    <3> HIDE DEF q, b, O, I
    <3>2. Single(u.nbqFree \ {u.inQ[s]}, u.orphan, u.outQ, O \union {s}, u.inQ,
                 u.brought \union {u.inQ[s]})
      BY ONLY <1>2, <2>1, <2>2, <2>4, <3>1, SingleBrought
    <3> QED
      BY <2>4, <3>1, <3>2
  <2> QED
    BY <2>3, <2>4
<1>12. v \in Thread
  <2> HIDE DEF K, I, C, U, D, F, b, v
  <2> QED
    BY <1>2, <1>8, <1>9 DEF Thread
<1>13. /\ v.busy = D /\ v.clnt = K /\ v.inQ = I /\ v.nbqFree = F /\ v.content = C
       /\ v.brought = b /\ v.ups = U
       /\ v.nc = u.nc /\ v.rqst = u.rqst /\ v.outQ = u.outQ /\ v.armed = u.armed
       /\ v.sent = u.sent /\ v.detached = u.detached /\ v.orphan = u.orphan
       /\ v.outputQ = u.outputQ
  <2> HIDE DEF K, I, C, U, D, F, b, v
  <2> QED
    BY <1>2, <1>8 DEF Thread
<1> HIDE DEF K, I, C, U, F, b, v, q, a
<1>14. Filled(v.content, v.orphan, v.outQ, v.rqst, P \intersect B, v.inQ, v.brought)
  <2>1. Filled(u.content, u.orphan, u.outQ, u.rqst, O \intersect B, u.inQ, u.brought)
    BY <1>1 DEF OK
  <2>2. Single(u.nbqFree, u.orphan, u.outQ, O, u.inQ, u.brought)
    BY <1>1 DEF OK
  <2>3. ASSUME NEW p \in Nbqs, p \notin b, p = q \/ C[p] # u.content[p]
        PROVE  p \in u.nbqFree \ u.brought
    BY <1>10, <1>11, <2>3
  <2>4. u.orphan \notin b => C[u.orphan] = <<>>
    <3>1. u.orphan \in Nbqs
      BY <1>2 DEF Thread
    <3> QED
      BY <1>10, <1>11, <2>1, <3>1 DEF Filled
  <2>5. ASSUME NEW r \in P \intersect B, I[r] \notin b
        PROVE  C[I[r]] = <<>>
    <3>1. r \in O \intersect B /\ I[r] = u.inQ[r] /\ u.inQ[r] \in Nbqs
      BY <1>2, <1>10, <2>2 DEF Thread, Single
    <3> QED
      BY <1>10, <1>11, <2>1, <2>5, <3>1 DEF Filled
  <2>6. ASSUME NEW d \in Clients, u.outQ[d] \notin b \union {Null}
        PROVE  /\ \A i \in DOMAIN C[u.outQ[d]] : C[u.outQ[d]][i].rqst = u.rqst[d]
               /\ u.rqst[d] = 0 => C[u.outQ[d]] = <<>>
    <3>1. u.outQ[d] \in Nbqs /\ u.outQ[d] \notin u.brought
      BY <1>2, <1>11, <2>6 DEF Thread
    <3>2. u.outQ[d] # q
      BY <1>11, <2>2, <2>6, <3>1 DEF Single
    <3>3. C[u.outQ[d]] = u.content[u.outQ[d]]
      BY <1>10, <3>1, <3>2
    <3> QED
      BY <2>1, <2>6, <3>1, <3>3 DEF Filled
  <2>7. Filled(C, u.orphan, u.outQ, u.rqst, P \intersect B, I, b)
    <3> HIDE DEF P, B
    <3> QED
      BY <2>4, <2>5, <2>6 DEF Filled
  <2> QED
    BY <1>13, <2>7
<1>15. OK(v, B, P, {c})
  <2>1. \A d \in Clients \ {c} :
          /\ v.nc[d] = u.nc[d] /\ v.rqst[d] = u.rqst[d] /\ v.ups[d] = u.ups[d]
          /\ v.outQ[d] = u.outQ[d] /\ v.sent[d] = u.sent[d]
    BY <1>10, <1>13
  <2>2. \A r \in B : /\ v.clnt[r] = u.clnt[r] /\ v.inQ[r] = u.inQ[r]
                     /\ v.detached[r] = u.detached[r]
    <3>1. B \subseteq Sessions \ {s}
      BY <1>2
    <3> QED
      BY <1>10, <1>13, <3>1
  <2>3. \A d \in Clients \ {c} : u.outQ[d] \notin v.brought \union {Null} =>
          v.content[u.outQ[d]] = u.content[u.outQ[d]]
    <3> SUFFICES ASSUME NEW d \in Clients \ {c}, u.outQ[d] \notin b \union {Null}
                 PROVE  C[u.outQ[d]] = u.content[u.outQ[d]]
      BY <1>13
    <3>1. u.outQ[d] \in Nbqs /\ u.outQ[d] \notin u.brought
      BY <1>2, <1>11 DEF Thread
    <3>2. Single(u.nbqFree, u.orphan, u.outQ, O, u.inQ, u.brought)
      BY <1>1 DEF OK
    <3>3. u.outQ[d] # q
      BY <1>11, <3>1, <3>2 DEF Single
    <3> QED
      BY <1>10, <3>1, <3>3
  <2>4. u.brought \subseteq v.brought /\ P \in SUBSET Sessions
    BY <1>2, <1>11, <1>13
  <2>5. v.nc[c] = "free" => v.rqst[c] = 0 /\ v.outQ[c] = Null
    BY <1>4, <1>13
  <2>6. Single(v.nbqFree, v.orphan, v.outQ, P, v.inQ, v.brought)
    BY <1>11, <1>13
  <2>7. Around(u, v, B, c)
    BY <2>1, <2>2, <2>3, <2>4, <2>5 DEF Around
  <2> HIDE DEF P, O, B, D
  <2> QED
    BY ONLY c \in Clients, <1>1, <1>12, <1>14, <2>4, <2>6, <2>7, Elsewhere
<1>16. Kept(u, v, c)
  BY <1>10, <1>13 DEF Kept
<1>17. Launched(u, v, c, s, q)
  BY <1>4, <1>5, <1>10, <1>13 DEF Launched, a, F
<1> QED
  BY <1>15, <1>16, <1>17 DEF v, q

-----------------------------------------------------------------------------
(* Writing.                                                                *)

\* What is left of a queue when k of its items are sent.
LEMMA SentItems ==
  ASSUME NEW S \in Seq(Items), NEW k \in 0 .. Len(S), NEW s \in {"none", "part", "last"}
  PROVE  LET T == SubSeq(S, k + 1, Len(S))
             r == SentLast(s, SubSeq(S, 1, k))
         IN  /\ T \in Seq(Items) /\ \A i \in DOMAIN T : \E j \in DOMAIN S : T[i] = S[j]
             /\ k = Len(S) => T = <<>>
             /\ S = <<>> => T = <<>>
             /\ r \in {"none", "part", "last"}
             /\ HasLast(S, s) => HasLast(T, r)
<1> DEFINE n == Len(S)
           T == SubSeq(S, k + 1, n)
           R == SubSeq(S, 1, k)
           r == SentLast(s, R)
<1>1. n \in Nat /\ k \in Nat /\ k <= n /\ DOMAIN S = 1 .. n
  BY LenProperties
<1>2. \A i \in 1 .. n : S[i] \in Items
  BY ElementOfSeq
<1>3. S = <<>> <=> n = 0
  BY EmptySeq
<1>4. n = Len(S)
  OBVIOUS
<1> HIDE DEF n, T, R, r
<1>5. T \in Seq(Items) /\ Len(T) = n - k /\ \A i \in 1 .. n - k : T[i] = S[k + i]
  <2>1. k + 1 \in Int /\ n \in Int /\ \A i \in k + 1 .. n : S[i] \in Items
    BY <1>1, <1>2
  <2>2. /\ T \in Seq(Items) /\ Len(T) = IF k + 1 <= n THEN n - (k + 1) + 1 ELSE 0
        /\ \A i \in 1 .. n - (k + 1) + 1 : T[i] = S[k + 1 + i - 1]
    BY ONLY <2>1, SubSeqProperties DEF T
  <2>3. n - (k + 1) + 1 = n - k /\ \A i \in Int : k + 1 + i - 1 = k + i
    BY <1>1
  <2>4. (IF k + 1 <= n THEN n - (k + 1) + 1 ELSE 0) = n - k
    BY <1>1
  <2> QED
    BY <2>2, <2>3, <2>4
<1>6. R \in Seq(Items) /\ Len(R) = k /\ \A i \in 1 .. k : R[i] = S[i]
  <2>1. 1 \in Int /\ k \in Int /\ \A i \in 1 .. k : S[i] \in Items
    BY <1>1, <1>2
  <2>2. /\ R \in Seq(Items) /\ Len(R) = IF 1 <= k THEN k - 1 + 1 ELSE 0
        /\ \A i \in 1 .. k - 1 + 1 : R[i] = S[1 + i - 1]
    BY ONLY <2>1, SubSeqProperties DEF R
  <2> QED
    BY <1>1, <2>2
<1>7. T = <<>> <=> k = n
  <2>1. T = <<>> <=> Len(T) = 0
    BY <1>5, EmptySeq
  <2>2. n - k = 0 <=> k = n
    BY <1>1
  <2> QED
    BY <1>5, <2>1, <2>2
<1>8. R = <<>> <=> k = 0
  <2>1. R = <<>> <=> Len(R) = 0
    BY <1>6, EmptySeq
  <2> QED
    BY <1>6, <2>1
<1>9. \A i \in DOMAIN T : \E j \in DOMAIN S : T[i] = S[j]
  <2>1. DOMAIN T = 1 .. n - k
    BY <1>5, LenProperties
  <2>2. ASSUME NEW i \in 1 .. n - k PROVE k + i \in 1 .. n /\ T[i] = S[k + i]
    BY <1>1, <1>5
  <2> QED
    BY <1>1, <2>1, <2>2
<1>10. ASSUME HasLast(S, s) PROVE HasLast(T, r)
  <2>1. CASE k < n
    <3>1. n - k \in 1 .. n - k /\ k + (n - k) = n /\ k # n /\ n # 0
      BY <1>1, <2>1
    <3>2. T[Len(T)] = S[n] /\ S # <<>> /\ T # <<>>
      BY <1>3, <1>5, <1>7, <3>1
    <3> QED
      BY <1>4, <1>10, <3>2 DEF HasLast
  <2>2. CASE k = n
    <3>1. T = <<>>
      BY <1>7, <2>2
    <3>2. CASE k = 0
      BY <1>3, <1>8, <1>10, <2>2, <3>1, <3>2 DEF HasLast, SentLast, r
    <3>3. CASE k # 0
      <4>1. R # <<>> /\ S # <<>> /\ R[Len(R)] = S[n]
        BY <1>1, <1>3, <1>6, <1>8, <2>2, <3>3
      <4> QED
        BY <1>4, <1>10, <3>1, <4>1 DEF HasLast, SentLast, r
    <3> QED
      BY <3>2, <3>3
  <2> QED
    BY <1>1, <2>1, <2>2
<1>11. r \in {"none", "part", "last"}
  BY DEF SentLast, r
<1>12. S = <<>> => k = n
  BY <1>1, <1>3
<1> QED
  BY <1>4, <1>5, <1>7, <1>9, <1>10, <1>11, <1>12 DEF T, R, r

\* The loop sends the first items of the queue.
LEMMA SentOK ==
  ASSUME NEW u, NEW c \in Clients, Whole(u), NEW k \in Nat,
         u.outQ[c] # Null => k \in 0 .. Len(u.content[u.outQ[c]])
  PROVE  LET v == Sent(u, c, k)
         IN  /\ Whole(v) /\ Kept(u, v, c) /\ v.nc[c] = "connected"
             /\ v.rqst = u.rqst /\ v.ups = u.ups /\ v.outQ = u.outQ
             /\ v.brought = u.brought /\ v.nbqFree = u.nbqFree
             /\ u.outQ[c] # Null /\ k = Len(u.content[u.outQ[c]])
                  => v.content[u.outQ[c]] = <<>>
<1> DEFINE B == u.busy \ Workers(u, c)
           O == Owners(u)
           q == u.outQ[c]
           S == u.content[q]
           T == SubSeq(S, k + 1, Len(S))
           r == IF q = Null THEN u.sent[c] ELSE SentLast(u.sent[c], SubSeq(S, 1, k))
           N == [u.nc EXCEPT ![c] = "connected"]
           R == [u.sent EXCEPT ![c] = r]
           w == [u EXCEPT !.nc = N, !.sent = R]
           x == [w EXCEPT !.content[w.outQ[c]] = T]
           v == Sent(u, c, k)
<1>1. OK(u, B, O, {c})
  BY ONLY Whole(u), c \in Clients, LeftOut
<1>2. u \in Thread /\ ClientOK(u, u.busy, c)
  BY DEF Whole, OK
<1>3. q \in Nbqs \union {Null} /\ u.sent[c] \in {"none", "part", "last"}
      /\ (q # Null => S \in Seq(Items))
  BY <1>2 DEF Thread
<1>4. q # Null =>
        /\ T \in Seq(Items) /\ \A i \in DOMAIN T : \E j \in DOMAIN S : T[i] = S[j]
        /\ k = Len(S) => T = <<>>
        /\ S = <<>> => T = <<>>
        /\ r \in {"none", "part", "last"}
        /\ HasLast(S, u.sent[c]) => HasLast(T, r)
  <2> HAVE q # Null
  <2>1. S \in Seq(Items) /\ k \in 0 .. Len(S) /\ u.sent[c] \in {"none", "part", "last"}
    BY <1>3
  <2> DEFINE e == u.sent[c]
             y == SentLast(e, SubSeq(S, 1, k))
  <2> HIDE DEF S, e
  <2>2. /\ T \in Seq(Items) /\ \A i \in DOMAIN T : \E j \in DOMAIN S : T[i] = S[j]
        /\ k = Len(S) => T = <<>>
        /\ S = <<>> => T = <<>>
        /\ y \in {"none", "part", "last"}
        /\ HasLast(S, e) => HasLast(T, y)
    BY ONLY <2>1, SentItems DEF e
  <2> QED
    BY <2>2 DEF e
<1>5. r \in {"none", "part", "last"}
  BY <1>3, <1>4
<1>6. v = IF q = Null THEN w ELSE x
  <2>1. u.sent = [u.sent EXCEPT ![c] = u.sent[c]]
    BY <1>2 DEF Thread
  <2>2. CASE q = Null
    <3>1. v = [u EXCEPT !.nc = N]
      BY <2>2 DEF Sent
    <3>2. R = u.sent
      BY <2>1, <2>2
    <3> HIDE DEF N, R, v
    <3>3. w = [u EXCEPT !.nc = N, !.sent = u.sent]
      BY <3>2
    <3>4. w = [u EXCEPT !.nc = N]
      BY <1>2, <3>3 DEF Thread
    <3> QED
      BY <2>2, <3>1, <3>4
  <2>3. CASE q # Null
    BY <1>2, <2>3 DEF Sent, Thread
  <2> QED
    BY <2>2, <2>3
<1> HIDE DEF r, T, v
<1>7. N \in [Clients -> {"free", "accepting", "connected"}] /\ N[c] = "connected"
      /\ R \in [Clients -> {"none", "part", "last"}] /\ R[c] = r
      /\ \A d \in Clients \ {c} : N[d] = u.nc[d] /\ R[d] = u.sent[d]
  BY <1>2, <1>5 DEF Thread
<1> HIDE DEF N, R
<1>8. w \in Thread
  BY <1>2, <1>7 DEF Thread
<1>9. /\ w.nc = N /\ w.sent = R /\ w.rqst = u.rqst /\ w.keep = u.keep /\ w.ups = u.ups
      /\ w.outQ = u.outQ /\ w.armed = u.armed /\ w.busy = u.busy /\ w.clnt = u.clnt
      /\ w.inQ = u.inQ /\ w.detached = u.detached /\ w.content = u.content
      /\ w.nbqFree = u.nbqFree /\ w.orphan = u.orphan /\ w.outputQ = u.outputQ
      /\ w.brought = u.brought
  BY <1>2 DEF Thread
<1> HIDE DEF w
<1>10. OK(w, B, O, {c})
  <2>1. \A d \in Clients \ {c} :
          /\ w.nc[d] = u.nc[d] /\ w.rqst[d] = u.rqst[d] /\ w.ups[d] = u.ups[d]
          /\ w.sent[d] = u.sent[d]
    BY <1>7, <1>9
  <2>2. w.nc[c] = "free" => w.rqst[c] = 0 /\ w.outQ[c] = Null
    BY <1>7, <1>9
  <2>3. w.rqst[c] = u.rqst[c]
    BY <1>9
  <2> HIDE DEF B, O
  <2> QED
    BY ONLY c \in Clients, <1>1, <1>8, <1>9, <2>1, <2>2, <2>3, AtClient
<1>11. q # Null => OK(x, B, O, {c}) /\ x \in Thread
  <2> HAVE q # Null
  <2>1. w.outQ[c] # Null /\ T \in Seq(Items)
    BY <1>4, <1>9
  <2>2. w.outQ[c] \notin w.brought => /\ \A i \in DOMAIN T : T[i].rqst = w.rqst[c]
                                      /\ w.rqst[c] = 0 => T = <<>>
    <3>1. q \notin u.brought \union {Null} =>
            /\ \A i \in DOMAIN S : S[i].rqst = u.rqst[c]
            /\ u.rqst[c] = 0 => S = <<>>
      BY <1>1 DEF OK, Filled
    <3> QED
      BY <1>4, <1>9, <3>1
  <2> HIDE DEF B, O, S, q
  <2>3. OK(x, B, O, {c})
    BY ONLY c \in Clients, <1>10, <2>1, <2>2, AtQueue DEF x
  <2> QED
    BY <2>3 DEF OK
<1>12. /\ v.nc = N /\ v.sent = R /\ v.rqst = u.rqst /\ v.ups = u.ups
       /\ v.outQ = u.outQ /\ v.armed = u.armed /\ v.busy = u.busy /\ v.clnt = u.clnt
       /\ v.inQ = u.inQ /\ v.detached = u.detached
       /\ v.nbqFree = u.nbqFree /\ v.outputQ = u.outputQ /\ v.brought = u.brought
       /\ v.content = IF q = Null THEN u.content ELSE [u.content EXCEPT ![q] = T]
  <2>1. CASE q = Null
    BY <1>6, <1>9, <2>1
  <2>2. CASE q # Null
    <3>1. v = [w EXCEPT !.content[q] = T]
      BY <1>6, <1>9, <2>2
    <3> HIDE DEF q
    <3> QED
      BY <1>8, <1>9, <2>2, <3>1 DEF Thread
  <2> QED
    BY <2>1, <2>2
<1>13. OK(v, B, O, {c})
  BY <1>6, <1>10, <1>11
<1>14. q # Null => q \in Nbqs /\ v.content[q] = T
                   /\ \A p \in Nbqs \ {q} : v.content[p] = u.content[p]
  BY <1>2, <1>3, <1>12 DEF Thread
<1>15. ClientOK(v, u.busy, c)
  <2>1. ASSUME v.outQ[c] # Null, HasLast(u.content[u.outQ[c]], u.sent[c])
        PROVE  HasLast(v.content[v.outQ[c]], v.sent[c])
    BY <1>4, <1>7, <1>12, <1>14, <2>1
  <2> QED
    BY <1>2, <1>7, <1>12, <2>1 DEF ClientOK
<1>16. \A s \in Owners(u) :
         u.inQ[s] \notin u.brought => v.content[u.inQ[s]] = u.content[u.inQ[s]]
  <2> SUFFICES ASSUME NEW s \in Owners(u), u.inQ[s] \notin u.brought
               PROVE  v.content[u.inQ[s]] = u.content[u.inQ[s]]
    OBVIOUS
  <2>1. Single(u.nbqFree, u.orphan, u.outQ, O, u.inQ, u.brought)
    BY <1>1 DEF OK
  <2>2. u.inQ[s] # Null /\ u.inQ[s] # q
    BY <2>1 DEF Single
  <2>3. u.inQ[s] \in Nbqs
    BY <1>2, <2>2 DEF Owners, Thread
  <2> QED
    BY <1>12, <1>14, <2>2, <2>3
<1>17. Whole(v)
  <2>1. v.nc[c] # "free" /\ v.rqst[c] = u.rqst[c] /\ (u.outQ[c] # Null => v.outQ[c] = u.outQ[c])
    BY <1>7, <1>12
  <2> QED
    BY ONLY c \in Clients, Whole(u), <1>12, <1>13, <1>15, <1>16, <2>1, EndsSame
<1>18. Kept(u, v, c)
  BY <1>7, <1>12 DEF Kept
<1> QED
  BY <1>4, <1>7, <1>12, <1>14, <1>17, <1>18 DEF v

\* A client without a queue takes over the orphan.
LEMMA AdoptedOK ==
  ASSUME NEW u, NEW c \in Clients, Whole(u), u.nc[c] # "free", u.nbqFree # {}
  PROVE  LET v == Adopted(u, c)
         IN  /\ Whole(v) /\ Kept(u, v, c) /\ v.outQ[c] # Null /\ v.nc = u.nc
             /\ v.rqst = u.rqst /\ v.ups = u.ups /\ v.brought = u.brought
             /\ u.outQ[c] # Null => v = u
             /\ u.outQ[c] = Null => v.content[v.outQ[c]] = <<>>
<1>1. CASE u.outQ[c] # Null
  BY <1>1 DEF Adopted, Kept
<1>2. CASE u.outQ[c] = Null
  <2> DEFINE B == u.busy \ Workers(u, c)
             O == Owners(u)
             q == NewNbq(u)
             p == u.orphan
             v == Adopted(u, c)
             C == [[u.content EXCEPT ![p] = <<>>] EXCEPT ![q] = <<>>]
             Q == [u.outQ EXCEPT ![c] = p]
             F == u.nbqFree \ {q}
  <2>1. OK(u, B, O, {c})
    BY ONLY Whole(u), c \in Clients, LeftOut
  <2>2. u \in Thread /\ ClientOK(u, u.busy, c) /\ O \in SUBSET Sessions
    BY DEF Whole, OK, Owners
  <2>3. q \in u.nbqFree /\ q \in Nbqs /\ p \in Nbqs /\ p # Null /\ q # Null
    <3>1. q \in u.nbqFree
      BY DEF NewNbq
    <3> QED
      BY <2>2, <3>1 DEF Thread, Nbqs, Null
  <2>4. v = [u EXCEPT !.outQ = Q, !.content = C, !.orphan = q, !.nbqFree = F]
    BY <1>2 DEF Adopted
  <2> HIDE DEF v, q
  <2>5. /\ C \in [Nbqs -> Seq(Items)] /\ C[p] = <<>> /\ C[q] = <<>>
        /\ \A a \in Nbqs : a # p /\ a # q => C[a] = u.content[a]
        /\ Q \in [Clients -> Nbqs \union {Null}] /\ Q[c] = p
        /\ \A d \in Clients \ {c} : Q[d] = u.outQ[d]
        /\ F \in SUBSET Nbqs
    <3> HIDE DEF p
    <3>1. <<>> \in Seq(Items)
      OBVIOUS
    <3>2. u.content \in [Nbqs -> Seq(Items)] /\ u.outQ \in [Clients -> Nbqs \union {Null}]
          /\ u.nbqFree \in SUBSET Nbqs
      BY <2>2 DEF Thread
    <3> QED
      BY <2>3, <3>1, <3>2
  <2> HIDE DEF C, Q, F, p
  <2>6. v \in Thread
    BY <2>2, <2>3, <2>4, <2>5 DEF Thread
  <2>7. /\ v.outQ = Q /\ v.content = C /\ v.orphan = q /\ v.nbqFree = F
        /\ v.nc = u.nc /\ v.rqst = u.rqst /\ v.ups = u.ups /\ v.armed = u.armed
        /\ v.sent = u.sent /\ v.busy = u.busy /\ v.clnt = u.clnt /\ v.inQ = u.inQ
        /\ v.detached = u.detached /\ v.outputQ = u.outputQ /\ v.brought = u.brought
    BY <2>2, <2>4 DEF Thread
  <2>8. Single(u.nbqFree, p, u.outQ, O, u.inQ, u.brought)
    BY <2>1 DEF OK, p
  <2>9. Single(F, q, Q, O, u.inQ, u.brought)
    <3>1. u.outQ \in [Clients -> Nbqs \union {Null}]
      BY <2>2 DEF Thread
    <3> HIDE DEF O
    <3> QED
      BY ONLY c \in Clients, <1>2, <2>3, <2>8, <3>1, SingleAdopted DEF F, Q
  <2>10. ASSUME NEW a \in Nbqs, a \notin u.brought, C[a] # u.content[a]
         PROVE  a = p \/ a \in u.nbqFree
    BY <2>3, <2>5, <2>10
  <2>11. ASSUME NEW s \in O, u.inQ[s] \notin u.brought PROVE C[u.inQ[s]] = u.content[u.inQ[s]]
    <3>1. u.inQ[s] \in Nbqs
      BY <2>2, <2>8, <2>11 DEF Single, Thread
    <3> QED
      BY <2>8, <2>10, <2>11, <3>1 DEF Single
  <2>12. ASSUME NEW d \in Clients \ {c}, u.outQ[d] \notin u.brought \union {Null}
         PROVE  C[u.outQ[d]] = u.content[u.outQ[d]]
    <3>1. u.outQ[d] \in Nbqs
      BY <2>2, <2>12 DEF Thread
    <3> QED
      BY <2>8, <2>10, <2>12, <3>1 DEF Single
  <2>13. Filled(C, q, Q, u.rqst, O \intersect B, u.inQ, u.brought)
    <3>1. Filled(u.content, u.orphan, u.outQ, u.rqst, O \intersect B, u.inQ, u.brought)
      BY <2>1 DEF OK
    <3>2. \A s \in O \intersect B : u.inQ[s] \notin u.brought => C[u.inQ[s]] = <<>>
      BY <2>11, <3>1 DEF Filled
    <3>3. \A d \in Clients : Q[d] \notin u.brought \union {Null} =>
             /\ \A i \in DOMAIN C[Q[d]] : C[Q[d]][i].rqst = u.rqst[d]
             /\ u.rqst[d] = 0 => C[Q[d]] = <<>>
      <4> SUFFICES ASSUME NEW d \in Clients, Q[d] \notin u.brought \union {Null}
                   PROVE  /\ \A i \in DOMAIN C[Q[d]] : C[Q[d]][i].rqst = u.rqst[d]
                          /\ u.rqst[d] = 0 => C[Q[d]] = <<>>
        OBVIOUS
      <4>1. CASE d = c
        <5>1. C[Q[d]] = <<>>
          BY <2>5, <4>1
        <5>2. \A i \in DOMAIN <<>> : FALSE
          OBVIOUS
        <5> QED
          BY <5>1, <5>2
      <4>2. CASE d # c
        <5>1. Q[d] = u.outQ[d]
          BY <2>5, <4>2
        <5>2. C[Q[d]] = u.content[u.outQ[d]]
          BY <2>12, <4>2, <5>1
        <5>3. /\ \A i \in DOMAIN u.content[u.outQ[d]] : u.content[u.outQ[d]][i].rqst = u.rqst[d]
              /\ u.rqst[d] = 0 => u.content[u.outQ[d]] = <<>>
          BY <3>1, <5>1 DEF Filled
        <5> QED
          BY <5>2, <5>3
      <4> QED
        BY <4>1, <4>2
    <3> HIDE DEF O, B
    <3> QED
      BY <2>5, <3>2, <3>3 DEF Filled
  <2>14. OK(v, B, O, {c})
    <3>1. \A d \in Clients \ {c} :
            /\ v.nc[d] = u.nc[d] /\ v.rqst[d] = u.rqst[d] /\ v.ups[d] = u.ups[d]
            /\ v.outQ[d] = u.outQ[d] /\ v.sent[d] = u.sent[d]
      BY <2>5, <2>7
    <3>2. \A s \in B : /\ v.clnt[s] = u.clnt[s] /\ v.inQ[s] = u.inQ[s]
                       /\ v.detached[s] = u.detached[s]
      BY <2>7
    <3>3. \A d \in Clients \ {c} : u.outQ[d] \notin v.brought \union {Null} =>
            v.content[u.outQ[d]] = u.content[u.outQ[d]]
      BY <2>7, <2>12
    <3>4. u.brought \subseteq v.brought /\ (v.nc[c] = "free" => v.rqst[c] = 0 /\ v.outQ[c] = Null)
      BY <2>7
    <3>5. Around(u, v, B, c)
      BY <3>1, <3>2, <3>3, <3>4 DEF Around
    <3>6. /\ Single(v.nbqFree, v.orphan, v.outQ, O, v.inQ, v.brought)
          /\ Filled(v.content, v.orphan, v.outQ, v.rqst, O \intersect B, v.inQ, v.brought)
      BY <2>7, <2>9, <2>13
    <3> HIDE DEF O, B
    <3> QED
      BY ONLY c \in Clients, <2>1, <2>2, <2>6, <3>5, <3>6, Elsewhere
  <2>15. ClientOK(v, u.busy, c)
    <3>1. /\ ~(u.ups[c].kind = "file" /\ u.ups[c].state # "done")
          /\ ~(u.rqst[c] # 0 /\ (u.ups[c].kind = "none" \/ (u.ups[c].state = "done" /\ ~u.ups[c].shutdown)))
      <4>1. Null \notin u.brought
        BY <2>2 DEF Thread, Nbqs, Null
      <4> QED
        BY <1>2, <2>2, <4>1 DEF ClientOK
    <3> QED
      BY <2>2, <2>7, <3>1 DEF ClientOK
  <2>16. Whole(v)
    <3>1. v.nc[c] # "free" /\ v.rqst[c] = u.rqst[c] /\ (u.outQ[c] # Null => v.outQ[c] = u.outQ[c])
      BY <1>2, <2>7
    <3>2. \A s \in Owners(u) :
            u.inQ[s] \notin u.brought => v.content[u.inQ[s]] = u.content[u.inQ[s]]
      BY <2>7, <2>11
    <3> QED
      BY ONLY c \in Clients, Whole(u), <2>7, <2>14, <2>15, <3>1, <3>2, EndsSame
  <2>17. Kept(u, v, c)
    BY <2>5, <2>7 DEF Kept
  <2> QED
    BY <1>2, <2>3, <2>5, <2>7, <2>16, <2>17 DEF v
<1> QED
  BY <1>1, <1>2

\* The response is sent: the connection is closed, or it was all of the response.
LEMMA AnsweredOK ==
  ASSUME NEW u, NEW c \in Clients, Whole(u), Finished(u, c), u.outQ[c] # Null,
         u.nc[c] # "free"
  PROVE  LET v == Answered(u, c)
         IN  /\ Whole(v) /\ Kept(u, v, c) /\ v.rqst[c] = 0
             /\ v.nc[c] # "free" /\ u.rqst[c] # 0 /\ u.outQ[c] \notin u.brought
                  => v.sent[c] = "last"
             /\ u.ups[c].shutdown => v.nc[c] = "free"
<1> DEFINE B == u.busy
           O == Owners(u)
           v == Answered(u, c)
<1>1. u \in Thread /\ ClientOK(u, B, c) /\ O \in SUBSET Sessions
  BY DEF Whole, OK, Owners
<1>2. OK(u, B, O, {c})
  <2>1. u.ups[c].subr # "active"
    BY <1>1 DEF ClientOK, Finished, UpsDone
  <2>2. Workers(u, c) = {}
    BY ONLY c \in Clients, Whole(u), <2>1, NoWorker
  <2>3. OK(u, u.busy \ Workers(u, c), Owners(u), {c})
    BY ONLY Whole(u), c \in Clients, LeftOut
  <2> QED
    BY <2>2, <2>3
<1> HIDE DEF O, v
<1>3. CASE u.keep[c] /\ ~u.ups[c].shutdown
  <2> DEFINE R == [u.rqst EXCEPT ![c] = 0]
             U == [u.ups EXCEPT ![c] = NoUps]
             A == [u.armed EXCEPT ![c] = FALSE]
  <2>1. v = [u EXCEPT !.rqst = R, !.ups = U, !.armed = A]
    BY <1>3 DEF Answered, v
  <2>2. /\ R \in [Clients -> 0 .. MaxRequests] /\ U \in [Clients -> Upstreams]
        /\ A \in [Clients -> BOOLEAN] /\ R[c] = 0 /\ U[c] = NoUps
        /\ \A d \in Clients \ {c} : R[d] = u.rqst[d] /\ U[d] = u.ups[d] /\ A[d] = u.armed[d]
    <3>1. 0 \in 0 .. MaxRequests
      BY SizesAssumption
    <3> QED
      BY <1>1, <3>1, NoUpsIsOne DEF Thread
  <2> HIDE DEF R, U, A
  <2>3. v \in Thread
    BY <1>1, <2>1, <2>2 DEF Thread
  <2>4. /\ v.rqst = R /\ v.ups = U /\ v.armed = A /\ v.nc = u.nc /\ v.outQ = u.outQ
        /\ v.sent = u.sent /\ v.busy = u.busy /\ v.clnt = u.clnt /\ v.inQ = u.inQ
        /\ v.detached = u.detached /\ v.outputQ = u.outputQ /\ v.brought = u.brought
        /\ v.content = u.content /\ v.nbqFree = u.nbqFree /\ v.orphan = u.orphan
    BY <1>1, <2>1 DEF Thread
  <2>5. OK(v, B, O, {c})
    <3>1. \A d \in Clients \ {c} :
            /\ v.nc[d] = u.nc[d] /\ v.rqst[d] = u.rqst[d] /\ v.ups[d] = u.ups[d]
            /\ v.sent[d] = u.sent[d]
      BY <2>2, <2>4
    <3>2. /\ v.nc[c] = "free" => v.rqst[c] = 0 /\ v.outQ[c] = Null
          /\ u.outQ[c] \notin u.brought \union {Null} => u.content[u.outQ[c]] = <<>>
      BY <2>4 DEF Finished
    <3> QED
      BY ONLY c \in Clients, <1>2, <2>3, <2>4, <3>1, <3>2, AtClient
  <2>6. v.rqst[c] = 0 /\ v.ups[c] = NoUps
    BY <2>2, <2>4
  <2>7. ClientOK(v, B, c)
    BY ONLY <2>6, NoRequestOK
  <2>8. Kept(u, v, c) /\ Apart(u, v, B, O, c) /\ v.busy = B
    BY <2>2, <2>4 DEF Kept, Apart, O
  <2>9. Whole(v)
    BY ONLY c \in Clients, <2>5, <2>7, <2>8, EndsAlone
  <2>10. u.rqst[c] # 0 /\ u.outQ[c] \notin u.brought => u.sent[c] = "last"
    BY <1>1, <1>3 DEF ClientOK, Finished, UpsDone, HasLast
  <2> QED
    BY <1>3, <2>4, <2>6, <2>8, <2>9, <2>10 DEF v
<1>4. CASE ~(u.keep[c] /\ ~u.ups[c].shutdown)
  <2> DEFINE w == ClntCleaned(u, c)
  <2>1. v = w
    BY <1>4 DEF v, Answered
  <2>2. /\ OK(w, B, O, {c}) /\ Kept(u, w, c)
        /\ w.nc[c] = "free" /\ w.rqst[c] = 0 /\ w.ups[c] = NoUps
        /\ w.busy = u.busy /\ w.clnt = u.clnt
    BY ONLY c \in Clients, <1>2, ClntCleanedOK
  <2> HIDE DEF w
  <2>3. ClientOK(w, B, c)
    BY ONLY <2>2, NoRequestOK
  <2>4. Apart(u, w, B, O, c) /\ w.busy = B
    BY <2>2 DEF Apart, Kept, O
  <2>5. Whole(w)
    BY ONLY c \in Clients, <2>2, <2>3, <2>4, EndsAlone
  <2> QED
    BY <2>1, <2>2, <2>5 DEF v
<1> QED
  BY <1>3, <1>4

\* A callback that only arms a connection, or changes the output queue, leaves
\* the thread as the invariant has it.
LEMMA WholeSame ==
  ASSUME NEW u, NEW v \in Thread, Whole(u),
         /\ v.nc = u.nc /\ v.rqst = u.rqst /\ v.ups = u.ups /\ v.outQ = u.outQ
         /\ v.sent = u.sent /\ v.busy = u.busy /\ v.clnt = u.clnt /\ v.inQ = u.inQ
         /\ v.detached = u.detached /\ v.content = u.content /\ v.nbqFree = u.nbqFree
         /\ v.orphan = u.orphan /\ v.brought = u.brought
  PROVE  Whole(v)
<1>1. Owners(v) = Owners(u)
  BY DEF Owners
<1>2. \A c \in Clients : ClientOK(v, v.busy, c)
  <2>1. \A c \in Clients : ClientOK(u, u.busy, c)
    BY DEF Whole, OK
  <2> QED
    BY <2>1 DEF ClientOK
<1>3. \A s \in v.busy : SessionOK(v, s)
  <2>1. \A s \in u.busy : SessionOK(u, s)
    BY DEF Whole, OK
  <2> QED
    BY <2>1 DEF SessionOK
<1>4. /\ v.busy \subseteq Sessions /\ Owners(v) \subseteq Sessions
      /\ \A c \in Clients : v.nc[c] = "free" => v.rqst[c] = 0 /\ v.outQ[c] = Null
      /\ Single(v.nbqFree, v.orphan, v.outQ, Owners(v), v.inQ, v.brought)
      /\ Filled(v.content, v.orphan, v.outQ, v.rqst, Owners(v) \intersect v.busy, v.inQ,
                v.brought)
  BY <1>1 DEF Whole, OK
<1> QED
  BY <1>2, <1>3, <1>4 DEF Whole, OK

\* An empty queue is filled from the file.
LEMMA RefilledOK ==
  ASSUME NEW u, NEW c \in Clients, Whole(u)
  PROVE  LET v == Refilled(u, c)
         IN  /\ Whole(v) /\ Kept(u, v, c) /\ v.nc = u.nc /\ v.rqst = u.rqst
             /\ v.outQ = u.outQ /\ v.brought = u.brought /\ v.nbqFree = u.nbqFree
             /\ v.ups[c].kind = "file" /\ v.ups[c].state # "done"
                  => v.outQ[c] # Null /\ v.content[v.outQ[c]] # <<>>
<1> DEFINE B == u.busy
           O == Owners(u)
           v == FileRead(u, c)
<1>1. u \in Thread /\ ClientOK(u, B, c)
  BY DEF Whole, OK
<1>2. u.ups[c] \in Upstreams
  BY <1>1 DEF Thread
<1>3. CASE Refilled(u, c) = u
  <2>1. ASSUME u.ups[c].kind = "file", u.ups[c].state # "done"
        PROVE  u.outQ[c] # Null /\ u.content[u.outQ[c]] # <<>>
    <3>1. u.outQ[c] # Null /\ u.nc[c] = "connected" /\ u.rqst[c] # 0 /\ u.ups[c].left > 0
      BY <1>1, <2>1 DEF ClientOK, NoUps
    <3>2. ASSUME u.content[u.outQ[c]] = <<>> PROVE FALSE
      <4>1. Refilled(u, c) = FileRead(u, c)
        BY <2>1, <3>1, <3>2 DEF Refilled, UpsDone
      <4>2. v.content[u.outQ[c]] # <<>>
        <5>1. v.content = [u.content EXCEPT ![u.outQ[c]] = Append(@, Item(u.rqst[c], u.ups[c].left = 1))]
          BY <1>1 DEF FileRead, QueueOutput, Put, Thread
        <5>2. u.outQ[c] \in Nbqs
          BY <1>1, <3>1 DEF Thread
        <5>3. Append(<<>>, Item(u.rqst[c], u.ups[c].left = 1)) # <<>>
          OBVIOUS
        <5> QED
          BY <1>1, <3>2, <5>1, <5>2, <5>3 DEF Thread
      <4> QED
        BY <1>3, <3>2, <4>1, <4>2
    <3> QED
      BY <3>1, <3>2
  <2> QED
    BY <1>3, <2>1 DEF Kept
<1>4. CASE Refilled(u, c) # u
  <2>1. /\ Refilled(u, c) = v /\ u.nc[c] = "connected" /\ u.outQ[c] # Null
        /\ u.ups[c].kind = "file" /\ u.ups[c].state # "done"
    BY <1>4 DEF Refilled, UpsDone
  <2>2. u.rqst[c] # 0 /\ u.ups[c].left > 0 /\ u.ups[c].subr = "none"
    BY <1>1, <2>1 DEF ClientOK, NoUps
  <2>3. OK(u, B, O, {c})
    <3>1. u.ups[c].subr # "active"
      BY <2>2
    <3>2. Workers(u, c) = {}
      BY ONLY c \in Clients, Whole(u), <3>1, NoWorker
    <3>3. OK(u, u.busy \ Workers(u, c), Owners(u), {c})
      BY ONLY Whole(u), c \in Clients, LeftOut
    <3> QED
      BY <3>2, <3>3
  <2> HIDE DEF O, v
  <2>4. /\ OK(v, B, O, {c}) /\ Served(u, v, c) /\ v.outQ = u.outQ
        /\ v.content[v.outQ[c]] # <<>> /\ \A D : ClientOK(v, D, c)
    BY ONLY c \in Clients, <2>1, <2>2, <2>3, FileReadOK DEF v
  <2>5. Apart(u, v, B, O, c) /\ v.busy = B /\ ClientOK(v, B, c)
    BY <2>4 DEF Served, Kept, Apart, O
  <2>6. Whole(v)
    BY ONLY c \in Clients, <2>4, <2>5, EndsAlone
  <2>7. v.nbqFree = u.nbqFree
    BY <1>1 DEF v, FileRead, QueueOutput, Put, Thread
  <2> QED
    BY <2>1, <2>4, <2>6, <2>7 DEF Served
<1> QED
  BY <1>3, <1>4

LEMMA KeptTwice ==
  ASSUME NEW u, NEW v, NEW w, NEW c, Kept(u, v, c), Kept(v, w, c)
  PROVE  Kept(u, w, c)
BY DEF Kept

\* A connection is kept after the last piece of its response.
Full(u, v) ==
  \A c \in Clients :
    u.nc[c] # "free" /\ u.rqst[c] # 0 /\ v.nc[c] # "free" /\ v.rqst[c] = 0
      /\ u.outQ[c] \notin u.brought
    => v.sent[c] = "last"

\* A step leads from u to v, after which the write callback of w goes on.
Fine(u, v, w) == Whole(v) /\ Care(v, w, {}) /\ Full(u, v)

\* It does when it serves one client, which then needs nobody, or is cared for.
LEMMA ServesOne ==
  ASSUME NEW u, NEW v, NEW w, NEW c \in Clients, Whole(v), Kept(u, v, c),
         Care(u, w, {}) \/ Care(u, w, {c}),
         v.nc[c] # "free" /\ v.rqst[c] # 0 => Cared(v, w, c),
         u.rqst[c] # 0 /\ v.nc[c] # "free" /\ v.rqst[c] = 0 /\ u.outQ[c] \notin u.brought
           => v.sent[c] = "last"
  PROVE  Fine(u, v, w)
<1>1. Care(v, w, {})
  <2>1. CASE Care(u, w, {})
    BY ONLY c \in Clients, Kept(u, v, c), <2>1, CareKept,
            v.nc[c] # "free" /\ v.rqst[c] # 0 => Cared(v, w, c)
  <2>2. CASE Care(u, w, {c})
    BY ONLY c \in Clients, Kept(u, v, c), <2>2, CareKept,
            v.nc[c] # "free" /\ v.rqst[c] # 0 => Cared(v, w, c)
  <2> QED
    BY <2>1, <2>2
<1>2. Full(u, v)
  BY DEF Kept, Full
<1> QED
  BY <1>1, <1>2 DEF Fine

\* The callback of c is over, and another one starts or none.
LEMMA CareElsewhere ==
  ASSUME NEW u, NEW c, NEW w, Care(u, c, {})
  PROVE  Care(u, w, {c})
BY DEF Care, Cared

LEMMA BackIsFine ==
  ASSUME NEW u, NEW v, NEW w, NEW c \in Clients, Back(u, v, c),
         Care(u, w, {}) \/ Care(u, w, {c})
  PROVE  Fine(u, v, w)
<1>1. /\ Whole(v) /\ Kept(u, v, c)
      /\ v.nc[c] # "free" /\ v.rqst[c] # 0 => Cared(v, w, c)
      /\ u.rqst[c] # 0 /\ v.nc[c] # "free" /\ v.rqst[c] = 0 /\ u.outQ[c] \notin u.brought
           => v.sent[c] = "last"
  BY DEF Back
<1> QED
  BY ONLY c \in Clients, <1>1, Care(u, w, {}) \/ Care(u, w, {c}), ServesOne

LEMMA AgainLeftOK ==
  ASSUME NEW u, NEW c \in Clients, Whole(u)
  PROVE  LET v == AgainLeft(u, c)
         IN  Whole(v) /\ Kept(u, v, c) /\ v.armed[c] /\ v.rqst = u.rqst
<1> DEFINE A == [u.armed EXCEPT ![c] = TRUE]
           v == AgainLeft(u, c)
<1>1. u \in Thread
  BY DEF Whole, OK
<1>2. v = [u EXCEPT !.armed = A]
  BY DEF AgainLeft
<1>3. A \in [Clients -> BOOLEAN] /\ A[c] /\ \A d \in Clients \ {c} : A[d] = u.armed[d]
  BY <1>1 DEF Thread
<1> HIDE DEF A, v
<1>4. v \in Thread
  BY <1>1, <1>2, <1>3 DEF Thread
<1>5. /\ v.nc = u.nc /\ v.rqst = u.rqst /\ v.ups = u.ups /\ v.outQ = u.outQ
      /\ v.sent = u.sent /\ v.busy = u.busy /\ v.clnt = u.clnt /\ v.inQ = u.inQ
      /\ v.detached = u.detached /\ v.content = u.content /\ v.nbqFree = u.nbqFree
      /\ v.orphan = u.orphan /\ v.brought = u.brought
      /\ v.armed = A /\ v.outputQ = u.outputQ
  BY <1>1, <1>2 DEF Thread
<1>6. Whole(v)
  BY ONLY Whole(u), <1>4, <1>5, WholeSame
<1> QED
  BY <1>3, <1>5, <1>6 DEF Kept, v

\* A turn of the write callback of c.
LEMMA WriteTurnOK ==
  ASSUME NEW u, NEW c \in Clients, Whole(u), Care(u, c, {}), u.nbqFree # {}
  PROVE  LET x == Refilled(u, c)
             items == IF x.outQ[c] = Null THEN <<>> ELSE x.content[x.outQ[c]]
             z == Adopted(Sent(x, c, Len(items)), c)
         IN  /\ Fine(u, TornDown(x, c), Null)
             /\ \A k \in 0 .. Len(items) - 1 : Fine(u, AgainLeft(Sent(x, c, k), c), Null)
             /\ Finished(z, c) => Fine(u, Answered(z, c), Null)
             /\ ~Finished(z, c) => Fine(u, z, IF items = <<>> THEN Null ELSE c)
<1> DEFINE x == Refilled(u, c)
           items == IF x.outQ[c] = Null THEN <<>> ELSE x.content[x.outQ[c]]
           n == Len(items)
           y == Sent(x, c, n)
           z == Adopted(y, c)
<1>1. /\ Whole(x) /\ Kept(u, x, c) /\ x.nc = u.nc /\ x.rqst = u.rqst
      /\ x.outQ = u.outQ /\ x.brought = u.brought /\ x.nbqFree = u.nbqFree
      /\ x.ups[c].kind = "file" /\ x.ups[c].state # "done"
           => x.outQ[c] # Null /\ x.content[x.outQ[c]] # <<>>
  BY ONLY c \in Clients, Whole(u), RefilledOK
<1>2. Care(u, Null, {c})
  BY ONLY Care(u, c, {}), CareElsewhere
<1> HIDE DEF x
<1>3. x \in Thread /\ x.outQ[c] \in Nbqs \union {Null}
  BY <1>1 DEF Whole, OK, Thread
<1>4. n \in Nat /\ (x.outQ[c] # Null => n = Len(x.content[x.outQ[c]])) /\ (items = <<>> => n = 0)
  <2>1. CASE x.outQ[c] = Null
    BY <2>1
  <2>2. CASE x.outQ[c] # Null
    <3>1. x.content[x.outQ[c]] \in Seq(Items)
      BY <1>3, <2>2 DEF Thread
    <3> QED
      BY <2>2, <3>1, LenProperties
  <2> QED
    BY <2>1, <2>2
<1>5. Fine(u, TornDown(x, c), Null)
  <2> DEFINE v == TornDown(x, c)
  <2>1. Whole(v) /\ Kept(x, v, c) /\ v.nc[c] = "free"
    BY ONLY c \in Clients, <1>1, TornDownOK
  <2> HIDE DEF v
  <2>2. Kept(u, v, c)
    BY ONLY <1>1, <2>1, KeptTwice
  <2> QED
    BY ONLY c \in Clients, <1>2, <2>1, <2>2, ServesOne DEF v
<1> HIDE DEF items, n
<1>6. ASSUME NEW k \in 0 .. n - 1 PROVE Fine(u, AgainLeft(Sent(x, c, k), c), Null)
  <2> DEFINE v == Sent(x, c, k)
             w == AgainLeft(v, c)
  <2>1. k \in Nat /\ (x.outQ[c] # Null => k \in 0 .. Len(x.content[x.outQ[c]]))
    BY <1>4
  <2>2. /\ Whole(v) /\ Kept(x, v, c) /\ v.rqst = x.rqst
    BY ONLY c \in Clients, <1>1, <2>1, SentOK
  <2> HIDE DEF v
  <2>3. Whole(w) /\ Kept(v, w, c) /\ w.armed[c] /\ w.rqst = v.rqst
    BY ONLY c \in Clients, <2>2, AgainLeftOK
  <2> HIDE DEF w
  <2>4. Kept(u, w, c)
    <3>1. Kept(u, v, c)
      BY ONLY <1>1, <2>2, KeptTwice
    <3> QED
      BY ONLY <2>3, <3>1, KeptTwice
  <2>5. /\ w.nc[c] # "free" /\ w.rqst[c] # 0 => Cared(w, Null, c)
        /\ u.rqst[c] # 0 /\ w.nc[c] # "free" /\ w.rqst[c] = 0 /\ u.outQ[c] \notin u.brought
             => w.sent[c] = "last"
    BY <1>1, <2>2, <2>3 DEF Cared
  <2>6. Fine(u, w, Null)
    BY ONLY c \in Clients, <1>2, <2>3, <2>4, <2>5, ServesOne
  <2> QED
    BY <2>6 DEF v, w
<1>7. /\ Whole(y) /\ Kept(x, y, c) /\ y.nc[c] = "connected"
      /\ y.rqst = x.rqst /\ y.ups = x.ups /\ y.outQ = x.outQ
      /\ y.brought = x.brought /\ y.nbqFree = x.nbqFree
      /\ x.outQ[c] # Null => y.content[x.outQ[c]] = <<>>
  <2>1. n \in Nat /\ (x.outQ[c] # Null => n \in 0 .. Len(x.content[x.outQ[c]]))
    BY <1>4
  <2>2. /\ Whole(y) /\ Kept(x, y, c) /\ y.nc[c] = "connected"
        /\ y.rqst = x.rqst /\ y.ups = x.ups /\ y.outQ = x.outQ
        /\ y.brought = x.brought /\ y.nbqFree = x.nbqFree
        /\ x.outQ[c] # Null /\ n = Len(x.content[x.outQ[c]])
             => y.content[x.outQ[c]] = <<>>
    BY ONLY c \in Clients, <1>1, <2>1, SentOK
  <2> QED
    BY <1>4, <2>2
<1> HIDE DEF y
<1>8. /\ Whole(z) /\ Kept(y, z, c) /\ z.outQ[c] # Null /\ z.nc = y.nc
      /\ z.rqst = y.rqst /\ z.ups = y.ups /\ z.brought = y.brought
      /\ y.outQ[c] # Null => z = y
      /\ y.outQ[c] = Null => z.content[z.outQ[c]] = <<>>
  <2>1. y.nc[c] # "free" /\ y.nbqFree # {}
    BY <1>1, <1>7
  <2> QED
    BY ONLY c \in Clients, <1>7, <2>1, AdoptedOK
<1> HIDE DEF z
<1>9. Kept(u, z, c)
  <2>1. Kept(u, y, c)
    BY ONLY <1>1, <1>7, KeptTwice
  <2> QED
    BY ONLY <1>8, <2>1, KeptTwice
<1>10. ASSUME Finished(z, c) PROVE Fine(u, Answered(z, c), Null)
  <2> DEFINE v == Answered(z, c)
  <2>1. z.nc[c] # "free"
    BY <1>7, <1>8
  <2>2. /\ Whole(v) /\ Kept(z, v, c) /\ v.rqst[c] = 0
        /\ v.nc[c] # "free" /\ z.rqst[c] # 0 /\ z.outQ[c] \notin z.brought
             => v.sent[c] = "last"
        /\ z.ups[c].shutdown => v.nc[c] = "free"
    BY ONLY c \in Clients, <1>8, <1>10, <2>1, AnsweredOK
  <2> HIDE DEF v
  <2>3. Kept(u, v, c)
    BY ONLY <1>9, <2>2, KeptTwice
  <2>4. ASSUME u.rqst[c] # 0, v.nc[c] # "free", u.outQ[c] \notin u.brought
        PROVE  v.sent[c] = "last"
    <3>1. CASE u.outQ[c] # Null
      BY <1>1, <1>7, <1>8, <2>2, <2>4, <3>1
    <3>2. CASE u.outQ[c] = Null
      <4>1. y.outQ[c] = Null /\ y.outQ[c] \notin y.brought /\ y.rqst[c] # 0
        BY <1>1, <1>7, <2>4, <3>2
      <4>2. ClientOK(y, y.busy, c)
        BY <1>7 DEF Whole, OK
      <4>3. ~(y.ups[c].kind = "none" \/ (y.ups[c].state = "done" /\ ~y.ups[c].shutdown))
        BY <4>1, <4>2 DEF ClientOK
      <4>4. y.ups[c].kind = "none" \/ y.ups[c].state = "done"
        BY <1>8, <1>10 DEF Finished, UpsDone
      <4>5. y.ups \in [Clients -> Upstreams]
        BY <1>7 DEF Whole, OK, Thread
      <4>6. z.ups[c].shutdown
        BY <1>8, <4>3, <4>4
      <4> QED
        BY <2>2, <2>4, <4>6
    <3> QED
      BY <3>1, <3>2
  <2>5. /\ v.nc[c] # "free" /\ v.rqst[c] # 0 => Cared(v, Null, c)
        /\ u.rqst[c] # 0 /\ v.nc[c] # "free" /\ v.rqst[c] = 0 /\ u.outQ[c] \notin u.brought
             => v.sent[c] = "last"
    BY <2>2, <2>4
  <2>6. Fine(u, v, Null)
    BY ONLY c \in Clients, <1>2, <2>2, <2>3, <2>5, ServesOne
  <2> QED
    BY <2>6 DEF v
<1>11. ASSUME ~Finished(z, c)
       PROVE  Fine(u, z, IF items = <<>> THEN Null ELSE c)
  <2> DEFINE w == IF items = <<>> THEN Null ELSE c
  <2>1. z.content[z.outQ[c]] = <<>>
    BY <1>7, <1>8
  <2>2. z.ups[c].kind # "none" /\ z.ups[c].state # "done"
    BY <1>11, <2>1 DEF Finished, UpsDone
  <2>3. z.ups[c] \in Upstreams /\ ClientOK(z, z.busy, c)
    BY <1>8 DEF Whole, OK, Thread
  <2>4. Cared(z, w, c)
    <3>1. CASE z.ups[c].kind = "file"
      <4>1. x.outQ[c] # Null /\ x.content[x.outQ[c]] # <<>>
        BY <1>1, <1>7, <1>8, <2>2, <3>1
      <4>2. items # <<>>
        BY <4>1 DEF items
      <4> QED
        BY <4>2 DEF Cared
    <3>2. CASE z.ups[c].kind = "proxy"
      BY <2>2, <2>3, <3>2 DEF ClientOK, Cared
    <3> QED
      BY <2>2, <2>3, <3>1, <3>2 DEF Upstreams
  <2>5. Care(u, w, {c})
    BY ONLY Care(u, c, {}), CareElsewhere
  <2>6. u.rqst[c] # 0 /\ z.nc[c] # "free" /\ z.rqst[c] = 0 /\ u.outQ[c] \notin u.brought
          => z.sent[c] = "last"
    BY <1>1, <1>7, <1>8
  <2> HIDE DEF w
  <2>7. Fine(u, z, w)
    BY ONLY c \in Clients, <1>8, <1>9, <2>4, <2>5, <2>6, ServesOne
  <2> QED
    BY <2>7 DEF w
<1> QED
  BY <1>5, <1>6, <1>10, <1>11 DEF x, items, n, y, z

-----------------------------------------------------------------------------
(* Connections, requests and subrequests.                                  *)

\* A client for which no session works is left out alone.
LEMMA LeftOutAlone ==
  ASSUME NEW u, NEW c \in Clients, Whole(u), u.ups[c].subr # "active"
  PROVE  /\ OK(u, u.busy, Owners(u), {c}) /\ u \in Thread /\ Workers(u, c) = {}
         /\ ClientOK(u, u.busy, c)
<1>1. Workers(u, c) = {}
  BY ONLY c \in Clients, Whole(u), u.ups[c].subr # "active", NoWorker
<1>2. OK(u, u.busy \ Workers(u, c), Owners(u), {c})
  BY ONLY Whole(u), c \in Clients, LeftOut
<1>3. u \in Thread /\ ClientOK(u, u.busy, c)
  BY DEF Whole, OK
<1> QED
  BY <1>1, <1>2, <1>3

\* It is taken in again after it was served.
LEMMA ServedAlone ==
  ASSUME NEW u, NEW v, NEW w, NEW c \in Clients,
         OK(v, u.busy, Owners(u), {c}), v.busy = u.busy, v.clnt = u.clnt,
         Kept(u, v, c), ClientOK(v, u.busy, c),
         Care(u, w, {}) \/ Care(u, w, {c}),
         v.nc[c] # "free" /\ v.rqst[c] # 0 => Cared(v, w, c),
         u.rqst[c] = 0 \/ v.rqst[c] # 0
  PROVE  Fine(u, v, w)
<1> DEFINE B == u.busy
           O == Owners(u)
<1>1. Apart(u, v, B, O, c)
  BY DEF Apart, Kept
<1> HIDE DEF O, B
<1>2. OK(v, B, O, {c}) /\ v.busy = B /\ ClientOK(v, B, c)
  BY DEF O, B
<1>3. Whole(v)
  BY ONLY c \in Clients, <1>1, <1>2, EndsAlone
<1>4. u.rqst[c] # 0 /\ v.nc[c] # "free" /\ v.rqst[c] = 0 /\ u.outQ[c] \notin u.brought
        => v.sent[c] = "last"
  OBVIOUS
<1> QED
  BY ONLY c \in Clients, <1>3, <1>4, Kept(u, v, c), ServesOne,
          Care(u, w, {}) \/ Care(u, w, {c}),
          v.nc[c] # "free" /\ v.rqst[c] # 0 => Cared(v, w, c)

\* A client that has no request has no upstream object.
LEMMA Idle ==
  ASSUME NEW u, NEW c \in Clients, Whole(u), u.rqst[c] = 0
  PROVE  u.ups[c] = NoUps /\ u.ups[c].subr # "active"
<1>1. ClientOK(u, u.busy, c)
  BY DEF Whole, OK
<1> QED
  BY <1>1 DEF ClientOK, NoUps

\* A connection is accepted.
LEMMA OpenedOK ==
  ASSUME NEW u, NEW c \in Clients, Whole(u), u.nc[c] = "free", NEW w, Care(u, w, {})
  PROVE  Fine(u, Opened(u, c), w)
<1> DEFINE N == [u.nc EXCEPT ![c] = "accepting"]
           v == Opened(u, c)
           B == u.busy
           O == Owners(u)
<1>1. u.rqst[c] = 0
  BY DEF Whole, OK
<1>2. u.ups[c] = NoUps /\ u.ups[c].subr # "active"
  BY ONLY c \in Clients, Whole(u), <1>1, Idle
<1>3. OK(u, B, O, {c}) /\ u \in Thread
  BY ONLY c \in Clients, Whole(u), <1>2, LeftOutAlone
<1>4. v = [u EXCEPT !.nc = N]
  BY DEF Opened
<1>5. N \in [Clients -> {"free", "accepting", "connected"}] /\ N[c] = "accepting"
      /\ \A d \in Clients \ {c} : N[d] = u.nc[d]
  BY <1>3 DEF Thread
<1> HIDE DEF N, v, O, B
<1>6. v \in Thread
  BY <1>3, <1>4, <1>5 DEF Thread
<1>7. /\ v.rqst = u.rqst /\ v.ups = u.ups /\ v.outQ = u.outQ /\ v.armed = u.armed
      /\ v.sent = u.sent /\ v.busy = u.busy /\ v.clnt = u.clnt /\ v.inQ = u.inQ
      /\ v.detached = u.detached /\ v.content = u.content /\ v.nbqFree = u.nbqFree
      /\ v.orphan = u.orphan /\ v.brought = u.brought /\ v.outputQ = u.outputQ
      /\ v.nc = N
  BY <1>3, <1>4 DEF Thread
<1>8. OK(v, B, O, {c})
  <2>1. /\ v.nc[c] = "free" => v.rqst[c] = 0 /\ v.outQ[c] = Null
        /\ v.rqst[c] = u.rqst[c]
        /\ \A d \in Clients \ {c} :
             /\ v.nc[d] = u.nc[d] /\ v.rqst[d] = u.rqst[d] /\ v.ups[d] = u.ups[d]
             /\ v.sent[d] = u.sent[d]
    BY <1>5, <1>7
  <2> QED
    BY ONLY c \in Clients, <1>3, <1>6, <1>7, <2>1, AtClient
<1>9. v.rqst[c] = 0 /\ v.ups[c] = NoUps
  BY <1>1, <1>2, <1>7
<1>10. ClientOK(v, B, c)
  BY ONLY <1>9, NoRequestOK
<1>11. Kept(u, v, c)
  BY <1>5, <1>7 DEF Kept
<1>12. v.nc[c] # "free" /\ v.rqst[c] # 0 => Cared(v, w, c)
  BY <1>9
<1>13. Fine(u, v, w)
  BY ONLY c \in Clients, <1>1, <1>7, <1>8, <1>10, <1>11, <1>12, Care(u, w, {}), ServedAlone
     DEF B, O
<1> QED
  BY <1>13 DEF v

\* A request is read and handled.
LEMMA RequestReadOK ==
  ASSUME NEW u, NEW c \in Clients, Whole(u), u.rqst[c] = 0,
         u.requests < MaxRequests, u.nbqFree # {}, NEW keep \in BOOLEAN,
         NEW y \in RequestRead(u, c, keep), NEW w, Care(u, w, {})
  PROVE  Fine(u, y, w)
<1> DEFINE k == u.requests + 1
           x == [u EXCEPT !.nc[c] = "connected", !.rqst[c] = k,
                          !.requests = k, !.keep[c] = keep, !.sent[c] = "none"]
           B == u.busy
           O == Owners(u)
           N == [u.nc EXCEPT ![c] = "connected"]
           R == [u.rqst EXCEPT ![c] = k]
           K == [u.keep EXCEPT ![c] = keep]
           S == [u.sent EXCEPT ![c] = "none"]
<1>1. u.ups[c] = NoUps /\ u.ups[c].subr # "active"
  BY ONLY c \in Clients, Whole(u), u.rqst[c] = 0, Idle
<1>2. OK(u, B, O, {c}) /\ u \in Thread
  BY ONLY c \in Clients, Whole(u), <1>1, LeftOutAlone
<1>3. k \in 0 .. MaxRequests /\ k # 0
  BY <1>2, SizesAssumption DEF Thread
<1>4. x = [u EXCEPT !.nc = N, !.rqst = R, !.requests = k, !.keep = K, !.sent = S]
  OBVIOUS
<1>5. y \in Handled(x, c)
  BY DEF RequestRead
<1> HIDE DEF k, x, O, B
<1>6. /\ N \in [Clients -> {"free", "accepting", "connected"}] /\ N[c] = "connected"
      /\ R \in [Clients -> 0 .. MaxRequests] /\ R[c] = k
      /\ K \in [Clients -> BOOLEAN]
      /\ S \in [Clients -> {"none", "part", "last"}] /\ S[c] = "none"
      /\ \A d \in Clients \ {c} : N[d] = u.nc[d] /\ R[d] = u.rqst[d] /\ S[d] = u.sent[d]
  BY <1>2, <1>3 DEF Thread
<1> HIDE DEF N, R, K, S
<1>7. x \in Thread
  BY <1>2, <1>3, <1>4, <1>6, ZenonT(40) DEF Thread
<1>8. /\ x.nc = N /\ x.rqst = R /\ x.sent = S /\ x.ups = u.ups /\ x.outQ = u.outQ
      /\ x.armed = u.armed /\ x.busy = u.busy /\ x.clnt = u.clnt /\ x.inQ = u.inQ
      /\ x.detached = u.detached /\ x.content = u.content /\ x.nbqFree = u.nbqFree
      /\ x.orphan = u.orphan /\ x.brought = u.brought /\ x.outputQ = u.outputQ
  BY <1>2, <1>4 DEF Thread
<1>9. OK(x, B, O, {c})
  <2>1. /\ x.nc[c] = "free" => x.rqst[c] = 0 /\ x.outQ[c] = Null
        /\ \A d \in Clients \ {c} :
             /\ x.nc[d] = u.nc[d] /\ x.rqst[d] = u.rqst[d] /\ x.ups[d] = u.ups[d]
             /\ x.sent[d] = u.sent[d]
    BY <1>6, <1>8
  <2>2. u.outQ[c] \notin u.brought \union {Null} => u.content[u.outQ[c]] = <<>>
    BY <1>2 DEF OK, Filled
  <2> QED
    BY ONLY c \in Clients, <1>2, <1>7, <1>8, <2>1, <2>2, AtClient
<1>10. /\ x.nc[c] = "connected" /\ x.rqst[c] # 0 /\ x.sent[c] = "none" /\ x.ups[c] = NoUps
       /\ x.nbqFree # {}
  BY <1>1, <1>3, <1>6, <1>8
<1>11. Kept(u, x, c)
  BY <1>6, <1>8 DEF Kept
<1>12. /\ OK(y, B, O, {c}) /\ Served(x, y, c) /\ ClientOK(y, B, c) /\ Cared(y, w, c)
  <2>1. CASE y = QueueApiResp(x, c)
    <3> DEFINE v == QueueApiResp(x, c)
    <3>1. /\ OK(v, B, O, {c}) /\ Served(x, v, c) /\ v.ups = x.ups
          /\ c \in RangeOf(v.outputQ) /\ Complete(v, c)
      BY ONLY c \in Clients, <1>9, <1>10, QueueApiRespOK
    <3> HIDE DEF v
    <3>2. v.ups[c] = NoUps
      BY <1>10, <3>1
    <3>3. ClientOK(v, B, c)
      BY ONLY <3>1, <3>2, CompleteOK
    <3> QED
      BY <2>1, <3>1, <3>3 DEF v, Cared
  <2>2. CASE y = [x EXCEPT !.ups[c] = ProxyUps]
    <3>1. ProxyUps \in Upstreams
      BY DEF ProxyUps, NoUps, Upstreams, NoSession
    <3> DEFINE v == [x EXCEPT !.ups[c] = ProxyUps]
    <3>2. OK(v, B, O, {c}) /\ Served(x, v, c) /\ v.ups[c] = ProxyUps
      BY ONLY c \in Clients, <1>9, <3>1, UpsSetOK
    <3> HIDE DEF v
    <3>3. /\ v.ups[c].kind = "proxy" /\ v.ups[c].state = "idle"
          /\ v.ups[c].subr = "queued" /\ v.rqst[c] # 0
      BY <1>10, <3>2 DEF ProxyUps, NoUps, Served
    <3>4. ClientOK(v, B, c) /\ Cared(v, w, c)
      BY <3>3 DEF ClientOK, Cared
    <3> QED
      BY <2>2, <3>2, <3>4 DEF v
  <2>3. ASSUME NEW n \in FileParts, y = GetFile(x, c, n)
        PROVE  /\ OK(y, B, O, {c}) /\ Served(x, y, c)
               /\ ClientOK(y, B, c) /\ Cared(y, w, c)
    <3>1. n \in Nat
      BY SizesAssumption
    <3> DEFINE v == GetFile(x, c, n)
    <3>2. /\ OK(v, B, O, {c}) /\ Served(x, v, c)
          /\ \A D : ClientOK(v, D, c)
          /\ \A e : Cared(v, e, c)
      BY ONLY c \in Clients, <1>9, <1>10, <3>1, GetFileOK
    <3> QED
      BY <2>3, <3>2
  <2> QED
    BY <1>5, <2>1, <2>2, <2>3 DEF Handled
<1>13. Kept(u, y, c)
  <2>1. Kept(x, y, c)
    BY <1>12 DEF Served
  <2> QED
    BY ONLY <1>11, <2>1, KeptTwice
<1>14. y.busy = u.busy /\ y.clnt = u.clnt
  BY <1>8, <1>12 DEF Served
<1> QED
  BY ONLY c \in Clients, u.rqst[c] = 0, <1>12, <1>13, <1>14, Care(u, w, {}), ServedAlone
     DEF B, O

\* The request cannot be sent: the client gets an error at once.
LEMMA NotStartedOK ==
  ASSUME NEW u, NEW c \in Clients, Whole(u), u.ups[c].subr = "queued", u.nbqFree # {},
         NEW w, Care(u, w, {})
  PROVE  Fine(u, ErrorCb(u, c), w)
<1> DEFINE v == ErrorCb(u, c)
           B == u.busy
           O == Owners(u)
<1>1. u.ups[c].subr # "active"
  OBVIOUS
<1>2. OK(u, B, O, {c}) /\ ClientOK(u, B, c)
  BY ONLY c \in Clients, Whole(u), <1>1, LeftOutAlone
<1>3. u.rqst[c] # 0
  BY <1>2 DEF ClientOK, NoUps
<1> HIDE DEF B, O
<1>4. /\ OK(v, B, O, {c}) /\ Served(u, v, c) /\ v.ups[c] = NoUps
      /\ c \in RangeOf(v.outputQ) /\ Complete(v, c)
  BY ONLY c \in Clients, <1>2, <1>3, u.nbqFree # {}, ErrorCbOK
<1> HIDE DEF v
<1>5. ClientOK(v, B, c)
  BY ONLY <1>4, CompleteOK
<1>6. /\ Kept(u, v, c) /\ v.busy = u.busy /\ v.clnt = u.clnt /\ v.rqst[c] # 0
      /\ Cared(v, w, c)
  BY <1>3, <1>4 DEF Served, Cared
<1>7. Fine(u, v, w)
  BY ONLY c \in Clients, <1>4, <1>5, <1>6, Care(u, w, {}), ServedAlone DEF B, O
<1> QED
  BY <1>7 DEF v

\* The request is sent, or it fails with the session that was started.
LEMMA StartOK ==
  ASSUME NEW u, NEW c \in Clients, Whole(u), u.ups[c].subr = "queued",
         NEW s \in Sessions \ u.busy, u.nbqFree # {}, \A q : u.nbqFree \ {q} # {},
         NEW w, Care(u, w, {})
  PROVE  Fine(u, Started(u, c, s), w) /\ Fine(u, TornDownError(Started(u, c, s), s), w)
<1> DEFINE v == Started(u, c, s)
           y == TornDownError(v, s)
           B == u.busy
           P == Owners(u) \union {s}
           q == IF u.inQ[s] = Null THEN NewNbq(u) ELSE u.inQ[s]
<1>1. OK(v, B, P, {c}) /\ Kept(u, v, c) /\ Launched(u, v, c, s, q)
  BY ONLY c \in Clients, Whole(u), u.ups[c].subr = "queued", s \in Sessions \ u.busy,
          u.nbqFree # {}, StartedOK
<1>2. Workers(u, c) = {} /\ u \in Thread
  <2>1. u.ups[c].subr # "active"
    OBVIOUS
  <2> QED
    BY ONLY c \in Clients, Whole(u), <2>1, LeftOutAlone
<1> HIDE DEF v, q
<1>3. /\ v.ups[c].kind = "proxy" /\ v.ups[c].state = "idle"
      /\ v.ups[c].subr = "active" /\ v.ups[c].sess = s
  <2>1. u.ups[c] \in Upstreams
    BY <1>2 DEF Thread
  <2> QED
    BY <1>1, <2>1 DEF Upstreams, Launched
<1>4. /\ B \subseteq Sessions \ {s} /\ s \in Sessions \ B /\ s \in P
      /\ \A r \in B : v.clnt[r] = u.clnt[r] /\ u.clnt[r] # c
      /\ \A d \in Clients \ {c} : v.ups[d] = u.ups[d]
  BY <1>1, <1>2 DEF Workers, Thread, Kept, Launched
<1>5. Apart(u, v, B, P, c)
  BY <1>4 DEF Apart
<1>6. Fine(u, v, w)
  <2>1. SessionOK(v, s)
    <3>1. v.nc[c] # "free"
      BY <1>1 DEF OK, Launched
    <3> QED
      BY <1>1, <1>3, <3>1 DEF SessionOK, Launched
  <2>2. ClientOK(v, B \union {s}, c)
    BY <1>1, <1>3 DEF ClientOK, Launched
  <2>3. s \in P /\ (v.inQ[s] \notin v.brought => v.content[v.inQ[s]] = <<>>)
    BY <1>1 DEF Launched
  <2>4. v.ups[c].state # "sending"
          => s \in P /\ (v.inQ[s] \notin v.brought => v.content[v.inQ[s]] = <<>>)
    BY <2>3
  <2>5. v.busy = B \union {s} /\ v.clnt[s] = c
    BY <1>1 DEF Launched
  <2> HIDE DEF B, P
  <2>6. Whole(v)
    BY ONLY c \in Clients, <1>1, <1>4, <1>5, <2>5, <2>1, <2>2, <2>4, EndsWith
  <2>7. Back(u, v, c)
    BY <1>1, <1>3, <2>6 DEF Back, Cared, Launched
  <2> QED
    BY ONLY c \in Clients, <2>7, Care(u, w, {}), BackIsFine
<1>7. Fine(u, y, w)
  <2>1. Owners(v) \subseteq P
    <3> SUFFICES ASSUME NEW r \in Owners(v), r # s PROVE r \in Owners(u)
      OBVIOUS
    <3>1. r \in B /\ v.ups[v.clnt[r]].state # "sending"
      BY <1>1 DEF Owners, Launched
    <3>2. v.clnt[r] = u.clnt[r] /\ u.clnt[r] # c /\ u.clnt[r] \in Clients
      BY <1>4, <3>1 DEF Whole, OK, SessionOK
    <3> QED
      BY <1>4, <3>1, <3>2 DEF Owners
  <2>2. /\ v.busy = B \union {s} /\ v.clnt[s] = c
        /\ v.inQ[s] # Null /\ (s \in P \/ v.detached[s]) /\ v.rqst[c] # 0 /\ v.nbqFree # {}
    BY <1>1 DEF Launched
  <2> HIDE DEF P, B
  <2>3. Back(v, y, c)
    BY ONLY c \in Clients, <1>1, <1>4, <2>1, <2>2, TornDownErrorOK
  <2> HIDE DEF y
  <2>4. Kept(u, y, c)
    <3>1. Kept(v, y, c)
      BY <2>3 DEF Back
    <3> QED
      BY ONLY <1>1, <3>1, KeptTwice
  <2>5. Back(u, y, c)
    BY <2>3, <2>4 DEF Back
  <2> QED
    BY ONLY c \in Clients, <2>5, Care(u, w, {}), BackIsFine
<1> QED
  BY <1>6, <1>7 DEF v, y

\* The first connection of the output queue is written to, if it is open.
LEMMA DequeueOK ==
  ASSUME NEW u, Whole(u), Care(u, Null, {}), u.outputQ # <<>>
  PROVE  /\ Head(u.outputQ) \in Clients
         /\ Fine(u, [u EXCEPT !.outputQ = Tail(@)],
                 IF u.nc[Head(u.outputQ)] = "free" THEN Null ELSE Head(u.outputQ))
<1> DEFINE S == u.outputQ
           T == Tail(S)
           h == Head(S)
           v == [u EXCEPT !.outputQ = T]
           w == IF u.nc[h] = "free" THEN Null ELSE h
<1>1. u \in Thread /\ S \in Seq(Clients)
  BY DEF Whole, OK, Thread
<1>2. h \in Clients /\ T \in Seq(Clients) /\ RangeOf(S) \subseteq RangeOf(T) \union {h}
  <2>1. /\ h \in Clients /\ T \in Seq(Clients) /\ Len(T) = Len(S) - 1
        /\ \A i \in 1 .. Len(T) : T[i] = S[i + 1]
    BY <1>1, HeadTailProperties
  <2>2. h = S[1]
    BY <1>1
  <2>3. DOMAIN S = 1 .. Len(S) /\ DOMAIN T = 1 .. Len(T) /\ Len(S) \in Nat
    BY <1>1, <2>1, LenProperties
  <2> HIDE DEF S, T, h
  <2>4. ASSUME NEW i \in DOMAIN S PROVE S[i] \in RangeOf(T) \union {h}
    <3>1. CASE i = 1
      BY <2>2, <3>1
    <3>2. CASE i # 1
      <4>1. i - 1 \in 1 .. Len(T) /\ (i - 1) + 1 = i
        BY <2>1, <2>3, <3>2
      <4> QED
        BY <2>1, <2>3, <4>1 DEF RangeOf
    <3> QED
      BY <3>1, <3>2
  <2> QED
    BY <2>1, <2>4 DEF RangeOf
<1> HIDE DEF T, h, v
<1>3. v \in Thread
  BY <1>1, <1>2 DEF Thread, v
<1>4. /\ v.nc = u.nc /\ v.rqst = u.rqst /\ v.ups = u.ups /\ v.outQ = u.outQ
      /\ v.sent = u.sent /\ v.busy = u.busy /\ v.clnt = u.clnt /\ v.inQ = u.inQ
      /\ v.detached = u.detached /\ v.content = u.content /\ v.nbqFree = u.nbqFree
      /\ v.orphan = u.orphan /\ v.brought = u.brought
      /\ v.armed = u.armed /\ v.outputQ = T
  BY <1>1 DEF Thread, v
<1>5. Whole(v)
  BY ONLY Whole(u), <1>3, <1>4, WholeSame
<1>6. Care(v, w, {})
  <2> SUFFICES ASSUME NEW d \in Clients, v.nc[d] # "free", v.rqst[d] # 0
               PROVE  Cared(v, w, d)
    BY DEF Care
  <2>1. Cared(u, Null, d)
    BY <1>4 DEF Care
  <2>2. Null # d
    BY NullAssumption
  <2>3. d = h => w = d
    BY <1>4
  <2> QED
    BY <1>2, <1>4, <2>1, <2>2, <2>3 DEF Cared
<1>7. Full(u, v)
  BY <1>4 DEF Full
<1> QED
  BY <1>2, <1>5, <1>6, <1>7 DEF Fine, T, h, v

\* EPOLLOUT.
LEMMA WritableOK ==
  ASSUME NEW u, NEW c \in Clients, Whole(u), Care(u, Null, {})
  PROVE  Fine(u, [u EXCEPT !.armed[c] = FALSE], c)
<1> DEFINE A == [u.armed EXCEPT ![c] = FALSE]
           v == [u EXCEPT !.armed = A]
<1>1. u \in Thread
  BY DEF Whole, OK
<1>2. A \in [Clients -> BOOLEAN] /\ \A d \in Clients \ {c} : A[d] = u.armed[d]
  BY <1>1 DEF Thread
<1> HIDE DEF A
<1>3. v \in Thread
  BY <1>1, <1>2 DEF Thread
<1>4. /\ v.nc = u.nc /\ v.rqst = u.rqst /\ v.ups = u.ups /\ v.outQ = u.outQ
      /\ v.sent = u.sent /\ v.busy = u.busy /\ v.clnt = u.clnt /\ v.inQ = u.inQ
      /\ v.detached = u.detached /\ v.content = u.content /\ v.nbqFree = u.nbqFree
      /\ v.orphan = u.orphan /\ v.brought = u.brought
      /\ v.armed = A /\ v.outputQ = u.outputQ
  BY <1>1 DEF Thread
<1> HIDE DEF v
<1>5. Whole(v)
  BY ONLY Whole(u), <1>3, <1>4, WholeSame
<1>6. Kept(u, v, c)
  BY <1>2, <1>4 DEF Kept
<1>7. Care(u, c, {c})
  BY NullAssumption DEF Care, Cared
<1>8. /\ v.nc[c] # "free" /\ v.rqst[c] # 0 => Cared(v, c, c)
      /\ u.rqst[c] # 0 /\ v.nc[c] # "free" /\ v.rqst[c] = 0 /\ u.outQ[c] \notin u.brought
           => v.sent[c] = "last"
  BY <1>4 DEF Cared
<1>9. Fine(u, v, c)
  BY ONLY c \in Clients, <1>5, <1>6, <1>7, <1>8, ServesOne
<1> QED
  BY <1>9 DEF v, A

-----------------------------------------------------------------------------
(* Theorems.                                                               *)

LEMMA SmallSet ==
  ASSUME NEW S, \A x, y \in S : x = y
  PROVE  Cardinality(S) = IF S = {} THEN 0 ELSE 1
<1>1. CASE S = {}
  BY <1>1, FS_EmptySet
<1>2. CASE S # {}
  <2>1. PICK x \in S : TRUE
    BY <1>2
  <2>2. S = {x}
    BY <2>1
  <2> QED
    BY <1>2, <2>2, FS_Singleton
<1> QED
  BY <1>1, <1>2

\* There are queues for all that a step needs.
LEMMA QueuesSuffice ==
  ASSUME Whole(t), QueuesLeft
  PROVE  t.nbqFree # {} /\ \A q : t.nbqFree \ {q} # {}
<1> DEFINE F == t.nbqFree
<1>1. Cardinality(F) > 1
  BY DEF QueuesLeft
<1> HIDE DEF F
<1>2. F # {}
  BY <1>1, FS_EmptySet
<1>3. ASSUME NEW q, F \ {q} = {} PROVE FALSE
  <2>1. F = {q}
    BY <1>2, <1>3
  <2>2. Cardinality({q}) = 1
    BY FS_Singleton
  <2> QED
    BY <1>1, <2>1, <2>2
<1> QED
  BY <1>2, <1>3 DEF F

\* A thread that was just started.
LEMMA InitOK == Init => IInv
<1> SUFFICES ASSUME Init PROVE IInv
  OBVIOUS
<1>1. 1 \in Nbqs /\ 0 \in 0 .. MaxRequests /\ Null \notin Nbqs
  BY SizesAssumption DEF Nbqs, Null
<1>2. /\ pc = "events" /\ writing = Null
      /\ t.nc = [c \in Clients |-> "free"] /\ t.rqst = [c \in Clients |-> 0]
      /\ t.ups = [c \in Clients |-> NoUps] /\ t.outQ = [c \in Clients |-> Null]
      /\ t.busy = {} /\ t.content = [q \in Nbqs |-> <<>>]
      /\ t.nbqFree = Nbqs \ {1} /\ t.orphan = 1 /\ t.brought = {}
  BY DEF Init
<1>3. t \in Thread
  <2> DEFINE a1 == [c \in Clients |-> "free"]
             a2 == [c \in Clients |-> 0]
             a3 == [c \in Clients |-> FALSE]
             a4 == [c \in Clients |-> NoUps]
             a5 == [c \in Clients |-> Null]
             a6 == [c \in Clients |-> "none"]
             b1 == [s \in Sessions |-> NoClient]
             b2 == [s \in Sessions |-> Null]
             b3 == [s \in Sessions |-> FALSE]
             e1 == [q \in Nbqs |-> <<>>]
  <2>1. /\ a1 \in [Clients -> {"free", "accepting", "connected"}]
        /\ a2 \in [Clients -> 0 .. MaxRequests] /\ a3 \in [Clients -> BOOLEAN]
        /\ a4 \in [Clients -> Upstreams] /\ a5 \in [Clients -> Nbqs \union {Null}]
        /\ a6 \in [Clients -> {"none", "part", "last"}]
        /\ b1 \in [Sessions -> Clients \union {NoClient}]
        /\ b2 \in [Sessions -> Nbqs \union {Null}] /\ b3 \in [Sessions -> BOOLEAN]
    BY <1>1, NoUpsIsOne
  <2>2. e1 \in [Nbqs -> Seq(Items)] /\ <<>> \in Seq(Clients)
    <3>1. <<>> \in Seq(Items) /\ <<>> \in Seq(Clients)
      OBVIOUS
    <3> QED
      BY <3>1
  <2>3. t = [nc |-> a1, rqst |-> a2, keep |-> a3, ups |-> a4, outQ |-> a5, armed |-> a3,
             sent |-> a6, busy |-> {}, clnt |-> b1, inQ |-> b2, detached |-> b3,
             content |-> e1, nbqFree |-> Nbqs \ {1}, orphan |-> 1,
             outputQ |-> <<>>, requests |-> 0, brought |-> {}]
    BY DEF Init
  <2> HIDE DEF a1, a2, a3, a4, a5, a6, b1, b2, b3, e1
  <2> QED
    BY <1>1, <2>1, <2>2, <2>3 DEF Thread
<1>4. Owners(t) = {}
  BY <1>2 DEF Owners
<1>5. \A c \in Clients : t.rqst[c] = 0 /\ t.outQ[c] = Null /\ t.ups[c] = NoUps
  BY <1>2
<1>6. /\ Single(t.nbqFree, t.orphan, t.outQ, {}, t.inQ, t.brought)
      /\ Filled(t.content, t.orphan, t.outQ, t.rqst, {}, t.inQ, t.brought)
  BY <1>1, <1>2, <1>5 DEF Single, Filled
<1>7. \A c \in Clients : ClientOK(t, {}, c)
  BY <1>5, NoRequestOK
<1>8. Whole(t)
  BY <1>2, <1>3, <1>4, <1>5, <1>6, <1>7 DEF Whole, OK
<1>9. Care(t, writing, {})
  BY <1>5 DEF Care
<1> QED
  BY <1>2, <1>8, <1>9 DEF IInv

\* Every step does what it should: one callback at a time.
LEMMA StepIsFine ==
  ASSUME IInv, Next
  PROVE  /\ pc' \in {"events", "output", "deq"} /\ writing' \in Clients \union {Null}
         /\ Fine(t, t', writing')
<1>1. /\ pc \in {"events", "output", "deq"} /\ writing \in Clients \union {Null}
      /\ Whole(t) /\ Care(t, writing, {})
  BY DEF IInv
<1>2. ASSUME writing' = writing, t' = t
      PROVE  Fine(t, t', writing')
  BY <1>1, <1>2 DEF Fine, Full
<1>3. ASSUME NEW c \in Clients, Accept(c)
      PROVE  pc' = pc /\ writing' = writing /\ Fine(t, t', writing')
  <2>1. t.nc[c] = "free" /\ t' = Opened(t, c) /\ pc' = pc /\ writing' = writing
    BY <1>3 DEF Accept
  <2>2. Fine(t, Opened(t, c), writing)
    BY ONLY c \in Clients, <1>1, <2>1, OpenedOK
  <2> QED
    BY <2>1, <2>2
<1>4. ASSUME NEW c \in Clients, Request(c)
      PROVE  pc' = pc /\ writing' = writing /\ Fine(t, t', writing')
  <2>1. t.rqst[c] = 0 /\ t.requests < MaxRequests /\ QueuesLeft /\ pc' = pc /\ writing' = writing
    BY <1>4 DEF Request
  <2>2. PICK keep \in BOOLEAN : t' \in RequestRead(t, c, keep)
    BY <1>4 DEF Request
  <2>3. t.nbqFree # {}
    BY ONLY <1>1, <2>1, QueuesSuffice
  <2>4. Fine(t, t', writing)
    BY ONLY c \in Clients, <1>1, <2>1, <2>2, <2>3, RequestReadOK
  <2> QED
    BY <2>1, <2>4
<1>5. ASSUME NEW c \in Clients, t' = TornDown(t, c), writing' = writing
      PROVE  Fine(t, t', writing')
  <2> DEFINE v == TornDown(t, c)
  <2>1. Whole(v) /\ Kept(t, v, c) /\ v.nc[c] = "free"
    BY ONLY c \in Clients, <1>1, TornDownOK
  <2> HIDE DEF v
  <2>2. Fine(t, v, writing)
    BY ONLY c \in Clients, <1>1, <2>1, ServesOne
  <2> QED
    BY <1>5, <2>2 DEF v
<1>6. ASSUME NEW c \in Clients, ClntWritable(c)
      PROVE  pc' = pc /\ writing' = c /\ Fine(t, t', writing')
  <2>1. writing = Null /\ writing' = c /\ pc' = pc /\ t' = [t EXCEPT !.armed[c] = FALSE]
    BY <1>6 DEF ClntWritable, EventFor
  <2>2. Fine(t, [t EXCEPT !.armed[c] = FALSE], c)
    BY ONLY c \in Clients, <1>1, <2>1, WritableOK
  <2> QED
    BY <2>1, <2>2
<1>7. ASSUME NEW c \in Clients, Start(c)
      PROVE  pc' = pc /\ writing' = writing /\ Fine(t, t', writing')
  <2>1. t.ups[c].subr = "queued" /\ QueuesLeft /\ pc' = pc /\ writing' = writing
    BY <1>7 DEF Start
  <2>2. t.nbqFree # {} /\ \A q : t.nbqFree \ {q} # {}
    BY ONLY <1>1, <2>1, QueuesSuffice
  <2>3. CASE t' = ErrorCb(t, c)
    <3>1. Fine(t, ErrorCb(t, c), writing)
      BY ONLY c \in Clients, <1>1, <2>1, <2>2, NotStartedOK
    <3> QED
      BY <2>1, <2>3, <3>1
  <2>4. ASSUME NEW s \in Sessions \ t.busy,
               t' = Started(t, c, s) \/ t' = TornDownError(Started(t, c, s), s)
        PROVE  Fine(t, t', writing)
    <3>1. Fine(t, Started(t, c, s), writing)
          /\ Fine(t, TornDownError(Started(t, c, s), s), writing)
      BY ONLY c \in Clients, s \in Sessions \ t.busy, <1>1, <2>1, <2>2, StartOK
    <3> QED
      BY <2>4, <3>1
  <2> QED
    BY <1>7, <2>1, <2>3, <2>4 DEF Start
<1>8. ASSUME NEW s \in t.busy, t.nbqFree # {}, writing' = writing,
             \/ t' = DataRead(t, s) \/ t' \in ResponseRead(t, s) \/ t' \in EofRead(t, s)
             \/ t' = TornDownError(t, s)
      PROVE  Fine(t, t', writing')
  <2> DEFINE c == t.clnt[s]
  <2>1. c \in Clients
    BY ONLY s \in t.busy, <1>1, OneWorker
  <2>2. Back(t, t', c)
    <3>1. CASE t' = DataRead(t, s)
      <4>1. Back(t, DataRead(t, s), t.clnt[s])
        BY ONLY s \in t.busy, <1>1, DataReadOK
      <4> QED
        BY <3>1, <4>1
    <3>2. CASE t' \in ResponseRead(t, s)
      BY ONLY s \in t.busy, <1>1, <3>2, ResponseReadOK DEF c
    <3>3. CASE t' \in EofRead(t, s)
      BY ONLY s \in t.busy, <1>1, <3>3, EofReadOK DEF c
    <3>4. CASE t' = TornDownError(t, s)
      <4>1. Back(t, TornDownError(t, s), t.clnt[s])
        BY ONLY s \in t.busy, <1>1, <1>8, UpsFailedOK
      <4> QED
        BY <3>4, <4>1
    <3> QED
      BY <1>8, <3>1, <3>2, <3>3, <3>4
  <2> HIDE DEF c
  <2>3. Fine(t, t', writing)
    BY ONLY <1>1, <2>1, <2>2, BackIsFine
  <2> QED
    BY <1>8, <2>3
<1>9. ASSUME NEW s \in Sessions, UpsEvent(s)
      PROVE  pc' = pc /\ writing' = writing /\ Fine(t, t', writing')
  <2>1. /\ s \in t.busy /\ QueuesLeft /\ pc' = pc /\ writing' = writing
        /\ \/ t' = DataRead(t, s) \/ t' \in ResponseRead(t, s) \/ t' \in EofRead(t, s)
           \/ t' = TornDownError(t, s)
    BY <1>9 DEF UpsEvent
  <2>2. t.nbqFree # {}
    BY ONLY <1>1, <2>1, QueuesSuffice
  <2> QED
    BY <1>8, <2>1, <2>2
<1>10. ASSUME NEW s \in Sessions, UpsTimeout(s)
       PROVE  pc' = "output" /\ writing' = writing /\ Fine(t, t', writing')
  <2>1. /\ s \in t.busy /\ QueuesLeft /\ pc' = "output" /\ writing' = writing
        /\ t' = TornDownError(t, s)
    BY <1>10 DEF UpsTimeout, TimerOnly
  <2>2. t.nbqFree # {}
    BY ONLY <1>1, <2>1, QueuesSuffice
  <2> QED
    BY <1>8, <2>1, <2>2
<1>11. ASSUME WriteTurn
       PROVE  pc' = pc /\ writing' \in Clients \union {Null} /\ Fine(t, t', writing')
  <2> DEFINE c == writing
             x == Refilled(t, c)
             items == IF x.outQ[c] = Null THEN <<>> ELSE x.content[x.outQ[c]]
             z == Adopted(Sent(x, c, Len(items)), c)
  <2>1. c \in Clients /\ QueuesLeft /\ pc' = pc
    BY <1>1, <1>11 DEF WriteTurn
  <2>2. t.nbqFree # {}
    BY ONLY <1>1, <2>1, QueuesSuffice
  <2>3. /\ Fine(t, TornDown(x, c), Null)
        /\ \A k \in 0 .. Len(items) - 1 : Fine(t, AgainLeft(Sent(x, c, k), c), Null)
        /\ Finished(z, c) => Fine(t, Answered(z, c), Null)
        /\ ~Finished(z, c) => Fine(t, z, IF items = <<>> THEN Null ELSE c)
    BY ONLY <1>1, <2>1, <2>2, WriteTurnOK
  <2>4. \/ t' = TornDown(x, c) /\ writing' = Null
        \/ \E k \in 0 .. Len(items) - 1 :
             t' = AgainLeft(Sent(x, c, k), c) /\ writing' = Null
        \/ Finished(z, c) /\ t' = Answered(z, c) /\ writing' = Null
        \/ ~Finished(z, c) /\ t' = z /\ writing' = IF items = <<>> THEN Null ELSE c
    BY <1>11 DEF WriteTurn
  <2> HIDE DEF x, items, z
  <2> QED
    BY <2>1, <2>3, <2>4
<1>12. ASSUME Dequeue
       PROVE  pc' = pc /\ writing' \in Clients \union {Null} /\ Fine(t, t', writing')
  <2> DEFINE v == [t EXCEPT !.outputQ = Tail(@)]
             w == IF t.nc[Head(t.outputQ)] = "free" THEN Null ELSE Head(t.outputQ)
  <2>1. /\ writing = Null /\ t.outputQ # <<>> /\ pc' = pc /\ t' = v /\ writing' = w
    BY <1>12 DEF Dequeue
  <2>2. Head(t.outputQ) \in Clients /\ Fine(t, v, w)
    BY ONLY <1>1, <2>1, DequeueOK
  <2> QED
    BY <2>1, <2>2
<1>13. ASSUME EventsEnd \/ OutputEnds \/ DeqEnds
       PROVE  /\ pc' \in {"events", "output", "deq"} /\ writing' = writing
              /\ Fine(t, t', writing')
  BY <1>2, <1>13 DEF EventsEnd, OutputEnds, DeqEnds
<1>14. ASSUME NEW c \in Clients, ClntGone(c) \/ ClntTimeout(c)
       PROVE  /\ pc' \in {"events", "output", "deq"} /\ writing' = writing
              /\ Fine(t, t', writing')
  BY <1>1, <1>5, <1>14 DEF ClntGone, ClntTimeout, TimerOnly
<1> QED
  BY <1>1, <1>3, <1>4, <1>6, <1>7, <1>9, <1>10, <1>11, <1>12, <1>13, <1>14 DEF Next

\* The inductive invariant holds: between two callbacks every client and every
\* session is as it should be.
THEOREM Invariance == Spec => []IInv
<1>1. Init => IInv
  BY InitOK
<1>2. IInv /\ [Next]_vars => IInv'
  <2> SUFFICES ASSUME IInv, [Next]_vars PROVE IInv'
    OBVIOUS
  <2>1. CASE Next
    BY <2>1, StepIsFine DEF IInv, Fine
  <2>2. CASE UNCHANGED vars
    BY <2>2 DEF IInv, vars
  <2> QED
    BY <2>1, <2>2
<1> QED
  BY <1>1, <1>2, PTL DEF Spec

\* A client that waits for a response is in somebody's care (but for the two
\* responses that the code leaves behind).
THEOREM ClientsAreInCare == Spec => []InCare
<1>1. IInv => InCare
  <2> SUFFICES ASSUME IInv, NEW c \in Answering
               PROVE  \/ c \in RangeOf(t.outputQ) \/ writing = c \/ t.armed[c]
                      \/ t.ups[c].subr = "queued"
                      \/ t.ups[c].subr = "active" /\ ~UpsDone(t, c)
                      \/ t.ups[c].cut
                      \/ t.ups[c].kind = "file" /\ t.ups[c].left = 0 /\ t.sent[c] = "none"
    BY DEF InCare
  <2>1. c \in Clients /\ t.nc[c] # "free" /\ t.rqst[c] # 0
    BY DEF Answering, Open
  <2>2. Cared(t, writing, c) /\ ClientOK(t, t.busy, c)
    BY <2>1 DEF IInv, Care, Whole, OK
  <2> QED
    BY <2>2 DEF Cared, ClientOK, UpsDone
<1> QED
  BY <1>1, Invariance, PTL

\* A queue has one user at a time, unless a session brought it along from the
\* pool of sessions.
THEOREM QueuesHaveOneUser == Spec => []OneUserPerQueue
<1>1. IInv => OneUserPerQueue
  <2> SUFFICES ASSUME IInv PROVE OneUserPerQueue
    OBVIOUS
  <2>1. /\ t \in Thread
        /\ Single(t.nbqFree, t.orphan, t.outQ, Owners(t), t.inQ, t.brought)
        /\ t.busy \subseteq Sessions
    BY DEF IInv, Whole, OK
  <2>2. TypeOK
    <3>1. \A c \in Clients : t.ups[c] \in Upstreams
      BY <2>1 DEF Thread
    <3>2. \A c \in Clients : t.ups[c].left \in Nat
      BY <3>1 DEF Upstreams
    <3> QED
      BY <2>1, <3>2 DEF TypeOK, IInv, Thread
  <2>3. ASSUME NEW q \in Nbqs \ t.brought PROVE NumUsers(q) <= 1
    <3> DEFINE C == {c \in Clients : t.outQ[c] = q}
               S == {s \in Owners(t) : t.inQ[s] = q}
               f == q \in t.nbqFree
               o == q = t.orphan
    <3>1. q # Null
      BY DEF Nbqs, Null
    <3>2. (\A c, d \in C : c = d) /\ (\A r, s \in S : r = s)
      BY <2>1, <3>1 DEF Single
    <3>3. /\ f => ~o /\ C = {} /\ S = {}
          /\ o => C = {} /\ S = {}
          /\ C = {} \/ S = {}
      BY <2>1 DEF Single
    <3>4. NumUsers(q) = Cardinality(C) + Cardinality(S) + (IF f THEN 1 ELSE 0)
                        + (IF o THEN 1 ELSE 0)
      <4>1. S = {s \in t.busy : t.inQ[s] = q /\ ~(t.ups[t.clnt[s]].state = "sending")}
        BY DEF Owners
      <4> HIDE DEF S
      <4> QED
        BY <4>1 DEF NumUsers, Users
    <3> HIDE DEF C, S, f, o
    <3>5. /\ Cardinality(C) = IF C = {} THEN 0 ELSE 1
          /\ Cardinality(S) = IF S = {} THEN 0 ELSE 1
      BY <3>2, SmallSet
    <3> QED
      BY <3>3, <3>4, <3>5
  <2> QED
    BY <2>2, <2>3 DEF OneUserPerQueue
<1> QED
  BY <1>1, Invariance, PTL

\* No client is sent what was meant for another one, or for an earlier request.
THEOREM ResponsesAreOwn == Spec => []OwnResponse
<1>1. IInv => OwnResponse
  <2>1. IInv => Filled(t.content, t.orphan, t.outQ, t.rqst,
                       Owners(t) \intersect t.busy, t.inQ, t.brought)
    BY DEF IInv, Whole, OK
  <2> QED
    BY <2>1 DEF Filled, OwnResponse, RangeOf, Open
<1> QED
  BY <1>1, Invariance, PTL

\* A session in flight works for a client that waits for it.
THEOREM SessionsHaveTheirClient == Spec => []WorksForClient
<1>1. IInv => WorksForClient
  <2>1. IInv => \A s \in t.busy : SessionOK(t, s)
    BY DEF IInv, Whole, OK
  <2> QED
    BY <2>1 DEF SessionOK, WorksForClient, Answering, Open
<1> QED
  BY <1>1, Invariance, PTL

\* A connection is kept for the next request only after the last piece of the
\* response was sent.
THEOREM ResponsesAreSentInFull == Spec => KeptWhenAnswered
<1>1. IInv /\ [Next]_vars =>
        [\A c \in Answering :
           t'.nc[c] # "free" /\ t'.rqst[c] = 0 /\ t.outQ[c] \notin t.brought
             => t'.sent[c] = "last"]_vars
  <2> SUFFICES ASSUME IInv, Next
               PROVE  \A c \in Answering :
                        t'.nc[c] # "free" /\ t'.rqst[c] = 0 /\ t.outQ[c] \notin t.brought
                          => t'.sent[c] = "last"
    OBVIOUS
  <2>1. Full(t, t')
    BY StepIsFine DEF Fine
  <2> QED
    BY <2>1 DEF Full, Answering, Open
<1> QED
  BY <1>1, Invariance, PTL DEF Spec, KeptWhenAnswered

=============================================================================
