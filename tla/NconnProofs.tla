---------------------------- MODULE NconnProofs -----------------------------
(***************************************************************************)
(* Proofs about a connection in its event queue (module Nconn): for every  *)
(* size of the send buffer, of messages and of handshakes, the event that  *)
(* the connection needs next is not lost, a descriptor is open exactly     *)
(* while it is registered and has a user, and the server closes on a       *)
(* client only with reason.                                                *)
(*                                                                         *)
(* With edge-triggered events all depends on the events that a descriptor  *)
(* waits for: ModFd reports what is there already, and the kernel reports  *)
(* what comes later, but only of these.  So the invariant says which they  *)
(* are in each state of a connection, and that whatever the connection     *)
(* needs, and is there, is on the ready list or has its callback in this   *)
(* batch.                                                                  *)
(***************************************************************************)
EXTENDS Nconn, TLAPS

-----------------------------------------------------------------------------
(* The inductive invariant.                                                *)

Roles == {"clnt", "ups"}

\* The members have the types of their declarations.
Conn ==
  [nc : {"free", "accepting", "connecting", "connected"},
   role : Roles, tls : BOOLEAN, evr : BOOLEAN,
   sess : {"none", "flight", "waiting", "busy", "sending"},
   out : 0 .. MaxOut, hs : 0 .. 2, hsOut : 0 .. Flight,
   mask : SUBSET {"in", "out", "rdhup"}, armed : BOOLEAN,
   est : {"none", "syn", "up", "bad"}, rcv : 0 .. Parts, snd : 0 .. Room,
   fin : BOOLEAN, flight : 0 .. Flight, hsIn : 0 .. 1, owes : 0 .. Parts,
   blocked : BOOLEAN]

\* A connection of a client before it may send requests.
Accepts(u) ==
  /\ u.nc = "accepting" /\ u.role = "clnt" /\ u.est = "up"
  /\ u.sess = "waiting" /\ u.out = 0
  /\ ~u.tls => u.hs = 0 /\ u.hsOut = 0 /\ u.mask = Reading
  /\ u.tls => \/ u.hs = 2 /\ u.hsOut = 0 /\ u.mask = Reading \union {"out"}
              \/ u.hsOut > 0 /\ u.mask = {"out", "rdhup"}
              \/ u.hs > 0 /\ u.hsOut = 0 /\ u.mask = Reading

\* A connection to a server before it may send one.
Connects(u) ==
  /\ u.nc = "connecting" /\ u.role = "ups" /\ u.sess = "flight"
  /\ u.hs < 2 /\ u.rcv = 0 /\ ~u.blocked
  /\ \/ /\ u.hs = 0 /\ u.hsOut = 0 /\ u.snd = 0
        /\ u.est \in {"syn", "up", "bad"} /\ u.mask = {"out"}
     \/ /\ u.hs + u.hsOut > 0 /\ u.est = "up"
        /\ u.mask = IF u.hsOut > 0 THEN {"out"} ELSE Reading

\* A connection of a client that sends requests, one at a time.
Serves(u) ==
  /\ u.nc = "connected" /\ u.role = "clnt" /\ u.est = "up"
  /\ u.hs = 0 /\ u.hsOut = 0
  /\ u.sess \in {"waiting", "busy", "sending"}
  /\ u.sess # "waiting" => u.rcv = 0
  /\ IF u.sess = "sending"
     THEN u.out > 0 /\ u.mask = {"out"} \union IF u.tls THEN {} ELSE {"rdhup"}
     ELSE u.out = 0 /\ u.mask = Reading

\* A connection to a server, in flight or idle.  Once it had to wait for room
\* it waits for it for good, but over TLS it is set back by a read.
Flies(u) ==
  /\ u.nc = "connected" /\ u.role = "ups" /\ u.est = "up"
  /\ u.hs = 0 /\ u.hsOut = 0
  /\ u.sess \in {"flight", "none"}
  /\ u.sess = "none" => u.rcv = 0 /\ u.owes = 0
  /\ ~u.blocked => u.out = 0 /\ u.mask = Reading
  /\ u.blocked /\ ~u.tls => u.mask = {"out", "rdhup"}
  /\ u.blocked /\ u.tls => \/ u.mask = Reading /\ u.out = 0
                           \/ u.mask = {"out"} /\ u.sess = "flight"

\* A connection in one of its states.
Settled(u) ==
  /\ u \in Conn /\ u.evr
  /\ u.rcv + u.owes <= Parts
  /\ u.role = "clnt" => u.owes = 0
  /\ u.hsIn > 0 => u.hs > 0 /\ u.hsOut = 0
  /\ Accepts(u) \/ Connects(u) \/ Serves(u) \/ Flies(u)

\* Needs, with the event that ends an attempt to connect.
Wants(u) ==
  IF u.nc = "connecting" /\ u.hs + u.hsOut = 0 THEN {"out"}
  ELSE IF u.nc # "connected" THEN IF u.hsOut > 0 THEN {"out"} ELSE {"in"}
  ELSE IF u.sess = "none" THEN {"in"}
  ELSE IF u.out > 0 THEN {"out"}
  ELSE IF u.role = "ups" /\ u.blocked THEN {}
  ELSE {"in"}

\* What the connection u wants is not there, or u is on the ready list, or the
\* callback for it is among those in p.
Covered(u, p) ==
  /\ "in" \in Wants(u) \intersect Level(u) => u.armed \/ "read" \in p
  /\ "out" \in Wants(u) \intersect Level(u) => u.armed \/ "write" \in p

\* The callbacks in p are none that the connection u cannot take: one that
\* would set a TLS connection back to reading while it waits for room, and one
\* that would find a client's connection writable with nothing to write.
Fitting(u, p) ==
  /\ u.tls /\ u.nc = "connected" /\ u.out > 0 => "read" \notin p
  /\ u.role = "clnt" /\ "write" \in p =>
       \/ u.fin
       \/ u.nc = "connected" /\ u.sess = "sending"
       \/ u.nc = "accepting" /\ u.tls /\ ("read" \in p => u.hs = 2)

Good(u, p) ==
  /\ u.nc = "free" => u.role \in Roles /\ u = [Closed EXCEPT !.role = u.role]
  /\ u.nc # "free" => Settled(u) /\ Covered(u, p) /\ Fitting(u, p)

IInv ==
  /\ pc \in {"poll", "batch", "run"} /\ cb \subseteq {"read", "write"}
  /\ pc # "batch" => cb = {}
  /\ Good(x, cb)

-----------------------------------------------------------------------------
(* The events of the kernel.                                               *)

LEMMA Sizes ==
  /\ Room \in Nat \ {0} /\ MaxOut \in Nat \ {0}
  /\ Parts \in Nat \ {0} /\ Flight \in Nat \ {0}
BY SizesAssumption

LEMMA LevelIs ==
  ASSUME NEW u
  PROVE  /\ Level(u) \subseteq {"in", "out", "rdhup", "err"}
         /\ "in" \in Level(u) <=> u.rcv + u.hsIn > 0 \/ u.fin
         /\ "out" \in Level(u) <=> u.est = "bad" \/ (u.est = "up" /\ u.snd < Room)
         /\ "rdhup" \in Level(u) <=> u.fin
         /\ "err" \in Level(u) <=> u.est = "bad"
<1>1. /\ "in" \in {"in", "out", "rdhup", "err"} /\ "out" \in {"in", "out", "rdhup", "err"}
      /\ "rdhup" \in {"in", "out", "rdhup", "err"} /\ "err" \in {"in", "out", "rdhup", "err"}
      /\ "in" # "out" /\ "in" # "rdhup" /\ "in" # "err" /\ "out" # "rdhup"
      /\ "out" # "err" /\ "rdhup" # "err"
  OBVIOUS
<1> QED
  BY <1>1 DEF Level

\* What is reported of u is on the ready list.
Listening(u) == Reported(u) # {} => u.armed

\* Other events are waited for, and what is there is reported.
LEMMA ModFdIs ==
  ASSUME NEW u \in Conn, u.evr, NEW m \in SUBSET {"in", "out", "rdhup"}
  PROVE  \E a \in BOOLEAN :
           /\ ModFd(u, m) = [u EXCEPT !.mask = m, !.armed = a]
           /\ u.armed => a
           /\ Listening(ModFd(u, m))
<1> DEFINE v == [u EXCEPT !.mask = m]
           a == u.armed \/ Reported(v) # {}
           w == [u EXCEPT !.mask = m, !.armed = a]
<1>1. /\ v = [v EXCEPT !.nc = v.nc] /\ v.armed = u.armed /\ u.armed \in BOOLEAN
      /\ v.mask = m
  BY DEF Conn
<1>2. ModFd(u, m) = w
  BY DEF ModFd, Conn
<1>3. Reported(w) = Reported(v)
  <2>1. /\ w.rcv = v.rcv /\ w.hsIn = v.hsIn /\ w.fin = v.fin /\ w.est = v.est
        /\ w.snd = v.snd /\ w.mask = v.mask
    BY DEF Conn
  <2> QED
    BY <2>1 DEF Reported, Level
<1>4. w.armed = a
  BY DEF Conn
<1>5. Listening(w)
  BY <1>3, <1>4 DEF Listening
<1> QED
  BY <1>2, <1>5

\* The descriptor waits for the event that the connection wants: for the end of
\* the connection, at least, where there is nothing to be read.
LEMMA WantsMask ==
  ASSUME NEW u, Settled(u)
  PROVE  /\ "in" \in Wants(u) => \/ "in" \in u.mask
                                 \/ u.rcv = 0 /\ u.hsIn = 0 /\ "rdhup" \in u.mask
         /\ "out" \in Wants(u) => "out" \in u.mask
<1>1. /\ u.est \in {"none", "syn", "up", "bad"} /\ u.snd \in 0 .. Room /\ u.rcv \in 0 .. Parts
      /\ u.hsIn \in 0 .. 1 /\ u.hs \in 0 .. 2 /\ u.hsOut \in 0 .. Flight
      /\ u.fin \in BOOLEAN /\ u.tls \in BOOLEAN /\ u.blocked \in BOOLEAN
      /\ u.out \in 0 .. MaxOut
  BY DEF Settled, Conn
<1>2. "in" \in Wants(u) => \/ "in" \in u.mask
                           \/ u.rcv = 0 /\ u.hsIn = 0 /\ "rdhup" \in u.mask
  BY <1>1, Sizes DEF Settled, Accepts, Connects, Serves, Flies, Wants, Reading
<1>3. "out" \in Wants(u) => "out" \in u.mask
  BY <1>1, Sizes DEF Settled, Accepts, Connects, Serves, Flies, Wants, Reading
<1> QED
  BY <1>2, <1>3

\* Who listens to the events that its state needs misses none.
LEMMA ListeningCovers ==
  ASSUME NEW u, Settled(u), Listening(u), NEW p
  PROVE  Covered(u, p)
<1>1. u.rcv \in 0 .. Parts /\ u.hsIn \in 0 .. 1
  BY DEF Settled, Conn
<1>2. "in" \in Wants(u) => \/ "in" \in u.mask
                           \/ u.rcv = 0 /\ u.hsIn = 0 /\ "rdhup" \in u.mask
  BY WantsMask
<1>3. "out" \in Wants(u) => "out" \in u.mask
  BY WantsMask
<1>4. ASSUME "in" \in Wants(u) \intersect Level(u) PROVE u.armed
  <2>1. "in" \in Reported(u) \/ "rdhup" \in Reported(u)
    <3>1. u.rcv = 0 /\ u.hsIn = 0 => u.fin
      BY <1>1, <1>4, LevelIs
    <3> QED
      BY <1>2, <1>4, <3>1, LevelIs DEF Reported
  <2> QED
    BY <2>1 DEF Listening
<1>5. ASSUME "out" \in Wants(u) \intersect Level(u) PROVE u.armed
  BY <1>3, <1>5 DEF Listening, Reported
<1> QED
  BY <1>4, <1>5 DEF Covered

-----------------------------------------------------------------------------
(* The handshake.                                                          *)

\* One turn of it.  It is not over after the first message of two; it fails
\* only when the connection was closed; else the descriptor waits for room
\* or for the peer.
HandsAt(u, r, k, o, s, m, a) ==
  /\ r.u = [u EXCEPT !.hs = k, !.hsOut = o, !.hsIn = 0, !.snd = s, !.mask = m,
                     !.armed = a]
  /\ k <= u.hs
  /\ r.st # "error" => Listening(r.u)
  /\ r.st = "again" =>
       \/ o > 0 /\ m = {"out"} \union IF u.role = "clnt" THEN {"rdhup"} ELSE {}
       \/ o = 0 /\ k > 0 /\ m = Reading
  /\ r.st = "ok" => k = 0 /\ o = 0 /\ m = Reading /\ u.hs < 2
  /\ r.st = "error" => u.fin

HandsLeave(u, r) ==
  /\ r.st \in {"again", "ok", "error"}
  /\ \E k \in 0 .. 2, o \in 0 .. Flight, s \in 0 .. Room,
        m \in SUBSET {"in", "out", "rdhup"}, a \in BOOLEAN : HandsAt(u, r, k, o, s, m, a)

LEMMA TurnType ==
  ASSUME NEW u \in Conn, NEW k \in 0 .. 2, NEW o \in 0 .. Flight, NEW i \in 0 .. 1,
         NEW s \in 0 .. Room
  PROVE  [u EXCEPT !.hs = k, !.hsOut = o, !.hsIn = i, !.snd = s] \in Conn
BY DEF Conn

LEMMA FlushedIs ==
  ASSUME NEW u \in Conn
  PROVE  \E o \in 0 .. Flight, s \in 0 .. Room :
           Flushed(u) = [u EXCEPT !.hsOut = o, !.snd = s] /\ o <= u.hsOut
<1> DEFINE k == Min2(u.hsOut, Room - u.snd)
<1>1. u.hsOut \in 0 .. Flight /\ u.snd \in 0 .. Room
  BY DEF Conn
<1>2. /\ u.hsOut - k \in 0 .. Flight /\ u.snd + k \in 0 .. Room
      /\ u.hsOut - k <= u.hsOut
  BY <1>1, Sizes DEF Min2
<1> HIDE DEF k
<1>3. Flushed(u) = [u EXCEPT !.hsOut = u.hsOut - k, !.snd = u.snd + k]
  BY DEF Flushed, Conn, k
<1> QED
  BY <1>2, <1>3

LEMMA ShakenIs ==
  ASSUME NEW u \in Conn, u.hsIn > 0 => u.hs > 0 /\ u.hsOut = 0
  PROVE  \E k \in 0 .. 2, o \in 0 .. Flight, s \in 0 .. Room :
           /\ Shaken(u) = [u EXCEPT !.hs = k, !.hsOut = o, !.hsIn = 0, !.snd = s]
           /\ k <= u.hs
           /\ u.hs = 2 => k > 0
<1>1. PICK o1 \in 0 .. Flight, s1 \in 0 .. Room :
        Flushed(u) = [u EXCEPT !.hsOut = o1, !.snd = s1] /\ o1 <= u.hsOut
  BY FlushedIs
<1> DEFINE v == [u EXCEPT !.hsOut = o1, !.snd = s1]
<1>2. /\ u.hs \in 0 .. 2 /\ u.hsOut \in 0 .. Flight /\ u.hsIn \in 0 .. 1
      /\ u.flight \in 0 .. Flight
      /\ v.hs = u.hs /\ v.hsOut = o1 /\ v.hsIn = u.hsIn /\ v.flight = u.flight
      /\ v \in Conn
  BY DEF Conn
<1>3. CASE o1 = 0 /\ u.hs > 0 /\ u.hsIn > 0
  <2> DEFINE n == IF u.hs = 2 THEN u.flight ELSE 0
             w == [u EXCEPT !.hs = u.hs - 1, !.hsOut = n, !.hsIn = 0, !.snd = s1]
  <2>1. /\ n \in 0 .. Flight /\ u.hs - 1 \in 0 .. 2 /\ u.hsIn - 1 = 0
        /\ u.hs - 1 <= u.hs
        /\ u.hs = 2 => u.hs - 1 > 0
    BY <1>2, <1>3, Sizes
  <2> HIDE DEF n
  <2>2. w \in Conn
    <3>1. 0 \in 0 .. 1 /\ s1 \in 0 .. Room
      BY <1>1
    <3> QED
      BY <2>1, <3>1, TurnType
  <2>3. [v EXCEPT !.hs = u.hs - 1, !.hsIn = u.hsIn - 1, !.hsOut = n] = w
    BY <2>1 DEF Conn
  <2>4. Shaken(u) = Flushed(w)
    <3>1. Shaken(u) = Flushed([v EXCEPT !.hs = u.hs - 1, !.hsIn = u.hsIn - 1, !.hsOut = n])
      BY <1>1, <1>2, <1>3 DEF Shaken, n
    <3> QED
      BY <2>3, <3>1
  <2>5. ASSUME NEW p, NEW q
        PROVE  [w EXCEPT !.hsOut = p, !.snd = q]
                 = [u EXCEPT !.hs = u.hs - 1, !.hsOut = p, !.hsIn = 0, !.snd = q]
    BY DEF Conn
  <2> HIDE DEF w
  <2>6. PICK p \in 0 .. Flight, q \in 0 .. Room : Flushed(w) = [w EXCEPT !.hsOut = p, !.snd = q]
    BY <2>2, FlushedIs
  <2>7. Shaken(u) = [u EXCEPT !.hs = u.hs - 1, !.hsOut = p, !.hsIn = 0, !.snd = q]
    BY <2>4, <2>5, <2>6
  <2> QED
    BY <2>1, <2>7
<1>4. CASE ~(o1 = 0 /\ u.hs > 0 /\ u.hsIn > 0)
  <2>1. u.hsIn = 0
    BY <1>1, <1>2, <1>4
  <2>2. Shaken(u) = v
    BY <1>1, <1>2, <1>4 DEF Shaken
  <2>3. v = [u EXCEPT !.hs = u.hs, !.hsOut = o1, !.hsIn = 0, !.snd = s1]
    BY <2>1 DEF Conn
  <2>4. u.hs <= u.hs /\ (u.hs = 2 => u.hs > 0)
    BY <1>2
  <2> HIDE DEF v
  <2>5. Shaken(u) = [u EXCEPT !.hs = u.hs, !.hsOut = o1, !.hsIn = 0, !.snd = s1]
    BY <2>2, <2>3
  <2> QED
    BY <1>2, <2>4, <2>5
<1> QED
  BY <1>3, <1>4

LEMMA HandsIs ==
  ASSUME NEW u \in Conn, u.evr, u.hsIn > 0 => u.hs > 0 /\ u.hsOut = 0
  PROVE  HandsLeave(u, Hands(u))
<1>1. PICK k \in 0 .. 2, o \in 0 .. Flight, s \in 0 .. Room :
        /\ Shaken(u) = [u EXCEPT !.hs = k, !.hsOut = o, !.hsIn = 0, !.snd = s]
        /\ k <= u.hs /\ (u.hs = 2 => k > 0)
  BY ShakenIs
<1> DEFINE v == [u EXCEPT !.hs = k, !.hsOut = o, !.hsIn = 0, !.snd = s]
           M == {"out"} \union IF u.role = "clnt" THEN {"rdhup"} ELSE {}
           w(m, a) == [u EXCEPT !.hs = k, !.hsOut = o, !.hsIn = 0, !.snd = s, !.mask = m,
                                !.armed = a]
<1>2. /\ v \in Conn /\ v.evr /\ v.hsOut = o /\ v.hs = k /\ v.role = u.role
      /\ v.fin = u.fin /\ v.hsIn = 0 /\ u.hs \in 0 .. 2
      /\ u.mask \in SUBSET {"in", "out", "rdhup"} /\ u.armed \in BOOLEAN
  <2>1. v \in Conn
    <3>1. 0 \in 0 .. 1 /\ k \in 0 .. 2 /\ o \in 0 .. Flight /\ s \in 0 .. Room
      BY <1>1
    <3> HIDE DEF v
    <3> QED
      BY <3>1, TurnType DEF v
  <2>2. /\ v.evr = u.evr /\ v.hsOut = o /\ v.hs = k /\ v.role = u.role
        /\ v.fin = u.fin /\ v.hsIn = 0
    BY DEF Conn
  <2>3. /\ u.mask \in SUBSET {"in", "out", "rdhup"} /\ u.armed \in BOOLEAN
        /\ u.hs \in 0 .. 2
    BY DEF Conn
  <2> QED
    BY <2>1, <2>2, <2>3
<1>3. M \in SUBSET {"in", "out", "rdhup"} /\ Reading \in SUBSET {"in", "out", "rdhup"}
  BY DEF Reading
<1>4. /\ \A m, a : [v EXCEPT !.mask = m, !.armed = a] = w(m, a)
      /\ v = w(u.mask, u.armed)
  <2>1. ASSUME NEW m, NEW a PROVE [v EXCEPT !.mask = m, !.armed = a] = w(m, a)
    BY DEF Conn
  <2>2. v = w(u.mask, u.armed)
    BY DEF Conn
  <2> QED
    BY <2>1, <2>2
<1>5. Hands(u) =
        IF o > 0 THEN [st |-> "again", u |-> ModFd(v, M)]
        ELSE IF k = 0 THEN [st |-> "ok", u |-> ModFd(v, Reading)]
        ELSE IF u.fin THEN [st |-> "error", u |-> v]
        ELSE [st |-> "again", u |-> ModFd(v, Reading)]
  BY <1>1, <1>2 DEF Hands
<1> HIDE DEF v, w
<1>6. ASSUME NEW m \in SUBSET {"in", "out", "rdhup"}
      PROVE  \E a \in BOOLEAN : ModFd(v, m) = w(m, a) /\ Listening(ModFd(v, m))
  <2>1. PICK a \in BOOLEAN : /\ ModFd(v, m) = [v EXCEPT !.mask = m, !.armed = a]
                             /\ v.armed => a
                             /\ Listening(ModFd(v, m))
    BY <1>2, ModFdIs
  <2> QED
    BY <1>4, <2>1
<1>7. CASE o > 0
  <2>1. Hands(u).st = "again" /\ Hands(u).u = ModFd(v, M)
    BY <1>5, <1>7
  <2>2. PICK a \in BOOLEAN : ModFd(v, M) = w(M, a) /\ Listening(ModFd(v, M))
    BY <1>3, <1>6
  <2>3. HandsAt(u, Hands(u), k, o, s, M, a)
    BY <1>1, <1>7, <2>1, <2>2 DEF HandsAt, w
  <2> QED
    BY <1>3, <2>1, <2>3 DEF HandsLeave
<1>8. CASE o = 0 /\ k = 0
  <2>1. Hands(u).st = "ok" /\ Hands(u).u = ModFd(v, Reading)
    BY <1>5, <1>8
  <2>2. PICK a \in BOOLEAN : ModFd(v, Reading) = w(Reading, a) /\ Listening(ModFd(v, Reading))
    BY <1>3, <1>6
  <2>3. u.hs < 2
    BY <1>1, <1>2, <1>8
  <2>4. HandsAt(u, Hands(u), k, o, s, Reading, a)
    BY <1>1, <1>8, <2>1, <2>2, <2>3 DEF HandsAt, w
  <2> QED
    BY <1>3, <2>1, <2>4 DEF HandsLeave
<1>9. CASE o = 0 /\ k > 0 /\ u.fin
  <2>1. Hands(u).st = "error" /\ Hands(u).u = v
    BY <1>5, <1>9
  <2>2. HandsAt(u, Hands(u), k, o, s, u.mask, u.armed)
    BY <1>1, <1>4, <1>9, <2>1 DEF HandsAt, w
  <2> QED
    BY <1>2, <2>1, <2>2 DEF HandsLeave
<1>10. CASE o = 0 /\ k > 0 /\ ~u.fin
  <2>1. Hands(u).st = "again" /\ Hands(u).u = ModFd(v, Reading)
    BY <1>5, <1>10
  <2>2. PICK a \in BOOLEAN : ModFd(v, Reading) = w(Reading, a) /\ Listening(ModFd(v, Reading))
    BY <1>3, <1>6
  <2>3. HandsAt(u, Hands(u), k, o, s, Reading, a)
    BY <1>1, <1>10, <2>1, <2>2 DEF HandsAt, w
  <2> QED
    BY <1>3, <2>1, <2>3 DEF HandsLeave
<1> QED
  BY <1>7, <1>8, <1>9, <1>10

-----------------------------------------------------------------------------
(* Sending and receiving.                                                  *)

\* Everything is sent, or the descriptor waits for room.
RoomMask(u) == {"out"} \union IF u.tls THEN {} ELSE {"rdhup"}
FullAt(u, r, n, s, a) ==
  /\ 0 < n /\ n <= u.out
  /\ r.u = [u EXCEPT !.out = n, !.snd = s, !.blocked = TRUE, !.armed = a,
                     !.mask = RoomMask(u)]
Written(u, r) ==
  \/ r.st = "error" /\ u.fin
  \/ r.st = "ok" /\ \E s \in 0 .. Room : r.u = [u EXCEPT !.out = 0, !.snd = s]
  \/ /\ r.st = "again" /\ Listening(r.u)
     /\ \E n \in 0 .. MaxOut, s \in 0 .. Room, a \in BOOLEAN : FullAt(u, r, n, s, a)

LEMMA NcWriteIs ==
  ASSUME NEW u \in Conn, u.evr, NEW r \in NcWrite(u)
  PROVE  Written(u, r)
<1> DEFINE k == Min2(u.out, Room - u.snd)
           n == u.out - k
           s == u.snd + k
           v == [u EXCEPT !.out = n, !.snd = s]
           z == [u EXCEPT !.out = n, !.snd = s, !.blocked = TRUE]
           m == RoomMask(u)
<1>1. /\ u.out \in 0 .. MaxOut /\ u.snd \in 0 .. Room
      /\ n \in 0 .. MaxOut /\ s \in 0 .. Room /\ n <= u.out
  <2>1. u.out \in 0 .. MaxOut /\ u.snd \in 0 .. Room
    BY DEF Conn
  <2> QED
    BY <2>1, Sizes DEF Min2
<1>2. /\ [u EXCEPT !.out = @ - k, !.snd = @ + k] = v
      /\ v.out = n /\ [v EXCEPT !.blocked = TRUE] = z
      /\ m \in SUBSET {"in", "out", "rdhup"}
  <2> HIDE DEF k
  <2>1. [u EXCEPT !.out = @ - k, !.snd = @ + k] = v
    BY DEF Conn
  <2> HIDE DEF n, s
  <2>2. v.out = n /\ [v EXCEPT !.blocked = TRUE] = z
    BY DEF Conn
  <2>3. m \in SUBSET {"in", "out", "rdhup"}
    BY DEF RoomMask
  <2> QED
    BY <2>1, <2>2, <2>3
<1> HIDE DEF k, n, s, v
<1>3. CASE r = [st |-> "error", u |-> u] /\ u.fin
  BY <1>3 DEF Written
<1>4. CASE r = [st |-> "ok", u |-> v] /\ n = 0
  <2>1. r.st = "ok" /\ r.u = [u EXCEPT !.out = 0, !.snd = s]
    BY <1>4 DEF v
  <2> QED
    BY <1>1, <2>1 DEF Written
<1>5. CASE r = [st |-> "again", u |-> ModFd(z, m)] /\ n # 0
  <2>1. z \in Conn /\ z.evr
    <3>1. TRUE \in BOOLEAN
      OBVIOUS
    <3>2. z.evr = u.evr
      BY DEF Conn
    <3> QED
      BY <1>1, <3>1, <3>2 DEF Conn
  <2>2. \A a : [z EXCEPT !.mask = m, !.armed = a]
                 = [u EXCEPT !.out = n, !.snd = s, !.blocked = TRUE, !.armed = a, !.mask = m]
    <3> HIDE DEF m
    <3>1. ASSUME NEW a
          PROVE  [z EXCEPT !.mask = m, !.armed = a]
                 = [u EXCEPT !.out = n, !.snd = s, !.blocked = TRUE, !.armed = a, !.mask = m]
      BY DEF Conn
    <3> QED
      BY <3>1
  <2> HIDE DEF z, m
  <2>3. PICK a \in BOOLEAN : /\ ModFd(z, m) = [z EXCEPT !.mask = m, !.armed = a]
                             /\ z.armed => a
                             /\ Listening(ModFd(z, m))
    BY <1>2, <2>1, ModFdIs
  <2>4. /\ r.st = "again" /\ Listening(r.u)
        /\ r.u = [u EXCEPT !.out = n, !.snd = s, !.blocked = TRUE, !.armed = a, !.mask = m]
    BY <1>5, <2>2, <2>3
  <2>5. 0 < n
    BY <1>1, <1>5
  <2>6. FullAt(u, r, n, s, a)
    BY <1>1, <2>4, <2>5 DEF FullAt, m
  <2> QED
    BY <1>1, <2>3, <2>4, <2>6 DEF Written
<1>6. \/ r = [st |-> "error", u |-> u] /\ u.fin
      \/ r = [st |-> "ok", u |-> v] /\ n = 0
      \/ r = [st |-> "again", u |-> ModFd(z, m)] /\ n # 0
  <2>1. NcWrite(u) = {IF v.out = 0 THEN [st |-> "ok", u |-> v]
                      ELSE [st |-> "again", u |-> ModFd([v EXCEPT !.blocked = TRUE], m)]}
                     \union {[st |-> "error", u |-> u] : b \in {b \in {u.fin} : b}}
    BY <1>2 DEF NcWrite, k, RoomMask
  <2> HIDE DEF m, z
  <2> QED
    BY <1>2, <2>1
<1> QED
  BY <1>3, <1>4, <1>5, <1>6

\* Nothing is left to be read; over TLS the descriptor waits for more.
LEMMA NcReadIs ==
  ASSUME NEW u \in Conn, u.evr
  PROVE  \/ u.fin /\ NcRead(u).st = "eof"
         \/ /\ ~u.fin /\ NcRead(u).st = "again"
            /\ \E m \in SUBSET {"in", "out", "rdhup"}, a \in BOOLEAN :
                 /\ NcRead(u).u = [u EXCEPT !.rcv = 0, !.mask = m, !.armed = a]
                 /\ u.tls => m = Reading /\ Listening(NcRead(u).u)
                 /\ ~u.tls => m = u.mask
                 /\ u.armed => a
<1> DEFINE v == [u EXCEPT !.rcv = 0]
<1>1. CASE u.fin
  BY <1>1 DEF NcRead
<1>2. CASE ~u.fin
  <2>1. /\ NcRead(u).st = "again"
        /\ NcRead(u).u = IF u.tls THEN ModFd(v, Reading) ELSE v
    BY <1>2 DEF NcRead
  <2>2. /\ v \in Conn /\ v.evr /\ v.armed = u.armed
        /\ u.mask \in SUBSET {"in", "out", "rdhup"} /\ u.armed \in BOOLEAN
        /\ Reading \in SUBSET {"in", "out", "rdhup"}
    <3>1. 0 \in 0 .. Parts
      BY Sizes
    <3> QED
      BY <3>1 DEF Conn, Reading
  <2>3. /\ \A m, a : [v EXCEPT !.mask = m, !.armed = a]
                       = [u EXCEPT !.rcv = 0, !.mask = m, !.armed = a]
        /\ v = [u EXCEPT !.rcv = 0, !.mask = u.mask, !.armed = u.armed]
    <3>1. ASSUME NEW m, NEW a
          PROVE  [v EXCEPT !.mask = m, !.armed = a]
                   = [u EXCEPT !.rcv = 0, !.mask = m, !.armed = a]
      BY DEF Conn
    <3>2. v = [u EXCEPT !.rcv = 0, !.mask = u.mask, !.armed = u.armed]
      BY DEF Conn
    <3> QED
      BY <3>1, <3>2
  <2> HIDE DEF v
  <2>4. CASE u.tls
    <3>1. PICK a \in BOOLEAN : /\ ModFd(v, Reading) = [v EXCEPT !.mask = Reading, !.armed = a]
                               /\ v.armed => a
                               /\ Listening(ModFd(v, Reading))
      BY <2>2, ModFdIs
    <3>2. /\ NcRead(u).st = "again" /\ NcRead(u).u = ModFd(v, Reading)
          /\ NcRead(u).u = [u EXCEPT !.rcv = 0, !.mask = Reading, !.armed = a]
      BY <2>1, <2>3, <2>4, <3>1
    <3> QED
      BY <1>2, <2>2, <2>4, <3>1, <3>2
  <2>5. CASE ~u.tls
    <3>1. /\ NcRead(u).st = "again"
          /\ NcRead(u).u = [u EXCEPT !.rcv = 0, !.mask = u.mask, !.armed = u.armed]
      BY <2>1, <2>3, <2>5
    <3> QED
      BY <1>2, <2>2, <2>5, <3>1
  <2> QED
    BY <2>4, <2>5
<1> QED
  BY <1>1, <1>2

-----------------------------------------------------------------------------
(* Upstream connections.                                                   *)

\* What a callback leaves of a connection, with the callbacks in p to come.
Fine(v, p) == v = Closed \/ (Settled(v) /\ Covered(v, p) /\ Fitting(v, p))

\* What a response leaves.
LEMMA UpsReadIs ==
  ASSUME NEW u, Settled(u), Flies(u), u.sess = "flight", u.tls => u.out = 0,
         NEW p, Covered(u, p \union {"read"}), NEW v \in UpsRead(u)
  PROVE  Fine(v, p)
<1>1. u \in Conn /\ u.evr
  BY DEF Settled
<1>2. CASE v = Closed
  BY <1>2 DEF Fine
<1>3. CASE v # Closed
  <2>1. ~u.fin /\ NcRead(u).st = "again"
    BY <1>1, <1>3, NcReadIs DEF UpsRead, Freed
  <2>2. PICK m \in SUBSET {"in", "out", "rdhup"}, a \in BOOLEAN :
          /\ NcRead(u).u = [u EXCEPT !.rcv = 0, !.mask = m, !.armed = a]
          /\ u.tls => m = Reading /\ Listening(NcRead(u).u)
          /\ ~u.tls => m = u.mask
          /\ u.armed => a
    BY <1>1, <2>1, NcReadIs
  <2> DEFINE w == [u EXCEPT !.rcv = 0, !.mask = m, !.armed = a]
             z == [u EXCEPT !.rcv = 0, !.mask = m, !.armed = a, !.sess = "none"]
  <2>3. \/ v = w
        \/ v = z /\ u.owes = 0
    <3>1. \/ v = NcRead(u).u
          \/ v = [NcRead(u).u EXCEPT !.sess = "none"] /\ u.owes = 0
      BY <1>3, <2>1 DEF UpsRead, Freed
    <3>2. [w EXCEPT !.sess = "none"] = z
      BY DEF Conn
    <3> HIDE DEF w, z
    <3> QED
      BY <2>2, <3>1, <3>2 DEF w
  <2>4. /\ v \in Conn /\ v.evr /\ v.nc = u.nc /\ v.role = u.role /\ v.est = u.est
        /\ v.hs = u.hs /\ v.hsOut = u.hsOut /\ v.hsIn = u.hsIn /\ v.out = u.out
        /\ v.tls = u.tls /\ v.blocked = u.blocked /\ v.fin = u.fin
        /\ v.rcv = 0 /\ v.owes = u.owes /\ v.mask = m /\ v.armed = a /\ v.snd = u.snd
        /\ v.sess = "flight" \/ (v.sess = "none" /\ u.owes = 0)
    <3>1. 0 \in 0 .. Parts /\ "none" \in {"none", "flight", "waiting", "busy", "sending"}
      BY Sizes
    <3>2. w \in Conn /\ z \in Conn
      BY <1>1, <2>2, <3>1 DEF Conn
    <3>3. CASE v = w
      BY <1>1, <3>2, <3>3 DEF Conn
    <3>4. CASE v = z /\ u.owes = 0
      BY <1>1, <3>2, <3>4 DEF Conn
    <3> QED
      BY <2>3, <3>3, <3>4
  <2>5. /\ u.rcv \in 0 .. Parts /\ u.owes \in 0 .. Parts /\ u.hsIn \in 0 .. 1
        /\ u.hs = 0 /\ u.tls \in BOOLEAN /\ u.blocked \in BOOLEAN
    BY <1>1 DEF Conn, Flies
  <2> HIDE DEF w, z
  <2>6. Settled(v)
    <3>1. v.rcv + v.owes <= Parts
      BY <2>4, <2>5, Sizes
    <3>2. Flies(v)
      BY <2>2, <2>4, <2>5 DEF Flies
    <3> QED
      BY <2>4, <3>1, <3>2 DEF Settled, Flies
  <2>7. Covered(v, p)
    <3>1. CASE u.tls
      <4>1. Reported(v) = Reported(NcRead(u).u)
        <5>1. /\ w.rcv = 0 /\ w.hsIn = u.hsIn /\ w.fin = u.fin /\ w.est = u.est
              /\ w.snd = u.snd /\ w.mask = m
          BY <1>1 DEF Conn, w
        <5>2. NcRead(u).u = w
          BY <2>2 DEF w
        <5>3. Reported(v) = Reported(w)
          BY <2>4, <5>1 DEF Reported, Level
        <5> QED
          BY <5>2, <5>3
      <4>2. NcRead(u).u.armed = a
        BY <1>1, <2>2 DEF Conn
      <4>3. Listening(v)
        BY <2>2, <2>4, <3>1, <4>1, <4>2 DEF Listening
      <4> QED
        BY <2>6, <4>3, ListeningCovers
    <3>2. CASE ~u.tls
      <4>1. "in" \notin Level(v)
        <5>1. u.hsIn = 0
          BY <2>5 DEF Settled
        <5> QED
          BY <2>1, <2>4, <5>1, LevelIs
      <4>2. "out" \in Wants(v) => "out" \in Wants(u)
        BY <2>4 DEF Wants, Flies
      <4>3. "out" \in Level(v) => "out" \in Level(u)
        BY <2>4, LevelIs
      <4> QED
        BY <2>2, <2>4, <4>1, <4>2, <4>3 DEF Covered
    <3> QED
      BY <3>1, <3>2, <2>5
  <2>8. Fitting(v, p)
    BY <2>4 DEF Fitting, Flies
  <2> QED
    BY <2>6, <2>7, <2>8 DEF Fine
<1> QED
  BY <1>2, <1>3

\* A connection of a session that has something to send, or just connected.
Sends(u, p) ==
  /\ u \in Conn /\ u.evr
  /\ u.nc = "connected" /\ u.role = "ups" /\ u.est = "up" /\ u.sess = "flight"
  /\ u.hs = 0 /\ u.hsOut = 0 /\ u.hsIn = 0
  /\ u.rcv + u.owes <= Parts
  /\ ~u.blocked => u.mask = Reading /\ ("in" \in Level(u) => u.armed \/ "read" \in p)
  /\ u.blocked => u.mask = RoomMask(u) \/ (u.tls /\ u.mask = Reading)
  /\ u.tls => "read" \notin p

LEMMA UpsWriteIs ==
  ASSUME NEW u, NEW p, Sends(u, p), NEW mode, NEW v \in UpsWrite(u, mode)
  PROVE  Fine(v, p)
<1>1. u \in Conn /\ u.evr
  BY DEF Sends
<1>2. PICK r \in NcWrite(u) :
        v \in CASE r.st = "error" -> {Freed(u)}
                [] r.st = "ok" /\ mode = "read" -> UpsRead(r.u)
                [] OTHER -> {r.u}
  BY DEF UpsWrite
<1>3. Written(u, r)
  BY <1>1, NcWriteIs
<1>4. CASE r.st = "error"
  BY <1>2, <1>4 DEF Fine, Freed
<1>5. /\ u.rcv \in 0 .. Parts /\ u.owes \in 0 .. Parts /\ u.tls \in BOOLEAN
      /\ u.blocked \in BOOLEAN /\ u.fin \in BOOLEAN /\ u.out \in 0 .. MaxOut
      /\ u.mask \in SUBSET {"in", "out", "rdhup"}
  BY <1>1 DEF Conn
<1>6. CASE r.st = "ok"
  <2>1. PICK s \in 0 .. Room : r.u = [u EXCEPT !.out = 0, !.snd = s]
    BY <1>3, <1>6 DEF Written
  <2> DEFINE w == [u EXCEPT !.out = 0, !.snd = s]
  <2>2. /\ w \in Conn /\ w.evr /\ w.nc = u.nc /\ w.role = u.role /\ w.est = u.est
        /\ w.hs = u.hs /\ w.hsOut = u.hsOut /\ w.hsIn = u.hsIn /\ w.out = 0
        /\ w.tls = u.tls /\ w.blocked = u.blocked /\ w.fin = u.fin
        /\ w.rcv = u.rcv /\ w.owes = u.owes /\ w.mask = u.mask /\ w.armed = u.armed
        /\ w.sess = u.sess
    <3>1. 0 \in 0 .. MaxOut
      BY Sizes
    <3> QED
      BY <1>1, <2>1, <3>1 DEF Conn
  <2>3. r.u = w
    BY <2>1
  <2> HIDE DEF w
  <2>4. Settled(w) /\ Flies(w)
    <3>1. Flies(w)
      BY <1>5, <2>2 DEF Flies, Sends, RoomMask
    <3> QED
      BY <2>2, <3>1 DEF Settled, Flies, Sends
  <2>5. Covered(w, p) /\ Covered(w, p \union {"read"}) /\ Fitting(w, p)
    <3>1. "in" \in Level(w) <=> "in" \in Level(u)
      BY <2>2, LevelIs
    <3>2. Wants(w) = IF u.blocked THEN {} ELSE {"in"}
      BY <2>2 DEF Wants, Sends
    <3> QED
      BY <2>2, <3>1, <3>2 DEF Covered, Fitting, Sends
  <2>6. CASE mode = "read"
    <3>1. v \in UpsRead(w)
      BY <1>2, <1>6, <2>3, <2>6
    <3>2. w.sess = "flight" /\ w.out = 0
      BY <2>2 DEF Sends
    <3> QED
      BY <2>4, <2>5, <3>1, <3>2, UpsReadIs
  <2>7. CASE mode # "read"
    <3>1. v = w
      BY <1>2, <1>6, <2>3, <2>7
    <3> QED
      BY <2>4, <2>5, <3>1 DEF Fine
  <2> QED
    BY <2>6, <2>7
<1>7. CASE r.st = "again"
  <2>1. PICK n \in 0 .. MaxOut, s \in 0 .. Room, a \in BOOLEAN : FullAt(u, r, n, s, a)
    BY <1>3, <1>7 DEF Written
  <2> DEFINE m == RoomMask(u)
             w == [u EXCEPT !.out = n, !.snd = s, !.blocked = TRUE, !.armed = a, !.mask = m]
  <2>2. r.u = w /\ 0 < n /\ Listening(w) /\ v = w
    BY <1>2, <1>3, <1>7, <2>1 DEF FullAt, Written
  <2>3. m \in SUBSET {"in", "out", "rdhup"}
    BY DEF RoomMask
  <2> HIDE DEF m
  <2>4. /\ w \in Conn /\ w.evr /\ w.nc = u.nc /\ w.role = u.role /\ w.est = u.est
        /\ w.hs = u.hs /\ w.hsOut = u.hsOut /\ w.hsIn = u.hsIn /\ w.out = n
        /\ w.tls = u.tls /\ w.blocked = TRUE /\ w.fin = u.fin
        /\ w.rcv = u.rcv /\ w.owes = u.owes /\ w.mask = m /\ w.sess = u.sess
    BY <1>1, <2>1, <2>3 DEF Conn
  <2> HIDE DEF w
  <2>5. Settled(w)
    <3>1. Flies(w)
      BY <1>5, <2>4 DEF Flies, Sends, RoomMask, m
    <3> QED
      BY <2>4, <3>1 DEF Settled, Flies, Sends
  <2>6. Covered(w, p)
    BY <2>2, <2>5, ListeningCovers
  <2>7. Fitting(w, p)
    BY <2>4 DEF Fitting, Sends
  <2> QED
    BY <2>2, <2>5, <2>6, <2>7 DEF Fine
<1> QED
  BY <1>3, <1>4, <1>6, <1>7 DEF Written

\* A connection that is being made, with p to come.
Reaches(u, p) ==
  /\ u \in Conn /\ u.evr
  /\ u.nc = "connecting" /\ u.role = "ups" /\ u.sess = "flight"
  /\ u.hs < 2 /\ u.rcv = 0 /\ ~u.blocked
  /\ u.hsIn > 0 => u.hs > 0 /\ u.hsOut = 0
  /\ u.tls => "read" \notin p

\* The handshake of an upstream connection waits for what comes next, or the
\* connection is made.
LEMMA UpsHands ==
  ASSUME NEW u, NEW p, Reaches(u, p), u.est = "up", NEW r, r = Hands(u)
  PROVE  /\ r.st \in {"again", "ok", "error"}
         /\ r.st = "again" => Fine(r.u, p)
         /\ r.st = "ok" => Sends([r.u EXCEPT !.nc = "connected"], p)
<1>1. u \in Conn /\ u.evr /\ (u.hsIn > 0 => u.hs > 0 /\ u.hsOut = 0)
  BY DEF Reaches
<1>2. HandsLeave(u, r)
  BY <1>1, HandsIs
<1>3. PICK k \in 0 .. 2, o \in 0 .. Flight, s \in 0 .. Room,
           m \in SUBSET {"in", "out", "rdhup"}, a \in BOOLEAN : HandsAt(u, r, k, o, s, m, a)
  BY <1>2 DEF HandsLeave
<1> DEFINE w == [u EXCEPT !.hs = k, !.hsOut = o, !.hsIn = 0, !.snd = s, !.mask = m, !.armed = a]
           z == [w EXCEPT !.nc = "connected"]
<1>4. r.u = w /\ k <= u.hs
  BY <1>3 DEF HandsAt
<1>5. /\ w \in Conn /\ w.evr /\ w.nc = u.nc /\ w.role = u.role /\ w.est = u.est
      /\ w.hs = k /\ w.hsOut = o /\ w.hsIn = 0 /\ w.out = u.out
      /\ w.tls = u.tls /\ w.blocked = u.blocked /\ w.fin = u.fin
      /\ w.rcv = u.rcv /\ w.owes = u.owes /\ w.mask = m /\ w.sess = u.sess /\ w.armed = a
      /\ w.snd = s
  <2>1. [u EXCEPT !.hs = k, !.hsOut = o, !.hsIn = 0, !.snd = s] \in Conn
    <3>1. 0 \in 0 .. 1
      OBVIOUS
    <3> QED
      BY <1>1, <1>3, <3>1, TurnType
  <2>2. w \in Conn
    BY <1>3, <2>1 DEF Conn
  <2> QED
    BY <1>1, <2>2 DEF Conn
<1>6. /\ u.hs \in 0 .. 2 /\ u.rcv \in 0 .. Parts /\ u.owes \in 0 .. Parts
      /\ u.hs < 2 /\ u.rcv = 0 /\ u.role = "ups"
  BY <1>1 DEF Conn, Reaches
<1> HIDE DEF w
<1>7. ASSUME r.st = "again" PROVE Fine(r.u, p)
  <2>1. /\ Listening(w)
        /\ \/ o > 0 /\ m = {"out"}
           \/ o = 0 /\ k > 0 /\ m = Reading
    BY <1>3, <1>4, <1>6, <1>7 DEF HandsAt
  <2>2. Connects(w)
    BY <1>3, <1>4, <1>5, <1>6, <2>1, Sizes DEF Connects, Reaches
  <2>3. Settled(w)
    BY <1>5, <1>6, <2>2 DEF Settled, Connects
  <2>4. Covered(w, p)
    BY <2>1, <2>3, ListeningCovers
  <2>5. Fitting(w, p)
    BY <1>5 DEF Fitting, Reaches
  <2> QED
    BY <1>4, <2>3, <2>4, <2>5 DEF Fine
<1>8. ASSUME r.st = "ok" PROVE Sends([r.u EXCEPT !.nc = "connected"], p)
  <2>1. Listening(w) /\ k = 0 /\ o = 0 /\ m = Reading
    BY <1>3, <1>4, <1>8 DEF HandsAt
  <2>2. /\ z \in Conn /\ z.evr /\ z.nc = "connected" /\ z.role = u.role /\ z.est = u.est
        /\ z.hs = k /\ z.hsOut = o /\ z.hsIn = 0 /\ z.rcv = u.rcv /\ z.owes = u.owes
        /\ z.tls = u.tls /\ z.blocked = u.blocked /\ z.fin = u.fin /\ z.mask = m
        /\ z.sess = u.sess /\ z.armed = a
    BY <1>5 DEF Conn
  <2> HIDE DEF z
  <2>3. "in" \in Level(z) => z.armed
    <3>1. "in" \in Level(z) <=> "in" \in Level(w)
      BY <1>5, <2>2, LevelIs
    <3>2. "in" \in Level(w) => w.armed
      BY <1>5, <2>1 DEF Listening, Reported, Reading
    <3> QED
      BY <1>5, <2>2, <3>1, <3>2
  <2>4. Sends(z, p)
    BY <1>6, <2>1, <2>2, <2>3 DEF Sends, Reaches
  <2> QED
    BY <1>4, <2>4 DEF z
<1> QED
  BY <1>2, <1>7, <1>8 DEF HandsLeave

\* A connection that is being made is made, or waits for what comes next, or is
\* given up.
LEMMA UpsConnectIs ==
  ASSUME NEW u, NEW p, Reaches(u, p),
         \/ u.hs + u.hsOut > 0 /\ u.est = "up"
         \/ u.hs = 0 /\ u.hsOut = 0 /\ u.snd = 0,
         NEW mode, NEW v \in UpsConnect(u, mode)
  PROVE  Fine(v, p)
<1>1. u \in Conn /\ u.evr
  BY DEF Reaches
<1>2. PICK r \in Connecting(u) :
        v \in CASE r.st = "error" -> {Freed(u)}
                [] r.st = "ok" -> UpsWrite([r.u EXCEPT !.nc = "connected"], mode)
                [] OTHER -> {r.u}
  BY DEF UpsConnect
<1>3. /\ r.st \in {"again", "ok", "error"}
      /\ r.st = "again" => Fine(r.u, p)
      /\ r.st = "ok" => Sends([r.u EXCEPT !.nc = "connected"], p)
  <2>1. CASE u.hs + u.hsOut > 0
    <3>1. r = Hands(u)
      BY <2>1 DEF Connecting
    <3>2. u.est = "up"
      BY <2>1
    <3> QED
      BY <3>1, <3>2, UpsHands
  <2>2. CASE ~(u.hs + u.hsOut > 0)
    <3>1. u.hs = 0 /\ u.hsOut = 0 /\ u.snd = 0 /\ u.hsIn = 0
      <4>1. u.hsIn \in 0 .. 1
        BY <1>1 DEF Conn
      <4> QED
        BY <2>2, <4>1 DEF Reaches
    <3>2. PICK q \in Connect(u) :
            r = IF q.st = "ok" /\ u.tls THEN Hands([q.u EXCEPT !.hs = 1, !.hsOut = 1]) ELSE q
      BY <2>2 DEF Connecting
    \* What ncconnect of TCP leaves.
    <3> DEFINE w(e, m, a) == [u EXCEPT !.est = e, !.mask = m, !.armed = a]
               waits(y) == [u EXCEPT !.est = y]
    <3>3. ASSUME NEW e \in {"syn", "up"}, NEW m \in SUBSET {"in", "out", "rdhup"}
          PROVE  \E a \in BOOLEAN : /\ ModFd(waits(e), m) = w(e, m, a)
                                    /\ Listening(ModFd(waits(e), m))
      <4>1. waits(e) \in Conn /\ waits(e).evr
        BY <1>1 DEF Conn
      <4>2. ASSUME NEW a PROVE [waits(e) EXCEPT !.mask = m, !.armed = a] = w(e, m, a)
        BY <1>1 DEF Conn
      <4> HIDE DEF waits, w
      <4>3. PICK a \in BOOLEAN : /\ ModFd(waits(e), m) = [waits(e) EXCEPT !.mask = m, !.armed = a]
                                 /\ waits(e).armed => a
                                 /\ Listening(ModFd(waits(e), m))
        BY <4>1, ModFdIs
      <4> QED
        BY <4>2, <4>3
    <3>4. \/ q.st = "error"
          \/ q.st = "again" /\ q.u = ModFd(waits("syn"), {"out"})
          \/ q.st = "ok" /\ q.u = ModFd(waits("up"), Reading)
      <4>1. u.est = "up" => u = waits("up")
        BY <1>1 DEF Conn
      <4> HIDE DEF waits
      <4>2. Connect(u) =
              CASE u.est = "none" -> {[st |-> "again", u |-> ModFd(waits("syn"), {"out"})],
                                      [st |-> "ok", u |-> ModFd(waits("up"), Reading)],
                                      [st |-> "error", u |-> u]}
                [] u.est = "up"   -> {[st |-> "ok", u |-> ModFd(u, Reading)]}
                [] OTHER          -> {[st |-> "error", u |-> u]}
        BY DEF Connect, waits
      <4>3. CASE u.est = "none"
        BY <4>2, <4>3
      <4>4. CASE u.est = "up"
        BY <4>1, <4>2, <4>4
      <4>5. CASE u.est # "none" /\ u.est # "up"
        BY <4>2, <4>5
      <4> QED
        BY <4>3, <4>4, <4>5
    <3>5. ASSUME NEW e \in {"syn", "up"}, NEW m \in SUBSET {"in", "out", "rdhup"},
                 NEW a \in BOOLEAN, NEW y, y = w(e, m, a)
          PROVE  /\ y \in Conn /\ y.evr /\ y.nc = u.nc /\ y.role = u.role /\ y.est = e
                 /\ y.hs = 0 /\ y.hsOut = 0 /\ y.hsIn = 0 /\ y.out = u.out
                 /\ y.tls = u.tls /\ y.blocked = u.blocked /\ y.fin = u.fin
                 /\ y.rcv = u.rcv /\ y.owes = u.owes /\ y.mask = m /\ y.sess = u.sess
                 /\ y.armed = a /\ y.snd = 0
      BY <1>1, <3>1, <3>5 DEF Conn
    <3>6. /\ u.rcv \in 0 .. Parts /\ u.owes \in 0 .. Parts /\ u.rcv = 0
          /\ Reading \in SUBSET {"in", "out", "rdhup"}
          /\ {"out"} \in SUBSET {"in", "out", "rdhup"}
      BY <1>1 DEF Conn, Reaches, Reading
    <3>7. CASE q.st = "error"
      BY <3>2, <3>7
    <3>8. CASE q.st = "again" /\ q.u = ModFd(waits("syn"), {"out"})
      <4> HIDE DEF waits, w
      <4>1. PICK a \in BOOLEAN : q.u = w("syn", {"out"}, a) /\ Listening(q.u)
        BY <3>3, <3>6, <3>8
      <4> DEFINE y == q.u
      <4>2. /\ y \in Conn /\ y.evr /\ y.nc = u.nc /\ y.role = u.role /\ y.est = "syn"
            /\ y.hs = 0 /\ y.hsOut = 0 /\ y.hsIn = 0 /\ y.tls = u.tls
            /\ y.blocked = u.blocked /\ y.rcv = u.rcv /\ y.owes = u.owes
            /\ y.mask = {"out"} /\ y.sess = u.sess /\ y.snd = 0
        BY <3>5, <3>6, <4>1
      <4> HIDE DEF y
      <4>3. Connects(y)
        BY <3>6, <4>2 DEF Connects, Reaches
      <4>4. Settled(y)
        BY <3>6, <4>2, <4>3 DEF Settled, Reaches
      <4>5. Covered(y, p)
        BY <4>1, <4>4, ListeningCovers DEF y
      <4>6. Fitting(y, p)
        BY <4>2 DEF Fitting, Reaches
      <4>7. r = q
        BY <3>2, <3>8
      <4> QED
        BY <3>8, <4>4, <4>5, <4>6, <4>7 DEF Fine, y
    <3>9. CASE q.st = "ok" /\ q.u = ModFd(waits("up"), Reading)
      <4> HIDE DEF waits, w
      <4>1. PICK a \in BOOLEAN : q.u = w("up", Reading, a) /\ Listening(q.u)
        BY <3>3, <3>6, <3>9
      <4> DEFINE y == q.u
      <4>2. /\ y \in Conn /\ y.evr /\ y.nc = u.nc /\ y.role = u.role /\ y.est = "up"
            /\ y.hs = 0 /\ y.hsOut = 0 /\ y.hsIn = 0 /\ y.tls = u.tls /\ y.fin = u.fin
            /\ y.blocked = u.blocked /\ y.rcv = u.rcv /\ y.owes = u.owes
            /\ y.mask = Reading /\ y.sess = u.sess /\ y.snd = 0
        BY <3>5, <3>6, <4>1
      <4>3. Listening(y)
        BY <4>1
      <4>4. y.armed \in BOOLEAN
        BY <4>2 DEF Conn
      <4>5. r = IF u.tls THEN Hands([y EXCEPT !.hs = 1, !.hsOut = 1]) ELSE q
        BY <3>2, <3>9
      <4>6. y = q.u
        OBVIOUS
      <4> HIDE DEF y
      <4>7. CASE u.tls
        <5> DEFINE z == [y EXCEPT !.hs = 1, !.hsOut = 1]
        <5>1. /\ z \in Conn /\ z.evr /\ z.nc = u.nc /\ z.role = u.role /\ z.est = "up"
              /\ z.hs = 1 /\ z.hsIn = 0 /\ z.tls = u.tls
              /\ z.blocked = u.blocked /\ z.rcv = u.rcv /\ z.sess = u.sess
          <6>1. 1 \in 0 .. Flight /\ 1 \in 0 .. 2
            BY Sizes
          <6> QED
            BY <4>2, <6>1 DEF Conn
        <5> HIDE DEF z
        <5>2. Reaches(z, p)
          BY <5>1 DEF Reaches
        <5>3. r = Hands(z)
          BY <4>5, <4>7 DEF z
        <5> QED
          BY <5>1, <5>2, <5>3, UpsHands
      <4>8. CASE ~u.tls
        <5> DEFINE z == [y EXCEPT !.nc = "connected"]
        <5>1. /\ z \in Conn /\ z.evr /\ z.nc = "connected" /\ z.role = u.role
              /\ z.est = "up" /\ z.hs = 0 /\ z.hsOut = 0 /\ z.hsIn = 0 /\ z.tls = u.tls
              /\ z.blocked = u.blocked /\ z.rcv = u.rcv /\ z.sess = u.sess
              /\ z.owes = u.owes /\ z.mask = Reading /\ z.armed = y.armed /\ z.fin = y.fin
          BY <4>2 DEF Conn
        <5> HIDE DEF z
        <5>2. "in" \in Level(z) => z.armed
          <6>1. "in" \in Level(z) <=> "in" \in Level(y)
            BY <4>2, <5>1, LevelIs
          <6>2. "in" \in Level(y) => y.armed
            BY <4>2, <4>3 DEF Listening, Reported, Reading
          <6> QED
            BY <5>1, <6>1, <6>2
        <5>3. Sends(z, p)
          BY <3>6, <4>8, <5>1, <5>2 DEF Sends, Reaches
        <5>4. r = q
          BY <4>5, <4>8
        <5> QED
          BY <3>9, <4>6, <5>3, <5>4 DEF z
      <4> QED
        BY <4>7, <4>8
    <3> HIDE DEF waits
    <3> QED
      BY <3>4, <3>7, <3>8, <3>9
  <2> QED
    BY <2>1, <2>2
<1>4. CASE r.st = "error"
  BY <1>2, <1>4 DEF Fine, Freed
<1>5. CASE r.st = "ok"
  BY <1>2, <1>3, <1>5, UpsWriteIs
<1>6. CASE r.st = "again"
  BY <1>2, <1>3, <1>6
<1> QED
  BY <1>3, <1>4, <1>5, <1>6

\* A callback of an upstream connection, with p to come after it.
LEMMA UpsCallbackIs ==
  ASSUME NEW u, Settled(u), u.role = "ups", NEW mode \in {"read", "write"},
         NEW p, "read" \notin p, Covered(u, p \union {mode}), Fitting(u, p \union {mode}),
         NEW v \in UpsCallback(u, mode)
  PROVE  Fine(v, p)
<1>1. u.nc # "free" /\ (Connects(u) \/ Flies(u))
  BY DEF Settled, Accepts, Connects, Serves, Flies
<1>2. /\ u.out \in 0 .. MaxOut /\ u.tls \in BOOLEAN /\ u.blocked \in BOOLEAN
      /\ u.hs \in 0 .. 2 /\ u.hsOut \in 0 .. Flight /\ u.hsIn \in 0 .. 1
  BY DEF Settled, Conn
<1>3. CASE u.sess = "none"
  BY <1>1, <1>3 DEF UpsCallback, Fine, Freed
<1>4. CASE u.sess # "none" /\ Connects(u)
  <2>1. v \in UpsConnect(u, mode)
    BY <1>1, <1>4 DEF UpsCallback, Connects
  <2>2. Reaches(u, p)
    BY <1>4 DEF Reaches, Settled, Connects
  <2>3. \/ u.hs + u.hsOut > 0 /\ u.est = "up"
        \/ u.hs = 0 /\ u.hsOut = 0 /\ u.snd = 0
    BY <1>4 DEF Connects
  <2> QED
    BY <2>1, <2>2, <2>3, UpsConnectIs
<1>5. CASE u.sess # "none" /\ Flies(u) /\ mode = "read"
  <2>1. v \in UpsRead(u) /\ u.sess = "flight"
    BY <1>1, <1>5 DEF UpsCallback, Flies
  <2>2. u.tls => u.out = 0
    BY <1>2, <1>5 DEF Fitting, Flies
  <2>3. Covered(u, p \union {"read"})
    BY <1>5
  <2> QED
    BY <1>5, <2>1, <2>2, <2>3, UpsReadIs
<1>6. CASE u.sess # "none" /\ Flies(u) /\ mode = "write" /\ u.out = 0
  <2>1. v = u
    BY <1>1, <1>6 DEF UpsCallback, Flies
  <2>2. Covered(u, p)
    <3>1. "out" \notin Wants(u)
      BY <1>6 DEF Wants, Flies
    <3> QED
      BY <1>6, <3>1 DEF Covered
  <2>3. Fitting(u, p)
    BY <1>6 DEF Fitting, Flies
  <2> QED
    BY <2>1, <2>2, <2>3 DEF Fine
<1>7. CASE u.sess # "none" /\ Flies(u) /\ mode = "write" /\ u.out # 0
  <2>1. v \in UpsWrite(u, mode)
    BY <1>1, <1>7 DEF UpsCallback, Flies
  <2>2. Sends(u, p)
    <3>1. u.blocked
      BY <1>7 DEF Flies
    <3>2. u.mask = RoomMask(u) \/ (u.tls /\ u.mask = Reading)
      BY <1>2, <1>7, <3>1 DEF Flies, RoomMask
    <3>3. u.hsIn = 0
      BY <1>2, <1>7 DEF Settled, Flies
    <3> QED
      BY <1>7, <3>1, <3>2, <3>3 DEF Sends, Settled, Flies
  <2> QED
    BY <2>1, <2>2, UpsWriteIs
<1> QED
  BY <1>1, <1>3, <1>4, <1>5, <1>6, <1>7

-----------------------------------------------------------------------------
(* Connections of clients.                                                 *)

LEMMA ClntReadIs ==
  ASSUME NEW u, Settled(u), Serves(u), u.tls => u.out = 0,
         NEW p, "read" \notin p, Covered(u, p \union {"read"}),
         "write" \in p => u.fin \/ u.sess = "sending", NEW v \in ClntRead(u)
  PROVE  Fine(v, p) /\ (v.nc = "free" => u.fin)
<1>1. u \in Conn /\ u.evr
  BY DEF Settled
<1>2. CASE u.fin
  <2>1. NcRead(u).st = "eof"
    BY <1>1, <1>2, NcReadIs
  <2>2. v = Closed
    BY <2>1 DEF ClntRead, Freed
  <2> QED
    BY <1>2, <2>2 DEF Fine
<1>3. CASE ~u.fin
  <2>1. NcRead(u).st = "again"
    BY <1>1, <1>3, NcReadIs
  <2>2. PICK m \in SUBSET {"in", "out", "rdhup"}, a \in BOOLEAN :
          /\ NcRead(u).u = [u EXCEPT !.rcv = 0, !.mask = m, !.armed = a]
          /\ u.tls => m = Reading /\ Listening(NcRead(u).u)
          /\ ~u.tls => m = u.mask
          /\ u.armed => a
    BY <1>1, <1>3, NcReadIs
  <2> DEFINE w == [u EXCEPT !.rcv = 0, !.mask = m, !.armed = a]
             z == [u EXCEPT !.rcv = 0, !.mask = m, !.armed = a, !.sess = "busy"]
  <2>3. \/ v = w
        \/ v = z /\ u.rcv > 0
    <3>1. \/ v = NcRead(u).u
          \/ v = [NcRead(u).u EXCEPT !.sess = "busy"] /\ u.rcv > 0
      BY <2>1 DEF ClntRead
    <3>2. [w EXCEPT !.sess = "busy"] = z
      BY DEF Conn
    <3> HIDE DEF w, z
    <3> QED
      BY <2>2, <3>1, <3>2 DEF w
  <2>4. /\ v \in Conn /\ v.evr /\ v.nc = u.nc /\ v.role = u.role /\ v.est = u.est
        /\ v.hs = u.hs /\ v.hsOut = u.hsOut /\ v.hsIn = u.hsIn /\ v.out = u.out
        /\ v.tls = u.tls /\ v.blocked = u.blocked /\ v.fin = u.fin
        /\ v.rcv = 0 /\ v.owes = u.owes /\ v.mask = m /\ v.armed = a /\ v.snd = u.snd
        /\ v.sess = u.sess \/ (v.sess = "busy" /\ u.rcv > 0)
    <3>1. 0 \in 0 .. Parts /\ "busy" \in {"none", "flight", "waiting", "busy", "sending"}
      BY Sizes
    <3>2. w \in Conn /\ z \in Conn
      BY <1>1, <2>2, <3>1 DEF Conn
    <3>3. CASE v = w
      BY <1>1, <3>2, <3>3 DEF Conn
    <3>4. CASE v = z /\ u.rcv > 0
      BY <1>1, <3>2, <3>4 DEF Conn
    <3> QED
      BY <2>3, <3>3, <3>4
  <2>5. /\ u.rcv \in 0 .. Parts /\ u.owes = 0 /\ u.hsIn = 0
        /\ u.hs = 0 /\ u.tls \in BOOLEAN /\ u.out \in 0 .. MaxOut
    BY <1>1 DEF Conn, Serves, Settled
  <2> HIDE DEF w, z
  <2>6. v.sess = "busy" /\ u.rcv > 0 => u.sess = "waiting"
    BY <2>5 DEF Serves
  <2>7. Serves(v)
    BY <2>2, <2>4, <2>5, <2>6 DEF Serves
  <2>8. Settled(v)
    BY <2>4, <2>5, <2>7, Sizes DEF Settled, Serves
  <2>9. Covered(v, p)
    <3>1. CASE u.tls
      <4>1. Reported(v) = Reported(w)
        <5>1. /\ w.rcv = 0 /\ w.hsIn = u.hsIn /\ w.fin = u.fin /\ w.est = u.est
              /\ w.snd = u.snd /\ w.mask = m
          BY <1>1 DEF Conn, w
        <5> QED
          BY <2>4, <5>1 DEF Reported, Level
      <4>2. NcRead(u).u = w
        BY <2>2 DEF w
      <4>3. w.armed = a
        BY <1>1 DEF Conn, w
      <4>4. Listening(v)
        BY <2>2, <2>4, <3>1, <4>1, <4>2, <4>3 DEF Listening
      <4> QED
        BY <2>8, <4>4, ListeningCovers
    <3>2. CASE ~u.tls
      <4>1. "in" \notin Level(v)
        BY <1>3, <2>4, <2>5, LevelIs
      <4>2. "out" \in Wants(v) => "out" \in Wants(u)
        BY <2>4, <2>6 DEF Wants, Serves
      <4>3. "out" \in Level(v) => "out" \in Level(u)
        BY <2>4, LevelIs
      <4> QED
        BY <2>2, <2>4, <3>2, <4>1, <4>2, <4>3 DEF Covered
    <3> QED
      BY <3>1, <3>2, <2>5
  <2>10. Fitting(v, p)
    BY <1>3, <2>4, <2>6 DEF Fitting, Serves
  <2>11. v.nc # "free"
    BY <2>7 DEF Serves
  <2> QED
    BY <2>8, <2>9, <2>10, <2>11 DEF Fine
<1> QED
  BY <1>2, <1>3, <1>1 DEF Conn

\* A client's connection that may be written to, in the last callback of its
\* event or with a response that is ready.
Replies(u) ==
  /\ u \in Conn /\ u.evr
  /\ u.nc = "connected" /\ u.role = "clnt" /\ u.est = "up"
  /\ u.hs = 0 /\ u.hsOut = 0 /\ u.hsIn = 0 /\ u.owes = 0
  /\ u.sess \in {"waiting", "busy", "sending"}
  /\ u.sess # "waiting" => u.rcv = 0
  /\ u.sess = "busy" =>
       u.out = 0 /\ u.mask = Reading /\ ("in" \in Level(u) => u.armed)
  /\ u.sess = "sending" => u.out > 0

LEMMA SessType ==
  ASSUME NEW u \in Conn, NEW z \in {"none", "flight", "waiting", "busy", "sending"},
         NEW b \in BOOLEAN
  PROVE  [u EXCEPT !.sess = z, !.blocked = b] \in Conn
BY DEF Conn

LEMMA MaskType ==
  ASSUME NEW u \in Conn, NEW m \in SUBSET {"in", "out", "rdhup"}, NEW b \in BOOLEAN
  PROVE  [u EXCEPT !.mask = m, !.armed = b] \in Conn
BY DEF Conn

LEMMA ClntWriteIs ==
  ASSUME NEW u, Replies(u), NEW v \in ClntWrite(u)
  PROVE  Fine(v, {})
<1>1. u \in Conn /\ u.evr
  BY DEF Replies
<1>2. CASE u.sess = "waiting"
  BY <1>2 DEF ClntWrite, Fine, Freed
<1>3. CASE u.sess # "waiting"
  <2>1. PICK r \in NcWrite(u) :
          v \in CASE r.st = "error" -> {Freed(u)}
                  [] r.st = "ok" /\ u.sess = "sending" -> Answered(r.u)
                  [] OTHER -> {r.u}
    BY <1>3 DEF ClntWrite
  <2>2. Written(u, r)
    BY <1>1, NcWriteIs
  <2>3. /\ u.rcv = 0 /\ u.out \in 0 .. MaxOut /\ u.snd \in 0 .. Room /\ u.tls \in BOOLEAN
        /\ u.fin \in BOOLEAN
    BY <1>1, <1>3 DEF Conn, Replies
  <2>4. CASE r.st = "error"
    BY <2>1, <2>4 DEF Fine, Freed
  <2>5. CASE r.st = "ok"
    <3>1. PICK s \in 0 .. Room : r.u = [u EXCEPT !.out = 0, !.snd = s]
      BY <2>2, <2>5 DEF Written
    <3> DEFINE w == [u EXCEPT !.out = 0, !.snd = s]
    <3>2. /\ w \in Conn /\ w.evr /\ w.nc = u.nc /\ w.role = u.role /\ w.est = u.est
          /\ w.hs = u.hs /\ w.hsOut = u.hsOut /\ w.hsIn = u.hsIn /\ w.out = 0
          /\ w.tls = u.tls /\ w.fin = u.fin /\ w.rcv = u.rcv /\ w.owes = u.owes
          /\ w.mask = u.mask /\ w.armed = u.armed /\ w.sess = u.sess /\ w.snd = s
      <4>1. 0 \in 0 .. MaxOut
        BY Sizes
      <4> QED
        BY <1>1, <3>1, <4>1 DEF Conn
    <3>3. r.u = w
      BY <3>1
    <3> HIDE DEF w
    <3>4. CASE u.sess = "busy"
      <4>1. v = w
        BY <2>1, <2>5, <3>3, <3>4
      <4>2. Serves(w)
        BY <2>3, <3>2, <3>4 DEF Serves, Replies
      <4>3. Settled(w)
        BY <2>3, <3>2, <4>2, Sizes DEF Settled, Replies
      <4>4. "in" \in Level(w) => w.armed
        <5>1. "in" \in Level(w) <=> "in" \in Level(u)
          BY <3>2, LevelIs
        <5> QED
          BY <3>2, <3>4, <5>1 DEF Replies
      <4>5. Covered(w, {})
        BY <3>2, <3>4, <4>4 DEF Covered, Wants, Replies
      <4>6. Fitting(w, {})
        BY DEF Fitting
      <4> QED
        BY <4>1, <4>3, <4>5, <4>6 DEF Fine
    <3>5. CASE u.sess = "sending"
      <4> DEFINE z == [w EXCEPT !.sess = "waiting", !.blocked = FALSE]
      <4>1. v = Closed \/ v = ModFd(z, Reading)
        BY <2>1, <2>5, <3>3, <3>5 DEF Answered, Freed
      <4>2. /\ z \in Conn /\ z.evr /\ z.nc = w.nc /\ z.role = w.role /\ z.est = w.est
            /\ z.hs = w.hs /\ z.hsOut = w.hsOut /\ z.hsIn = w.hsIn /\ z.out = 0
            /\ z.rcv = w.rcv /\ z.owes = w.owes /\ z.sess = "waiting"
        <5>1. /\ "waiting" \in {"none", "flight", "waiting", "busy", "sending"}
              /\ FALSE \in BOOLEAN
          OBVIOUS
        <5>2. z \in Conn
          BY <3>2, <5>1, SessType
        <5> QED
          BY <3>2, <5>2 DEF Conn
      <4>3. Reading \in SUBSET {"in", "out", "rdhup"}
        BY DEF Reading
      <4> HIDE DEF z
      <4>4. PICK a \in BOOLEAN : /\ ModFd(z, Reading) = [z EXCEPT !.mask = Reading, !.armed = a]
                                 /\ z.armed => a
                                 /\ Listening(ModFd(z, Reading))
        BY <4>2, <4>3, ModFdIs
      <4> DEFINE y == [z EXCEPT !.mask = Reading, !.armed = a]
      <4>5. /\ y \in Conn /\ y.evr /\ y.nc = u.nc /\ y.role = u.role /\ y.est = u.est
            /\ y.hs = u.hs /\ y.hsOut = u.hsOut /\ y.hsIn = u.hsIn /\ y.out = 0
            /\ y.rcv = u.rcv /\ y.owes = u.owes /\ y.mask = Reading /\ y.sess = "waiting"
        <5>1. [z EXCEPT !.mask = Reading, !.armed = a] \in Conn
          BY <4>2, <4>3, <4>4, MaskType, ZenonT(40)
        <5>2. /\ y.evr = z.evr /\ y.nc = z.nc /\ y.role = z.role /\ y.est = z.est
              /\ y.hs = z.hs /\ y.hsOut = z.hsOut /\ y.hsIn = z.hsIn /\ y.out = z.out
              /\ y.rcv = z.rcv /\ y.owes = z.owes /\ y.mask = Reading /\ y.sess = z.sess
          BY <4>2, ZenonT(40) DEF Conn
        <5>3. y \in Conn
          BY <5>1
        <5> HIDE DEF y
        <5> QED
          BY <3>2, <4>2, <5>2, <5>3
      <4>6. ModFd(z, Reading) = y
        BY <4>4
      <4> HIDE DEF y
      <4>7. Serves(y)
        BY <2>3, <4>5 DEF Serves, Replies
      <4>8. Settled(y)
        BY <2>3, <4>5, <4>7, Sizes DEF Settled, Replies
      <4>9. Covered(y, {})
        BY <4>4, <4>6, <4>8, ListeningCovers
      <4>10. Fitting(y, {})
        BY DEF Fitting
      <4> QED
        BY <4>1, <4>6, <4>8, <4>9, <4>10 DEF Fine
    <3> QED
      BY <1>3, <3>4, <3>5 DEF Replies
  <2>6. CASE r.st = "again"
    <3>1. PICK n \in 0 .. MaxOut, s \in 0 .. Room, a \in BOOLEAN : FullAt(u, r, n, s, a)
      BY <2>2, <2>6 DEF Written
    <3> DEFINE m == RoomMask(u)
               w == [u EXCEPT !.out = n, !.snd = s, !.blocked = TRUE, !.armed = a, !.mask = m]
    <3>2. r.u = w /\ 0 < n /\ n <= u.out /\ Listening(w) /\ v = w
      BY <2>1, <2>2, <2>6, <3>1 DEF FullAt, Written
    <3>3. m \in SUBSET {"in", "out", "rdhup"}
      BY DEF RoomMask
    <3> HIDE DEF m
    <3>4. /\ w \in Conn /\ w.evr /\ w.nc = u.nc /\ w.role = u.role /\ w.est = u.est
          /\ w.hs = u.hs /\ w.hsOut = u.hsOut /\ w.hsIn = u.hsIn /\ w.out = n
          /\ w.tls = u.tls /\ w.fin = u.fin
          /\ w.rcv = u.rcv /\ w.owes = u.owes /\ w.mask = m /\ w.sess = u.sess
      BY <1>1, <3>1, <3>3 DEF Conn
    <3> HIDE DEF w
    <3>5. u.sess = "sending"
      <4>1. u.out # 0
        BY <2>3, <3>1, <3>2
      <4> QED
        BY <1>3, <4>1 DEF Replies
    <3>6. Serves(w)
      BY <2>3, <3>2, <3>4, <3>5 DEF Serves, Replies, RoomMask, m
    <3>7. Settled(w)
      BY <2>3, <3>4, <3>6, Sizes DEF Settled, Replies
    <3>8. Covered(w, {})
      BY <3>2, <3>7, ListeningCovers
    <3>9. Fitting(w, {})
      BY DEF Fitting
    <3> QED
      BY <3>2, <3>7, <3>8, <3>9 DEF Fine
  <2> QED
    BY <2>2, <2>4, <2>5, <2>6 DEF Written
<1> QED
  BY <1>2, <1>3

\* What a callback leaves of a connection that is being accepted: with TLS a turn
\* of the handshake, else the connection is made.
TriedAt(u, r, k, o, s, m, a) ==
  /\ r.u = [u EXCEPT !.hs = k, !.hsOut = o, !.hsIn = 0, !.snd = s, !.mask = m,
                     !.armed = a]
  /\ r.st = "again" => /\ u.tls /\ Listening(r.u)
                       /\ \/ o > 0 /\ m = {"out", "rdhup"}
                          \/ o = 0 /\ k > 0 /\ m = Reading
  /\ r.st = "ok" => k = 0 /\ o = 0 /\ m = Reading /\ u.hs < 2
  /\ r.st = "error" => u.fin

\* Only with reason is the connection of a client closed in a callback.
Excused(u, mode, p) ==
  \/ u.fin
  \/ u.sess \in {"busy", "sending"}
  \/ u.tls /\ u.nc = "accepting" /\ mode = "write" /\ p = {}

LEMMA ClntCallbackIs ==
  ASSUME NEW u, Settled(u), u.role = "clnt", NEW mode \in {"read", "write"},
         NEW p, mode = "read" => p \subseteq {"write"}, mode = "write" => p = {},
         Covered(u, p \union {mode}), Fitting(u, p \union {mode}),
         NEW v \in ClntCallback(u, mode)
  PROVE  Fine(v, p) /\ (v.nc = "free" => Excused(u, mode, p))
<1>1. u \in Conn /\ u.evr /\ (u.hsIn > 0 => u.hs > 0 /\ u.hsOut = 0)
  BY DEF Settled
<1>2. u.nc # "free" /\ (Accepts(u) \/ Serves(u))
  BY DEF Settled, Accepts, Connects, Serves, Flies
<1>3. /\ u.out \in 0 .. MaxOut /\ u.tls \in BOOLEAN /\ u.fin \in BOOLEAN
      /\ u.hs \in 0 .. 2 /\ u.hsOut \in 0 .. Flight /\ u.hsIn \in 0 .. 1
      /\ u.rcv \in 0 .. Parts /\ u.owes = 0 /\ "read" \notin p
  BY DEF Settled, Conn
<1>4. CASE Serves(u)
  <2>1. v \in ClntReady(u, mode) /\ u.nc = "connected"
    BY <1>4 DEF ClntCallback, Serves
  <2>2. CASE mode = "read"
    <3>1. v \in ClntRead(u)
      BY <2>1, <2>2 DEF ClntReady
    <3>2. u.tls => u.out = 0
      BY <1>3, <2>1, <2>2 DEF Fitting
    <3>3. "write" \in p => u.fin \/ u.sess = "sending"
      BY <2>1, <2>2 DEF Fitting
    <3>4. Covered(u, p \union {"read"})
      BY <2>2
    <3>5. Fine(v, p) /\ (v.nc = "free" => u.fin)
      BY <1>3, <1>4, <3>1, <3>2, <3>3, <3>4, ClntReadIs
    <3> QED
      BY <3>5 DEF Excused
  <2>3. CASE mode = "write"
    <3>1. v \in ClntWrite(u)
      BY <2>1, <2>3 DEF ClntReady
    <3>2. u.sess = "busy" /\ "in" \in Level(u) => u.armed
      BY <1>3, <1>4, <2>3 DEF Covered, Wants, Serves
    <3>3. Replies(u)
      BY <1>1, <1>3, <1>4, <3>2 DEF Replies, Serves
    <3>4. u.fin \/ u.sess = "sending"
      BY <2>1, <2>3 DEF Fitting
    <3> QED
      BY <2>3, <3>1, <3>3, <3>4, ClntWriteIs DEF Excused
  <2> QED
    BY <2>2, <2>3
<1>5. CASE Accepts(u)
  <2> DEFINE r == IF u.tls THEN Hands(u) ELSE [st |-> "ok", u |-> u]
  <2>1. v \in IF r.st = "ok" THEN ClntReady([r.u EXCEPT !.nc = "connected"], mode)
              ELSE IF r.st = "error" THEN {Freed(u)} ELSE {r.u}
    BY <1>5 DEF ClntCallback, Accepts
  \* What both kinds of connection leave.
  <2>2. \E k \in 0 .. 2, o \in 0 .. Flight, s \in 0 .. Room,
            m \in SUBSET {"in", "out", "rdhup"}, a \in BOOLEAN :
          TriedAt(u, r, k, o, s, m, a)
    <3>1. CASE u.tls
      <4>1. r = Hands(u)
        BY <3>1
      <4> HIDE DEF r
      <4>2. HandsLeave(u, r)
        BY <1>1, <4>1, HandsIs
      <4>3. PICK k \in 0 .. 2, o \in 0 .. Flight, s \in 0 .. Room,
                 m \in SUBSET {"in", "out", "rdhup"}, a \in BOOLEAN :
              HandsAt(u, r, k, o, s, m, a)
        BY <4>2 DEF HandsLeave
      <4>4. TriedAt(u, r, k, o, s, m, a)
        BY <3>1, <4>3 DEF HandsAt, TriedAt
      <4> QED
        BY <4>3, <4>4
    <3>2. CASE ~u.tls
      <4>1. r.st = "ok" /\ r.u = u
        BY <3>2
      <4>2. /\ u.hs = 0 /\ u.hsOut = 0 /\ u.hsIn = 0 /\ u.mask = Reading
            /\ u.snd \in 0 .. Room /\ u.armed \in BOOLEAN /\ u.hs < 2
            /\ u.mask \in SUBSET {"in", "out", "rdhup"}
        BY <1>1, <1>3, <1>5, <3>2 DEF Accepts, Conn
      <4>3. u = [u EXCEPT !.hs = u.hs, !.hsOut = u.hsOut, !.hsIn = 0, !.snd = u.snd,
                          !.mask = u.mask, !.armed = u.armed]
        BY <1>1, <4>2 DEF Conn
      <4> HIDE DEF r
      <4>4. TriedAt(u, r, u.hs, u.hsOut, u.snd, u.mask, u.armed)
        BY <4>1, <4>2, <4>3 DEF TriedAt
      <4> QED
        BY <1>3, <4>2, <4>4
    <3> QED
      BY <1>3, <3>1, <3>2
  <2>3. r.st \in {"again", "ok", "error"}
    BY <1>1, HandsIs DEF HandsLeave
  <2> HIDE DEF r
  <2>4. PICK k \in 0 .. 2, o \in 0 .. Flight, s \in 0 .. Room,
            m \in SUBSET {"in", "out", "rdhup"}, a \in BOOLEAN :
          TriedAt(u, r, k, o, s, m, a)
    BY <2>2
  <2> DEFINE w == [u EXCEPT !.hs = k, !.hsOut = o, !.hsIn = 0, !.snd = s, !.mask = m,
                            !.armed = a]
             z == [w EXCEPT !.nc = "connected"]
  <2>5. /\ w \in Conn /\ w.evr /\ w.nc = u.nc /\ w.role = u.role /\ w.est = u.est
        /\ w.hs = k /\ w.hsOut = o /\ w.hsIn = 0 /\ w.out = u.out
        /\ w.tls = u.tls /\ w.fin = u.fin
        /\ w.rcv = u.rcv /\ w.owes = u.owes /\ w.mask = m /\ w.sess = u.sess
    <3>1. [u EXCEPT !.hs = k, !.hsOut = o, !.hsIn = 0, !.snd = s] \in Conn
      <4>1. 0 \in 0 .. 1 /\ k \in 0 .. 2 /\ o \in 0 .. Flight /\ s \in 0 .. Room
        BY <2>4
      <4> QED
        BY <1>1, <4>1, TurnType
    <3>2. w \in Conn
      BY <2>4, <3>1 DEF Conn
    <3> QED
      BY <1>1, <3>2 DEF Conn
  <2>6. /\ z \in Conn /\ z.evr /\ z.nc = "connected" /\ z.role = u.role /\ z.est = u.est
        /\ z.hs = k /\ z.hsOut = o /\ z.hsIn = 0 /\ z.out = u.out
        /\ z.tls = u.tls /\ z.fin = u.fin
        /\ z.rcv = u.rcv /\ z.owes = u.owes /\ z.mask = m /\ z.sess = u.sess
    BY <2>5 DEF Conn
  <2>7. r.u = w
    BY <2>4 DEF TriedAt
  <2> HIDE DEF w, z
  <2>8. CASE r.st = "error"
    BY <2>1, <2>4, <2>8 DEF Fine, Freed, Excused, TriedAt
  <2>9. CASE r.st = "again"
    <3>1. v = w
      BY <2>1, <2>7, <2>9
    <3>2. Accepts(w)
      BY <1>5, <2>4, <2>5, <2>9 DEF Accepts, TriedAt
    <3>3. Settled(w)
      BY <1>3, <2>5, <3>2, Sizes DEF Settled, Accepts
    <3>4. Covered(w, p)
      BY <2>4, <2>7, <2>9, <3>3, ListeningCovers DEF TriedAt
    <3>5. Fitting(w, p)
      BY <1>3, <1>5, <2>4, <2>5, <2>9 DEF Fitting, Accepts, TriedAt
    <3>6. v.nc # "free"
      BY <3>1, <3>2 DEF Accepts
    <3> QED
      BY <3>1, <3>3, <3>4, <3>5, <3>6 DEF Fine
  <2>10. CASE r.st = "ok" /\ mode = "read"
    <3>1. v \in ClntRead(z)
      BY <2>1, <2>7, <2>10 DEF ClntReady, z
    <3>2. Serves(z)
      BY <1>5, <2>4, <2>6, <2>10 DEF Serves, Accepts, TriedAt
    <3>3. Settled(z)
      BY <1>3, <2>6, <3>2, Sizes DEF Settled, Accepts
    <3>4. Covered(z, p \union {"read"})
      BY <2>6, <3>2, <1>5 DEF Covered, Wants, Serves, Accepts
    <3>5. "write" \in p => z.fin
      BY <1>5, <2>4, <2>6, <2>10 DEF Fitting, Accepts, TriedAt
    <3>6. z.tls => z.out = 0
      BY <1>5, <2>6 DEF Accepts
    <3>7. Fine(v, p) /\ (v.nc = "free" => z.fin)
      BY <1>3, <3>1, <3>2, <3>3, <3>4, <3>5, <3>6, ClntReadIs
    <3> QED
      BY <2>6, <3>7 DEF Excused
  <2>11. CASE r.st = "ok" /\ mode = "write"
    <3>1. v \in ClntWrite(z)
      BY <2>1, <2>7, <2>11 DEF ClntReady, z
    <3>2. Replies(z)
      BY <1>3, <1>5, <2>4, <2>6, <2>11 DEF Replies, Accepts, TriedAt
    <3>3. u.fin \/ u.tls
      BY <1>5, <2>11 DEF Fitting, Accepts
    <3> QED
      BY <1>5, <2>11, <3>1, <3>2, <3>3, ClntWriteIs DEF Excused, Accepts
  <2> QED
    BY <2>3, <2>8, <2>9, <2>10, <2>11
<1> QED
  BY <1>2, <1>4, <1>5

-----------------------------------------------------------------------------
(* The connection between two steps.                                       *)

LEMMA GoodRole ==
  ASSUME NEW u, NEW p, Good(u, p)
  PROVE  /\ u.role \in Roles
         /\ u.nc = "free" => u = [Closed EXCEPT !.role = u.role]
         /\ u.nc # "free" => Settled(u)
<1>1. Settled(u) => u.role \in Roles
  BY DEF Settled, Conn
<1> QED
  BY <1>1 DEF Good

\* A free connection has the members of Closed.
LEMMA ClosedIs ==
  ASSUME NEW u, NEW r, u = [Closed EXCEPT !.role = r]
  PROVE  /\ u.nc = "free" /\ u.role = r /\ u.evr = FALSE /\ u.est = "none" /\ u.sess = "none"
         /\ u.snd = 0 /\ u.hs = 0 /\ u.hsOut = 0 /\ u.armed = FALSE /\ u.fin = FALSE
BY DEF Closed

LEMMA FreeIsGood ==
  ASSUME NEW u, NEW p, NEW r \in Roles, u = [Closed EXCEPT !.role = r]
  PROVE  Good(u, p)
<1>1. u.nc = "free" /\ u.role = r
  BY ClosedIs
<1> QED
  BY <1>1 DEF Good

LEMMA KeptIsGood ==
  ASSUME NEW u, u.role \in Roles, NEW v, NEW p, Fine(v, p)
  PROVE  Good(Kept(u, v), p)
<1>1. CASE v = Closed
  <2>1. v.nc = "free"
    BY <1>1 DEF Closed
  <2>2. Kept(u, v) = [Closed EXCEPT !.role = u.role]
    BY <1>1, <2>1 DEF Kept
  <2> QED
    BY <2>2, FreeIsGood
<1>2. CASE v # Closed
  <2>1. v.nc # "free"
    BY <1>2 DEF Fine, Settled, Accepts, Connects, Serves, Flies
  <2> QED
    BY <1>2, <2>1 DEF Kept, Fine, Good
<1> QED
  BY <1>1, <1>2

\* Whether a connection is on the ready list does not change what it is.
LEMMA ArmedIs ==
  ASSUME NEW u, Settled(u), NEW a \in BOOLEAN, NEW w, w = [u EXCEPT !.armed = a]
  PROVE  /\ Settled(w) /\ w.armed = a /\ w.nc = u.nc
         /\ Wants(w) = Wants(u) /\ Level(w) = Level(u)
         /\ \A p : Fitting(u, p) => Fitting(w, p)
<1>1. u \in Conn
  BY DEF Settled
<1>2. /\ w \in Conn /\ w.armed = a /\ w.nc = u.nc /\ w.role = u.role /\ w.tls = u.tls
      /\ w.evr = u.evr /\ w.sess = u.sess /\ w.out = u.out /\ w.hs = u.hs
      /\ w.hsOut = u.hsOut /\ w.mask = u.mask /\ w.est = u.est /\ w.rcv = u.rcv
      /\ w.snd = u.snd /\ w.fin = u.fin /\ w.hsIn = u.hsIn /\ w.owes = u.owes
      /\ w.blocked = u.blocked
  BY <1>1 DEF Conn
<1>3. Accepts(w) <=> Accepts(u)
  BY <1>2 DEF Accepts
<1>4. Connects(w) <=> Connects(u)
  BY <1>2 DEF Connects
<1>5. Serves(w) <=> Serves(u)
  BY <1>2 DEF Serves
<1>6. Flies(w) <=> Flies(u)
  BY <1>2 DEF Flies
<1>7. Settled(w)
  BY <1>2, <1>3, <1>4, <1>5, <1>6 DEF Settled
<1>8. Wants(w) = Wants(u)
  BY <1>2 DEF Wants
<1>9. Level(w) = Level(u)
  BY <1>2 DEF Level
<1>10. \A p : Fitting(u, p) => Fitting(w, p)
  BY <1>2 DEF Fitting
<1> QED
  BY <1>2, <1>7, <1>8, <1>9, <1>10

\* The kernel reports what the connection wants and was not there.
LEMMA WokenIsGood ==
  ASSUME NEW u, NEW p, Covered(u, p), NEW v, Settled(v), Fitting(v, p), v.armed = u.armed,
         NEW edges,
         "in" \in Wants(v) \intersect Level(v) =>
           \/ "in" \in Wants(u) \intersect Level(u)
           \/ "in" \in edges /\ ("rdhup" \in edges \/ v.rcv > 0 \/ v.hsIn > 0),
         "out" \in Wants(v) \intersect Level(v) =>
           "out" \in Wants(u) \intersect Level(u) \/ "out" \in edges
  PROVE  Good(Woken(v, edges), p)
<1> DEFINE a == v.armed \/ edges \intersect (v.mask \union {"err"}) # {}
           w == [v EXCEPT !.armed = a]
<1>1. v.armed \in BOOLEAN /\ v \in Conn
  BY DEF Settled, Conn
<1>2. a \in BOOLEAN
  BY <1>1
<1>3. Woken(v, edges) = w
  BY DEF Woken
<1>4. /\ Settled(w) /\ w.armed = a /\ w.nc = v.nc
      /\ Wants(w) = Wants(v) /\ Level(w) = Level(v) /\ Fitting(w, p)
  <2> HIDE DEF a
  <2> QED
    BY <1>2, ArmedIs
<1>5. ASSUME "in" \in Wants(v) \intersect Level(v) PROVE a \/ "read" \in p
  <2>1. CASE "in" \in Wants(u) \intersect Level(u)
    BY <2>1 DEF Covered
  <2>2. CASE "in" \in edges /\ ("rdhup" \in edges \/ v.rcv > 0 \/ v.hsIn > 0)
    <3>1. \/ "in" \in v.mask
          \/ v.rcv = 0 /\ v.hsIn = 0 /\ "rdhup" \in v.mask
      BY <1>5, WantsMask
    <3>2. "in" \in v.mask \/ ("rdhup" \in v.mask /\ "rdhup" \in edges)
      BY <2>2, <3>1
    <3> QED
      BY <2>2, <3>2
  <2> QED
    BY <1>5, <2>1, <2>2
<1>6. ASSUME "out" \in Wants(v) \intersect Level(v) PROVE a \/ "write" \in p
  <2>1. CASE "out" \in Wants(u) \intersect Level(u)
    BY <2>1 DEF Covered
  <2>2. CASE "out" \in edges
    <3>1. "out" \in v.mask
      BY <1>6, WantsMask
    <3> QED
      BY <2>2, <3>1
  <2> QED
    BY <1>6, <2>1, <2>2
<1>7. v.nc # "free"
  BY DEF Settled, Accepts, Connects, Serves, Flies
<1> HIDE DEF a, w
<1>8. Covered(w, p)
  BY <1>4, <1>5, <1>6 DEF Covered
<1> QED
  BY <1>3, <1>4, <1>7, <1>8 DEF Good

\* epoll_wait() takes it off the list, and the callbacks are called for all of
\* what it wanted.
LEMMA PolledIsGood ==
  ASSUME NEW u, Good(u, {})
  PROVE  Good([u EXCEPT !.armed = FALSE], IF u.armed THEN Callbacks(u) ELSE {})
<1> DEFINE w == [u EXCEPT !.armed = FALSE]
           p == IF u.armed THEN Callbacks(u) ELSE {}
<1>1. CASE u.nc = "free"
  <2>1. u = [Closed EXCEPT !.role = u.role] /\ u.role \in Roles
    BY <1>1, GoodRole
  <2>2. w = [Closed EXCEPT !.role = u.role]
    <3> DEFINE r == u.role
               k == [Closed EXCEPT !.role = r]
    <3>1. u = k
      BY <2>1
    <3> HIDE DEF r
    <3>2. /\ DOMAIN k = DOMAIN Closed /\ k = [f \in DOMAIN k |-> k[f]]
          /\ "armed" \in DOMAIN k /\ k.armed = FALSE
      BY DEF Closed
    <3> HIDE DEF k
    <3>4. [k EXCEPT !.armed = FALSE] = k
      BY <3>2
    <3> QED
      BY <3>1, <3>4 DEF r, k
  <2> QED
    BY <2>1, <2>2, FreeIsGood
<1>2. CASE u.nc # "free"
  <2>1. Settled(u) /\ Covered(u, {}) /\ u \in Conn
    BY <1>2 DEF Good, Settled
  <2>2. /\ Settled(w) /\ w.armed = FALSE /\ w.nc = u.nc
        /\ Wants(w) = Wants(u) /\ Level(w) = Level(u)
        /\ Fitting(u, p) => Fitting(w, p)
    BY <2>1, ArmedIs
  <2>3. "read" \in p <=> u.armed /\ Reported(u) \intersect {"in", "rdhup", "err"} # {}
    BY DEF Callbacks
  <2>4. "write" \in p <=> u.armed /\ "out" \in Reported(u)
    BY DEF Callbacks
  <2> HIDE DEF w, p
  <2>5. ASSUME "in" \in Wants(u) \intersect Level(u) PROVE "read" \in p
    <3>1. u.armed
      BY <2>1, <2>5 DEF Covered
    <3>2. \/ "in" \in u.mask
          \/ u.rcv = 0 /\ u.hsIn = 0 /\ "rdhup" \in u.mask
      BY <2>1, <2>5, WantsMask
    <3>3. "in" \in Reported(u) \/ "rdhup" \in Reported(u)
      BY <2>5, <3>2, LevelIs DEF Reported
    <3> QED
      BY <2>3, <3>1, <3>3
  <2>6. ASSUME "out" \in Wants(u) \intersect Level(u) PROVE "write" \in p
    <3>1. u.armed
      BY <2>1, <2>6 DEF Covered
    <3>2. "out" \in u.mask
      BY <2>1, <2>6, WantsMask
    <3> QED
      BY <2>4, <2>6, <3>1, <3>2 DEF Reported
  <2>7. Covered(w, p)
    BY <2>2, <2>5, <2>6 DEF Covered
  <2>8. Fitting(u, p)
    <3>1. "err" \in Reported(u) => u.est = "bad"
      BY LevelIs DEF Reported
    <3>2. /\ "in" \in Reported(u) => "in" \in u.mask
          /\ "out" \in Reported(u) => "out" \in u.mask
          /\ "rdhup" \in Reported(u) => "rdhup" \in u.mask /\ u.fin
      BY LevelIs DEF Reported
    <3>3. u.tls \in BOOLEAN /\ u.fin \in BOOLEAN /\ u.blocked \in BOOLEAN
          /\ u.out \in 0 .. MaxOut
      BY <2>1 DEF Conn
    <3>4. ASSUME u.tls, u.nc = "connected", u.out > 0 PROVE "read" \notin p
      <4>1. u.mask = {"out"} /\ u.est = "up"
        BY <2>1, <3>3, <3>4 DEF Settled, Accepts, Connects, Serves, Flies
      <4> QED
        BY <2>3, <3>1, <3>2, <4>1
    <3>5. ASSUME u.role = "clnt", "write" \in p
          PROVE  \/ u.fin
                 \/ u.nc = "connected" /\ u.sess = "sending"
                 \/ u.nc = "accepting" /\ u.tls /\ ("read" \in p => u.hs = 2)
      <4>1. "out" \in u.mask
        BY <2>4, <3>2, <3>5
      <4>2. CASE Accepts(u)
        <5>1. u.tls /\ u.est = "up" /\ u.nc = "accepting"
          BY <4>1, <4>2 DEF Accepts, Reading
        <5>2. \/ u.hs = 2
              \/ u.mask = {"out", "rdhup"}
          BY <4>1, <4>2, <5>1 DEF Accepts, Reading
        <5>3. "read" \in p /\ u.mask = {"out", "rdhup"} => u.fin
          BY <2>3, <3>1, <3>2, <5>1
        <5> QED
          BY <5>1, <5>2, <5>3
      <4>3. CASE Serves(u)
        BY <4>1, <4>3 DEF Serves, Reading
      <4> QED
        BY <2>1, <3>5, <4>2, <4>3 DEF Settled, Connects, Flies
    <3> QED
      BY <3>4, <3>5 DEF Fitting
  <2> QED
    BY <1>2, <2>2, <2>7, <2>8 DEF Good, w, p
<1> QED
  BY <1>1, <1>2

-----------------------------------------------------------------------------
(* The kernel and the peer.                                                *)

\* What they change on a connection that is not free.
LEMMA WithoutFree ==
  ASSUME Good(x, cb), x.est # "none" \/ x.snd > 0 \/ x.hs > 0 \/ x.hsOut > 0
  PROVE  x.nc # "free" /\ Settled(x) /\ Covered(x, cb) /\ Fitting(x, cb)
<1>1. x.nc # "free"
  <2>1. SUFFICES ASSUME x.nc = "free" PROVE FALSE
    OBVIOUS
  <2>2. x = [Closed EXCEPT !.role = x.role]
    BY <2>1, GoodRole
  <2>3. x.est = "none" /\ x.snd = 0 /\ x.hs = 0 /\ x.hsOut = 0
    BY <2>2, ClosedIs
  <2> QED
    BY <2>3
<1> QED
  BY <1>1 DEF Good

LEMMA EstablishedIsGood ==
  ASSUME Good(x, cb), Established \/ Refused
  PROVE  Good(x', cb)
<1>1. x.est = "syn" /\ Settled(x) /\ Covered(x, cb) /\ Fitting(x, cb)
  BY WithoutFree DEF Established, Refused
<1>2. Connects(x) /\ x.hs = 0 /\ x.hsOut = 0
  BY <1>1 DEF Settled, Accepts, Connects, Serves, Flies
<1>3. PICK e \in {"up", "bad"}, edges \in {{"out"}, {"out", "err"}} :
        x' = Woken([x EXCEPT !.est = e], edges)
  BY DEF Established, Refused
<1> DEFINE v == [x EXCEPT !.est = e]
<1>4. /\ v \in Conn /\ v.est = e /\ v.nc = x.nc /\ v.role = x.role /\ v.tls = x.tls
      /\ v.evr = x.evr /\ v.sess = x.sess /\ v.out = x.out /\ v.hs = x.hs
      /\ v.hsOut = x.hsOut /\ v.mask = x.mask /\ v.rcv = x.rcv /\ v.snd = x.snd
      /\ v.hsIn = x.hsIn /\ v.owes = x.owes /\ v.blocked = x.blocked /\ v.armed = x.armed
      /\ v.fin = x.fin
  <2>1. x \in Conn /\ e \in {"none", "syn", "up", "bad"}
    BY <1>1 DEF Settled
  <2> QED
    BY <2>1 DEF Conn
<1> HIDE DEF v
<1>5. Connects(v)
  BY <1>2, <1>4 DEF Connects
<1>6. Settled(v)
  BY <1>1, <1>4, <1>5 DEF Settled
<1>7. Wants(v) = {"out"} /\ "out" \in edges
  BY <1>2, <1>4, <1>5 DEF Wants, Connects
<1>8. Fitting(v, cb)
  BY <1>1, <1>4 DEF Fitting
<1>9. Good(Woken(v, edges), cb)
  BY <1>1, <1>4, <1>6, <1>7, <1>8, WokenIsGood
<1> QED
  BY <1>3, <1>9 DEF v

LEMMA PeerTakesIsGood ==
  ASSUME Good(x, cb), PeerTakes
  PROVE  Good(x', cb)
<1>1. x.snd > 0 /\ Settled(x) /\ Covered(x, cb) /\ Fitting(x, cb) /\ x \in Conn
  BY WithoutFree DEF PeerTakes, Settled
<1> DEFINE v == [x EXCEPT !.snd = @ - 1]
           edges == IF x.snd = Room THEN {"out"} ELSE {}
<1>2. x' = Woken(v, edges)
  BY DEF PeerTakes
<1>3. x.snd - 1 \in 0 .. Room /\ x.snd \in 0 .. Room
  <2>1. x.snd \in 0 .. Room
    BY <1>1 DEF Conn
  <2> QED
    BY <1>1, <2>1, Sizes
<1>4. /\ v \in Conn /\ v.est = x.est /\ v.nc = x.nc /\ v.role = x.role /\ v.tls = x.tls
      /\ v.evr = x.evr /\ v.sess = x.sess /\ v.out = x.out /\ v.hs = x.hs
      /\ v.hsOut = x.hsOut /\ v.mask = x.mask /\ v.rcv = x.rcv /\ v.snd = x.snd - 1
      /\ v.hsIn = x.hsIn /\ v.owes = x.owes /\ v.blocked = x.blocked /\ v.armed = x.armed
      /\ v.fin = x.fin
  <2> DEFINE n == x.snd - 1
  <2>1. v = [x EXCEPT !.snd = n]
    OBVIOUS
  <2>2. n \in 0 .. Room
    BY <1>3
  <2> HIDE DEF n
  <2>3. /\ v \in Conn /\ v.snd = n
        /\ v.est = x.est /\ v.nc = x.nc /\ v.role = x.role /\ v.tls = x.tls
        /\ v.evr = x.evr /\ v.sess = x.sess /\ v.out = x.out /\ v.hs = x.hs
        /\ v.hsOut = x.hsOut /\ v.mask = x.mask /\ v.rcv = x.rcv
        /\ v.hsIn = x.hsIn /\ v.owes = x.owes /\ v.blocked = x.blocked /\ v.armed = x.armed
        /\ v.fin = x.fin
    BY <1>1, <2>1, <2>2 DEF Conn
  <2> QED
    BY <2>3 DEF n
<1> HIDE DEF v
<1>5. x.nc = "connecting" => x.hs + x.hsOut > 0
  <2>1. x.hs \in 0 .. 2 /\ x.hsOut \in 0 .. Flight
    BY <1>1 DEF Conn
  <2> QED
    BY <1>1, <2>1 DEF Settled, Accepts, Connects, Serves, Flies
<1>6. /\ Accepts(v) <=> Accepts(x)
      /\ Connects(v) <=> Connects(x)
      /\ Serves(v) <=> Serves(x)
      /\ Flies(v) <=> Flies(x)
  <2>1. Accepts(v) <=> Accepts(x)
    BY <1>4 DEF Accepts
  <2>2. Connects(v) <=> Connects(x)
    <3>1. x.hs \in 0 .. 2 /\ x.hsOut \in 0 .. Flight
      BY <1>1 DEF Conn
    <3> QED
      BY <1>4, <1>5, <3>1 DEF Connects
  <2>3. Serves(v) <=> Serves(x)
    BY <1>4 DEF Serves
  <2>4. Flies(v) <=> Flies(x)
    BY <1>4 DEF Flies
  <2> QED
    BY <2>1, <2>2, <2>3, <2>4
<1>7. Settled(v)
  BY <1>1, <1>4, <1>6 DEF Settled
<1>8. Wants(v) = Wants(x)
  BY <1>4 DEF Wants
<1>9. "in" \in Level(v) <=> "in" \in Level(x)
  BY <1>4, LevelIs
<1>10. "out" \in Level(v) => "out" \in Level(x) \/ "out" \in edges
  BY <1>3, <1>4, Sizes, LevelIs
<1>11. Fitting(v, cb)
  BY <1>1, <1>4 DEF Fitting
<1> HIDE DEF edges
<1>12. Good(Woken(v, edges), cb)
  BY <1>1, <1>4, <1>7, <1>8, <1>9, <1>10, <1>11, WokenIsGood
<1> QED
  BY <1>2, <1>12

LEMMA PeerShakesIsGood ==
  ASSUME Good(x, cb), PeerShakes
  PROVE  Good(x', cb)
<1>1. /\ x.hs > 0 /\ x.hsOut = 0 /\ Settled(x) /\ Covered(x, cb) /\ Fitting(x, cb)
      /\ x \in Conn
  BY WithoutFree DEF PeerShakes, Settled
<1> DEFINE v == [x EXCEPT !.hsIn = 1]
<1>2. x' = Woken(v, {"in"})
  BY DEF PeerShakes
<1>3. /\ v \in Conn /\ v.est = x.est /\ v.nc = x.nc /\ v.role = x.role /\ v.tls = x.tls
      /\ v.evr = x.evr /\ v.sess = x.sess /\ v.out = x.out /\ v.hs = x.hs
      /\ v.hsOut = x.hsOut /\ v.mask = x.mask /\ v.rcv = x.rcv /\ v.snd = x.snd
      /\ v.hsIn = 1 /\ v.owes = x.owes /\ v.blocked = x.blocked /\ v.armed = x.armed
      /\ v.fin = x.fin
  <2>1. 1 \in 0 .. 1
    OBVIOUS
  <2> QED
    BY <1>1, <2>1 DEF Conn
<1> HIDE DEF v
<1>4. Accepts(v) \/ Connects(v)
  BY <1>1, <1>3 DEF Settled, Accepts, Connects, Serves, Flies
<1>5. Settled(v)
  BY <1>1, <1>3, <1>4 DEF Settled
<1>6. Wants(v) = Wants(x)
  BY <1>3 DEF Wants
<1>7. "out" \in Level(v) => "out" \in Level(x)
  BY <1>3, LevelIs
<1>8. Fitting(v, cb)
  BY <1>1, <1>3 DEF Fitting
<1>9. Good(Woken(v, {"in"}), cb)
  BY <1>1, <1>3, <1>5, <1>6, <1>7, <1>8, WokenIsGood
<1> QED
  BY <1>2, <1>9

LEMMA PeerSendsIsGood ==
  ASSUME Good(x, cb), PeerSends
  PROVE  Good(x', cb)
<1>1. /\ Settled(x) /\ Covered(x, cb) /\ Fitting(x, cb) /\ x \in Conn
      /\ x.hs = 0 /\ x.hsOut = 0 /\ x.est = "up"
  BY WithoutFree DEF PeerSends, Settled
<1>2. /\ x.rcv \in 0 .. Parts /\ x.owes \in 0 .. Parts /\ x.hsIn \in 0 .. 1
      /\ x.rcv + x.owes <= Parts
  BY <1>1 DEF Conn, Settled
<1>3. PICK n, o : /\ x' = Woken([x EXCEPT !.rcv = n, !.owes = o], {"in"})
                  /\ n \in 1 .. Parts /\ o \in 0 .. Parts /\ n + o <= Parts
                  /\ \/ x.role = "clnt" /\ x.sess = "waiting" /\ o = x.owes
                     \/ x.role = "ups" /\ x.nc = "connected" /\ x.owes > 0
  <2>1. CASE /\ x.role = "clnt" /\ x.sess = "waiting" /\ x.rcv = 0
             /\ x' = Woken([x EXCEPT !.rcv = 1], {"in"})
    <3>1. x.owes = 0
      BY <1>1, <2>1 DEF Settled
    <3>2. [x EXCEPT !.rcv = 1] = [x EXCEPT !.rcv = 1, !.owes = x.owes]
      BY <1>1 DEF Conn
    <3>3. 1 \in 1 .. Parts /\ 1 + x.owes <= Parts
      BY <3>1, Sizes
    <3> QED
      BY <1>2, <2>1, <3>2, <3>3
  <2>2. CASE /\ x.role = "ups" /\ x.nc = "connected" /\ x.owes > 0
             /\ x' = Woken([x EXCEPT !.rcv = @ + 1, !.owes = @ - 1], {"in"})
    <3>1. /\ x.rcv + 1 \in 1 .. Parts /\ x.owes - 1 \in 0 .. Parts
          /\ (x.rcv + 1) + (x.owes - 1) <= Parts
      BY <1>2, <2>2, Sizes
    <3> QED
      BY <2>2, <3>1
  <2> QED
    BY <2>1, <2>2 DEF PeerSends
<1> DEFINE v == [x EXCEPT !.rcv = n, !.owes = o]
<1>4. /\ v \in Conn /\ v.est = x.est /\ v.nc = x.nc /\ v.role = x.role /\ v.tls = x.tls
      /\ v.evr = x.evr /\ v.sess = x.sess /\ v.out = x.out /\ v.hs = x.hs
      /\ v.hsOut = x.hsOut /\ v.mask = x.mask /\ v.rcv = n /\ v.snd = x.snd
      /\ v.hsIn = x.hsIn /\ v.owes = o /\ v.blocked = x.blocked /\ v.armed = x.armed
      /\ v.fin = x.fin
  <2>1. n \in 0 .. Parts /\ o \in 0 .. Parts
    BY <1>3, Sizes
  <2> QED
    BY <1>1, <2>1 DEF Conn
<1> HIDE DEF v
<1>5. Accepts(v) \/ Serves(v) \/ Flies(v)
  <2>1. CASE Accepts(x)
    BY <1>4, <2>1 DEF Accepts
  <2>2. CASE Connects(x)
    BY <1>1, <1>3, <2>2 DEF Connects
  <2>3. CASE Serves(x)
    BY <1>3, <1>4, <2>3 DEF Serves
  <2>4. CASE Flies(x)
    BY <1>2, <1>3, <1>4, <2>4 DEF Flies
  <2> QED
    BY <1>1, <2>1, <2>2, <2>3, <2>4 DEF Settled
<1>6. Settled(v)
  BY <1>1, <1>3, <1>4, <1>5 DEF Settled
<1>7. Wants(v) = Wants(x)
  BY <1>4 DEF Wants
<1>8. "out" \in Level(v) => "out" \in Level(x)
  BY <1>4, LevelIs
<1>9. v.rcv > 0
  BY <1>3, <1>4
<1>10. Fitting(v, cb)
  BY <1>1, <1>4 DEF Fitting
<1>11. Good(Woken(v, {"in"}), cb)
  BY <1>1, <1>4, <1>6, <1>7, <1>8, <1>9, <1>10, WokenIsGood
<1> QED
  BY <1>3, <1>11 DEF v

LEMMA PeerClosesIsGood ==
  ASSUME Good(x, cb), PeerCloses
  PROVE  Good(x', cb)
<1>1. x.est = "up" /\ Settled(x) /\ Covered(x, cb) /\ Fitting(x, cb) /\ x \in Conn
  BY WithoutFree DEF PeerCloses, Settled
<1> DEFINE v == [x EXCEPT !.fin = TRUE]
<1>2. x' = Woken(v, {"in", "rdhup"})
  BY DEF PeerCloses
<1>3. /\ v \in Conn /\ v.est = x.est /\ v.nc = x.nc /\ v.role = x.role /\ v.tls = x.tls
      /\ v.evr = x.evr /\ v.sess = x.sess /\ v.out = x.out /\ v.hs = x.hs
      /\ v.hsOut = x.hsOut /\ v.mask = x.mask /\ v.rcv = x.rcv /\ v.snd = x.snd
      /\ v.hsIn = x.hsIn /\ v.owes = x.owes /\ v.blocked = x.blocked /\ v.armed = x.armed
      /\ v.fin = TRUE
  BY <1>1 DEF Conn
<1> HIDE DEF v
<1>4. /\ Accepts(v) <=> Accepts(x)
      /\ Connects(v) <=> Connects(x)
      /\ Serves(v) <=> Serves(x)
      /\ Flies(v) <=> Flies(x)
  <2>1. Accepts(v) <=> Accepts(x)
    BY <1>3 DEF Accepts
  <2>2. Connects(v) <=> Connects(x)
    BY <1>3 DEF Connects
  <2>3. Serves(v) <=> Serves(x)
    BY <1>3 DEF Serves
  <2>4. Flies(v) <=> Flies(x)
    BY <1>3 DEF Flies
  <2> QED
    BY <2>1, <2>2, <2>3, <2>4
<1>5. Settled(v)
  BY <1>1, <1>3, <1>4 DEF Settled
<1>6. Wants(v) = Wants(x)
  BY <1>3 DEF Wants
<1>7. "out" \in Level(v) => "out" \in Level(x)
  BY <1>3, LevelIs
<1>8. Fitting(v, cb)
  BY <1>1, <1>3 DEF Fitting
<1>9. Good(Woken(v, {"in", "rdhup"}), cb)
  BY <1>1, <1>3, <1>5, <1>6, <1>7, <1>8, WokenIsGood
<1> QED
  BY <1>2, <1>9

-----------------------------------------------------------------------------
(* The steps of the thread.                                                *)

LEMMA InitIsGood == Init => IInv
<1> SUFFICES ASSUME Init PROVE IInv
  OBVIOUS
<1>1. "ups" \in Roles
  BY DEF Roles
<1>2. Good(x, cb)
  BY <1>1, FreeIsGood DEF Init
<1> QED
  BY <1>2 DEF Init, IInv

\* The callbacks of an event.
LEMMA EventIsGood ==
  ASSUME IInv, NEW mode \in {"read", "write"}, Event(mode)
  PROVE  Good(x', cb')
<1> DEFINE p == cb \ {mode}
<1>1. /\ cb' = p /\ mode \in cb /\ cb = p \union {mode}
      /\ mode = "read" => p \subseteq {"write"}
      /\ mode = "write" => p = {}
      /\ "read" \notin p
  BY DEF Event, IInv
<1> HIDE DEF p
<1>2. PICK v \in Callback(x, mode) : x' = Kept(x, v)
  BY DEF Event
<1>3. x.role \in Roles /\ Good(x, cb)
  BY GoodRole DEF IInv
<1>4. CASE x.nc = "free"
  <2>1. x = [Closed EXCEPT !.role = x.role]
    BY <1>3, <1>4, GoodRole
  <2>2. v = x \/ v = Closed
    <3>1. CASE x.role = "clnt"
      BY <1>2, <1>4, <3>1 DEF Callback, ClntCallback
    <3>2. CASE x.role # "clnt" /\ mode = "read"
      BY <1>2, <1>4, <3>2 DEF Callback, UpsCallback
    <3>3. CASE x.role # "clnt" /\ mode = "write"
      BY <1>2, <1>4, <3>3 DEF Callback, UpsCallback, Stray, Freed
    <3> QED
      BY <3>1, <3>2, <3>3
  <2>3. CASE v = x
    <3>1. x' = [x EXCEPT !.role = x.role]
      BY <1>2, <1>4, <2>3 DEF Kept
    <3>2. x' = [Closed EXCEPT !.role = x.role]
      BY <2>1, <3>1 DEF Closed
    <3> QED
      BY <1>3, <3>2, FreeIsGood
  <2>4. CASE v = Closed
    <3>1. Fine(v, cb')
      BY <2>4 DEF Fine
    <3> QED
      BY <1>2, <1>3, <3>1, KeptIsGood
  <2> QED
    BY <2>2, <2>3, <2>4
<1>5. CASE x.nc # "free"
  <2>1. Settled(x) /\ Covered(x, p \union {mode}) /\ Fitting(x, p \union {mode})
    BY <1>1, <1>3, <1>5 DEF Good
  <2>2. Fine(v, p)
    <3>1. CASE x.role = "clnt"
      <4>1. v \in ClntCallback(x, mode)
        BY <1>2, <3>1 DEF Callback
      <4> QED
        BY <1>1, <2>1, <3>1, <4>1, ClntCallbackIs
    <3>2. CASE x.role = "ups"
      <4>1. v \in UpsCallback(x, mode)
        BY <1>2, <3>2 DEF Callback
      <4> QED
        BY <1>1, <2>1, <3>2, <4>1, UpsCallbackIs
    <3> QED
      BY <1>3, <3>1, <3>2 DEF Roles
  <2> QED
    BY <1>1, <1>2, <1>3, <2>2, KeptIsGood
<1> QED
  BY <1>4, <1>5

\* A new connection of a client, registered for what it waits for.
LEMMA AcceptIsGood ==
  ASSUME NEW flight \in 0 .. Flight, Accept(flight)
  PROVE  Good(x', cb')
<1> DEFINE u == [Closed EXCEPT !.role = "clnt", !.tls = flight > 0, !.flight = flight,
                               !.evr = TRUE, !.sess = "waiting"]
           y == [u EXCEPT !.nc = "accepting", !.est = "up", !.hs = IF u.tls THEN 2 ELSE 0]
           m == Reading \union IF u.tls THEN {"out"} ELSE {}
<1>1. x' = ModFd(y, m) /\ cb' = {}
  BY DEF Accept, Accepting
<1>2. /\ y.nc = "accepting" /\ y.role = "clnt" /\ y.est = "up" /\ y.sess = "waiting"
      /\ y.out = 0 /\ y.hsOut = 0 /\ y.evr = TRUE /\ y.rcv = 0 /\ y.owes = 0 /\ y.hsIn = 0
      /\ y.tls = (flight > 0) /\ y.hs = IF y.tls THEN 2 ELSE 0
      /\ m = Reading \union IF y.tls THEN {"out"} ELSE {}
  BY DEF Closed
<1>3. y \in Conn
  <2>1. /\ 0 \in 0 .. MaxOut /\ 0 \in 0 .. Flight /\ 0 \in 0 .. Parts /\ 0 \in 0 .. Room
        /\ (IF flight > 0 THEN 2 ELSE 0) \in 0 .. 2 /\ 0 \in 0 .. 1
        /\ (flight > 0) \in BOOLEAN /\ {} \in SUBSET {"in", "out", "rdhup"}
    BY Sizes
  <2>2. "clnt" \in Roles
    BY DEF Roles
  <2> QED
    BY <2>1, <2>2 DEF Conn, Closed
<1>4. m \in SUBSET {"in", "out", "rdhup"}
  BY DEF Reading
<1> HIDE DEF u, y, m
<1>5. PICK a \in BOOLEAN : /\ ModFd(y, m) = [y EXCEPT !.mask = m, !.armed = a]
                           /\ y.armed => a
                           /\ Listening(ModFd(y, m))
  BY <1>2, <1>3, <1>4, ModFdIs
<1> DEFINE w == [y EXCEPT !.mask = m, !.armed = a]
<1>6. /\ w \in Conn /\ w.nc = y.nc /\ w.role = y.role /\ w.est = y.est /\ w.sess = y.sess
      /\ w.out = y.out /\ w.hsOut = y.hsOut /\ w.evr = y.evr /\ w.rcv = y.rcv
      /\ w.owes = y.owes /\ w.hsIn = y.hsIn /\ w.tls = y.tls /\ w.hs = y.hs /\ w.mask = m
  <2>1. [y EXCEPT !.mask = m, !.armed = a] \in Conn
    BY <1>3, <1>4, <1>5, MaskType
  <2>2. w \in Conn
    BY <2>1
  <2> QED
    BY <1>3, <2>2 DEF Conn
<1>7. x' = w /\ Listening(w)
  BY <1>1, <1>5
<1> HIDE DEF w
<1>8. Accepts(w)
  <2>1. CASE flight > 0
    BY <1>2, <1>6, <2>1 DEF Accepts
  <2>2. CASE ~(flight > 0)
    BY <1>2, <1>6, <2>2 DEF Accepts
  <2> QED
    BY <2>1, <2>2
<1>9. Settled(w)
  BY <1>2, <1>6, <1>8, Sizes DEF Settled
<1>10. Covered(w, {})
  BY <1>7, <1>9, ListeningCovers
<1>11. Fitting(w, {})
  BY DEF Fitting
<1> QED
  BY <1>1, <1>2, <1>6, <1>7, <1>9, <1>10, <1>11 DEF Good

\* The response of a request that was read.
LEMMA AnswerIsGood ==
  ASSUME IInv, NEW n \in 1 .. MaxOut, Answer(n)
  PROVE  Good(x', cb')
<1> DEFINE y == [x EXCEPT !.sess = "sending", !.out = n]
<1>1. /\ pc = "run" /\ cb = {} /\ cb' = {} /\ x.role = "clnt" /\ x.sess = "busy"
      /\ Good(x, cb) /\ x.role \in Roles
  BY GoodRole DEF Answer, IInv
<1>2. x.nc # "free"
  <2>1. x.nc = "free" => x = [Closed EXCEPT !.role = x.role]
    BY <1>1, GoodRole
  <2> QED
    BY <1>1, <2>1, ClosedIs
<1>3. Settled(x) /\ x \in Conn
  BY <1>1, <1>2 DEF Good, Settled
<1>4. Serves(x)
  BY <1>1, <1>3 DEF Settled, Accepts, Connects, Serves, Flies
<1>5. /\ y \in Conn /\ y.evr = x.evr /\ y.nc = x.nc /\ y.role = x.role /\ y.est = x.est
      /\ y.hs = x.hs /\ y.hsOut = x.hsOut /\ y.hsIn = x.hsIn /\ y.owes = x.owes
      /\ y.sess = "sending" /\ y.rcv = x.rcv /\ y.out = n
  <2>1. n \in 0 .. MaxOut
    BY Sizes
  <2> QED
    BY <1>3, <2>1 DEF Conn
<1>6. PICK v \in ClntCallback(y, "write") : x' = Kept(x, v)
  BY DEF Answer
<1> HIDE DEF y
<1>7. Replies(y)
  <2>1. x.hsIn = 0 /\ x.owes = 0
    <3>1. x.hsIn \in 0 .. 1
      BY <1>3 DEF Conn
    <3> QED
      BY <1>1, <1>3, <1>4, <3>1 DEF Settled, Serves
  <2> QED
    BY <1>1, <1>3, <1>4, <1>5, <2>1 DEF Replies, Serves, Settled
<1>8. v \in ClntWrite(y)
  BY <1>4, <1>5, <1>6 DEF ClntCallback, ClntReady, Serves
<1>9. Fine(v, {})
  BY <1>7, <1>8, ClntWriteIs
<1> QED
  BY <1>1, <1>6, <1>9, KeptIsGood

\* A subrequest on a new connection, or on one that was idle.
LEMMA StartIsGood ==
  ASSUME IInv, NEW n \in 1 .. MaxOut, NEW tls \in BOOLEAN, Start(n, tls)
  PROVE  Good(x', cb')
<1> DEFINE z == [Closed EXCEPT !.role = "ups", !.tls = tls, !.evr = TRUE]
           u == IF x.nc = "free" THEN SetUp(z) ELSE x
           y == [u EXCEPT !.sess = "flight", !.out = n, !.owes = Parts]
<1>1. pc = "run" /\ cb = {} /\ cb' = {} /\ Good(x, cb)
  BY DEF Start, IInv
<1>2. PICK v \in UpsCallback(y, "write") : x' = Kept(u, v)
  BY DEF Start
<1>3. /\ n \in 0 .. MaxOut /\ n > 0 /\ 0 \in 0 .. MaxOut /\ 0 \in 0 .. Flight
      /\ 0 \in 0 .. Parts /\ 0 \in 0 .. Room /\ 0 \in 0 .. 2 /\ 0 \in 0 .. 1
      /\ Parts \in 0 .. Parts /\ 0 + Parts <= Parts
  BY Sizes
<1>4. CASE x.nc = "free"
  <2> DEFINE c == [z EXCEPT !.nc = "connecting"]
  <2>1. u = ModFd(c, Reading)
    BY <1>4 DEF SetUp
  <2>2. /\ c.nc = "connecting" /\ c.role = "ups" /\ c.evr = TRUE /\ c.tls = tls
        /\ c.est = "none" /\ c.rcv = 0 /\ c.snd = 0 /\ c.hs = 0 /\ c.hsOut = 0
        /\ c.hsIn = 0 /\ c.blocked = FALSE
    BY DEF Closed
  <2>3. c \in Conn
    <3>1. "ups" \in Roles /\ {} \in SUBSET {"in", "out", "rdhup"}
      BY DEF Roles
    <3> QED
      BY <1>3, <3>1, ZenonT(60) DEF Conn, Closed
  <2>4. Reading \in SUBSET {"in", "out", "rdhup"}
    BY DEF Reading
  <2> HIDE DEF z, u, c
  <2>5. PICK a \in BOOLEAN : u = [c EXCEPT !.mask = Reading, !.armed = a]
    BY <2>1, <2>2, <2>3, <2>4, ModFdIs
  <2>6. /\ u \in Conn /\ u.nc = c.nc /\ u.role = c.role /\ u.evr = c.evr
        /\ u.hs = c.hs /\ u.hsOut = c.hsOut /\ u.hsIn = c.hsIn /\ u.rcv = c.rcv
        /\ u.snd = c.snd /\ u.blocked = c.blocked
    <3>1. u \in Conn
      BY <2>3, <2>4, <2>5, MaskType, ZenonT(40)
    <3> QED
      BY <2>3, <2>5, <3>1 DEF Conn
  <2>7. /\ y \in Conn /\ y.nc = u.nc /\ y.role = u.role /\ y.evr = u.evr
        /\ y.hs = u.hs /\ y.hsOut = u.hsOut /\ y.hsIn = u.hsIn /\ y.rcv = u.rcv
        /\ y.snd = u.snd /\ y.blocked = u.blocked /\ y.sess = "flight"
    BY <1>3, <2>6 DEF Conn
  <2> HIDE DEF y
  <2>8. Reaches(y, {})
    BY <2>2, <2>6, <2>7 DEF Reaches
  <2>9. v \in UpsConnect(y, "write")
    BY <1>2, <2>2, <2>6, <2>7 DEF UpsCallback
  <2>10. Fine(v, {})
    BY <2>2, <2>6, <2>7, <2>8, <2>9, UpsConnectIs
  <2>11. u.role \in Roles
    BY <2>2, <2>6 DEF Roles
  <2> QED
    BY <1>1, <1>2, <2>10, <2>11, KeptIsGood
<1>5. CASE x.nc # "free"
  <2>1. u = x /\ x.role = "ups" /\ x.sess = "none"
    BY <1>5 DEF Start
  <2>2. Settled(x) /\ x \in Conn /\ Covered(x, {})
    BY <1>1, <1>5 DEF Good, Settled
  <2>3. Flies(x)
    BY <2>1, <2>2 DEF Settled, Accepts, Connects, Serves, Flies
  <2> HIDE DEF u
  <2>4. /\ y \in Conn /\ y.nc = x.nc /\ y.role = x.role /\ y.evr = x.evr
        /\ y.hs = x.hs /\ y.hsOut = x.hsOut /\ y.hsIn = x.hsIn /\ y.rcv = x.rcv
        /\ y.snd = x.snd /\ y.blocked = x.blocked /\ y.sess = "flight" /\ y.tls = x.tls
        /\ y.out = n /\ y.owes = Parts /\ y.mask = x.mask /\ y.armed = x.armed
        /\ y.est = x.est /\ y.fin = x.fin
    BY <1>3, <2>1, <2>2 DEF Conn
  <2> HIDE DEF y
  <2>5. x.hsIn = 0 /\ x.rcv = 0 /\ x.blocked \in BOOLEAN /\ x.tls \in BOOLEAN
    <3>1. x.hsIn \in 0 .. 1 /\ x.blocked \in BOOLEAN /\ x.tls \in BOOLEAN
      BY <2>2 DEF Conn
    <3> QED
      BY <2>1, <2>2, <2>3, <3>1 DEF Settled, Flies
  <2>6. "in" \in Level(x) => x.armed
    <3>1. Wants(x) = {"in"}
      BY <2>1, <2>3 DEF Wants, Flies
    <3> QED
      BY <2>2, <3>1 DEF Covered
  <2>7. "in" \in Level(y) <=> "in" \in Level(x)
    BY <2>4, LevelIs
  <2>8. Sends(y, {})
    <3>1. ~x.blocked => x.mask = Reading
      BY <2>3 DEF Flies
    <3>2. x.blocked => x.mask = RoomMask(y) \/ (y.tls /\ x.mask = Reading)
      BY <2>1, <2>3, <2>4, <2>5 DEF Flies, RoomMask
    <3>3. y.nc = "connected" /\ y.est = "up" /\ y.hs = 0 /\ y.hsOut = 0
      BY <2>3, <2>4 DEF Flies
    <3>4. y.rcv + y.owes <= Parts
      BY <1>3, <2>4, <2>5
    <3>5. y.role = "ups" /\ y.evr
      BY <2>1, <2>2, <2>4 DEF Settled
    <3> QED
      BY <2>4, <2>5, <2>6, <2>7, <3>1, <3>2, <3>3, <3>4, <3>5 DEF Sends
  <2>9. v \in UpsWrite(y, "write")
    <3>1. y.nc = "connected" /\ y.out # 0
      BY <1>3, <2>3, <2>4 DEF Flies
    <3> QED
      BY <1>2, <2>4, <3>1 DEF UpsCallback
  <2>10. Fine(v, {})
    BY <2>8, <2>9, UpsWriteIs
  <2>11. u.role \in Roles
    BY <2>1 DEF Roles
  <2> QED
    BY <1>1, <1>2, <2>10, <2>11, KeptIsGood
<1> QED
  BY <1>4, <1>5

-----------------------------------------------------------------------------
(* Every step.                                                             *)

LEMMA IInvStep == IInv /\ [Next]_vars => IInv'
<1> SUFFICES ASSUME IInv, [Next]_vars PROVE IInv'
  OBVIOUS
<1>1. Good(x, cb) /\ x.role \in Roles
  BY GoodRole DEF IInv
<1>2. /\ pc \in {"poll", "batch", "run"} /\ cb \subseteq {"read", "write"}
      /\ pc # "batch" => cb = {}
  BY DEF IInv
<1>3. SUFFICES /\ pc' \in {"poll", "batch", "run"} /\ cb' \subseteq {"read", "write"}
               /\ pc' # "batch" => cb' = {}
               /\ Good(x', cb')
  BY DEF IInv
<1>4. CASE Poll
  <2>1. cb = {}
    BY <1>2, <1>4 DEF Poll
  <2>2. Good(x', cb')
    BY <1>1, <1>4, <2>1, PolledIsGood DEF Poll
  <2>3. cb' \subseteq {"read", "write"}
    BY <1>4 DEF Poll, Callbacks
  <2> QED
    BY <1>4, <2>2, <2>3 DEF Poll
<1>5. CASE BatchEnds \/ RunEnds
  BY <1>1, <1>2, <1>5 DEF BatchEnds, RunEnds
<1>6. ASSUME NEW mode \in {"read", "write"}, Event(mode)
      PROVE  pc' = "batch" /\ cb' \subseteq {"read", "write"} /\ Good(x', cb')
  BY <1>2, <1>6, EventIsGood DEF Event
<1>7. CASE Cancel \/ TimedOut
  <2>1. Fine(Freed(x), cb')
    BY DEF Fine, Freed
  <2>2. x' = Kept(x, Freed(x))
    BY <1>7 DEF Cancel, TimedOut
  <2>3. Good(x', cb')
    BY <1>1, <2>1, <2>2, KeptIsGood
  <2> QED
    BY <1>2, <1>7, <2>3 DEF Cancel, TimedOut
<1>8. ASSUME NEW flight \in 0 .. Flight, Accept(flight)
      PROVE  pc' = pc /\ cb' = cb /\ Good(x', cb')
  BY <1>8, AcceptIsGood DEF Accept
<1>9. ASSUME NEW n \in 1 .. MaxOut, Answer(n)
      PROVE  pc' = pc /\ cb' = cb /\ Good(x', cb')
  BY <1>9, AnswerIsGood DEF Answer
<1>10. ASSUME NEW n \in 1 .. MaxOut, NEW tls \in BOOLEAN, Start(n, tls)
       PROVE  pc' = pc /\ cb' = cb /\ Good(x', cb')
  BY <1>10, StartIsGood DEF Start
<1>11. CASE Established \/ Refused
  BY <1>1, <1>2, <1>11, EstablishedIsGood DEF Established, Refused, Outside
<1>12. CASE PeerTakes
  BY <1>1, <1>2, <1>12, PeerTakesIsGood DEF PeerTakes, Outside
<1>13. CASE PeerShakes
  BY <1>1, <1>2, <1>13, PeerShakesIsGood DEF PeerShakes, Outside
<1>14. CASE PeerSends
  BY <1>1, <1>2, <1>14, PeerSendsIsGood DEF PeerSends, Outside
<1>15. CASE PeerCloses
  BY <1>1, <1>2, <1>15, PeerClosesIsGood DEF PeerCloses, Outside
<1>16. CASE UNCHANGED vars
  BY <1>1, <1>2, <1>16 DEF vars
<1> QED
  BY <1>2, <1>4, <1>5, <1>6, <1>7, <1>8, <1>9, <1>10, <1>11, <1>12, <1>13, <1>14, <1>15,
     <1>16 DEF Next, Thread

\* In every state the descriptor waits for the events that the state calls for,
\* and whatever the connection wants, and is there, is on the ready list of the
\* kernel or has its callback in this batch: the invariant on which the others
\* rest.
THEOREM Invariance == Spec => []IInv
<1>1. Init => IInv
  BY InitIsGood
<1>2. IInv /\ [Next]_vars => IInv'
  BY IInvStep
<1> QED
  BY <1>1, <1>2, PTL DEF Spec

-----------------------------------------------------------------------------
(* What follows from it.                                                   *)

LEMMA NothingIsMissed == IInv => NoLostWakeup
<1> SUFFICES ASSUME IInv PROVE NoLostWakeup
  OBVIOUS
<1>1. Good(x, cb) /\ pc \in {"poll", "batch", "run"} /\ cb \subseteq {"read", "write"}
  BY DEF IInv
<1>2. CASE x.nc = "free"
  <2>1. x = [Closed EXCEPT !.role = x.role]
    BY <1>1, <1>2, GoodRole
  <2>2. /\ x.sess = "none" /\ x.mask = {} /\ x.snd = 0 /\ x.out = 0 /\ x.rcv = 0
        /\ x.hs = 0 /\ x.hsOut = 0
    BY <2>1 DEF Closed
  <2>3. TypeOK
    BY <1>1, <1>2, <2>2, Sizes DEF TypeOK
  <2> QED
    BY <1>2, <2>3 DEF NoLostWakeup, Needs
<1>3. CASE x.nc # "free"
  <2>1. Settled(x) /\ Covered(x, cb) /\ x \in Conn
    BY <1>1, <1>3 DEF Good, Settled
  <2>2. TypeOK
    BY <1>1, <2>1 DEF TypeOK, Conn
  <2>3. ASSUME pc = "poll", ~x.armed
        PROVE  Needs \intersect Level(x) = {}
    <3>1. cb = {}
      BY <2>3 DEF IInv
    <3>2. Wants(x) \intersect Level(x) = {}
      <4>1. Wants(x) \subseteq {"in", "out"}
        BY DEF Wants
      <4> QED
        BY <2>1, <2>3, <3>1, <4>1 DEF Covered
    <3>3. /\ x.hs \in 0 .. 2 /\ x.hsOut \in 0 .. Flight /\ x.snd \in 0 .. Room
      BY <2>1 DEF Conn
    <3>4. Needs = Wants(x)
      <4>1. CASE x.nc = "connecting" /\ x.hs + x.hsOut = 0
        <5>1. Connects(x) /\ x.hs = 0 /\ x.hsOut = 0 /\ x.snd = 0
          BY <2>1, <3>3, <4>1 DEF Settled, Accepts, Connects, Serves, Flies
        <5>2. "out" \notin Level(x)
          BY <3>2, <4>1 DEF Wants
        <5>3. x.est = "syn"
          BY <5>1, <5>2, Sizes, LevelIs DEF Connects
        <5> QED
          BY <4>1, <5>3 DEF Needs, Wants
      <4>2. CASE x.nc # "connected" /\ ~(x.nc = "connecting" /\ x.hs + x.hsOut = 0)
        <5>1. x.est # "syn"
          BY <2>1, <3>3, <4>2 DEF Settled, Accepts, Connects, Serves, Flies
        <5> QED
          BY <1>3, <4>2, <5>1 DEF Needs, Wants
      <4>3. CASE x.nc = "connected"
        BY <4>3 DEF Needs, Wants
      <4> QED
        BY <4>1, <4>2, <4>3
    <3> QED
      BY <3>2, <3>4
  <2> QED
    BY <2>2, <2>3 DEF NoLostWakeup
<1> QED
  BY <1>2, <1>3

LEMMA NothingIsLeft == IInv => OpenIsRegistered
<1> SUFFICES ASSUME IInv PROVE OpenIsRegistered
  OBVIOUS
<1>1. Good(x, cb)
  BY DEF IInv
<1>2. CASE x.nc = "free"
  <2>1. x = [Closed EXCEPT !.role = x.role]
    BY <1>1, <1>2, GoodRole
  <2>2. x.evr = FALSE
    BY <2>1, ClosedIs
  <2> QED
    BY <1>2, <2>1, <2>2 DEF OpenIsRegistered
<1>3. CASE x.nc # "free"
  <2>1. Settled(x)
    BY <1>1, <1>3 DEF Good
  <2>2. x.evr
    BY <2>1 DEF Settled
  <2>3. x.sess # "none" \/ (x.role = "ups" /\ x.nc = "connected")
    BY <2>1 DEF Settled, Accepts, Connects, Serves, Flies
  <2>4. x.evr \in BOOLEAN
    BY <2>1 DEF Settled, Conn
  <2> QED
    BY <1>3, <2>2, <2>3, <2>4 DEF OpenIsRegistered
<1> QED
  BY <1>2, <1>3

\* A connection of a client is closed by a step only with reason.
LEMMA ClosedWithReason ==
  ASSUME IInv, [Next]_vars, x.role = "clnt", x.nc # "free", x'.nc = "free"
  PROVE  \/ x.fin
         \/ pc = "poll"
         \/ x.sess \in {"busy", "sending"}
         \/ x.tls /\ x.nc = "accepting" /\ cb = {"write"}
<1>1. Good(x, cb) /\ Settled(x) /\ Covered(x, cb) /\ Fitting(x, cb) /\ x \in Conn
  BY DEF IInv, Good, Settled
<1>2. CASE Poll \/ BatchEnds \/ RunEnds
  BY <1>1, <1>2 DEF Poll, BatchEnds, RunEnds, Conn
<1>3. ASSUME NEW mode \in {"read", "write"}, Event(mode)
      PROVE  x.fin \/ x.sess \in {"busy", "sending"}
             \/ (x.tls /\ x.nc = "accepting" /\ cb = {"write"})
  <2> DEFINE p == cb \ {mode}
  <2>1. /\ mode \in cb /\ cb = p \union {mode}
        /\ mode = "read" => p \subseteq {"write"}
        /\ mode = "write" => p = {}
    BY <1>3 DEF Event, IInv
  <2> HIDE DEF p
  <2>2. PICK v \in ClntCallback(x, mode) : x' = Kept(x, v)
    BY <1>3 DEF Event, Callback
  <2>3. v.nc = "free"
    BY <2>2 DEF Kept
  <2>4. Excused(x, mode, p)
    BY <1>1, <2>1, <2>2, <2>3, ClntCallbackIs
  <2> QED
    BY <2>1, <2>4 DEF Excused
<1>4. CASE Cancel
  BY <1>4 DEF Cancel
<1>5. CASE TimedOut
  BY <1>5 DEF TimedOut
<1>6. ASSUME NEW flight \in 0 .. Flight, Accept(flight) PROVE FALSE
  BY <1>6 DEF Accept
<1>7. ASSUME NEW n \in 1 .. MaxOut, Answer(n) PROVE x.sess = "busy"
  BY <1>7 DEF Answer
<1>8. ASSUME NEW n \in 1 .. MaxOut, NEW tls \in BOOLEAN, Start(n, tls) PROVE FALSE
  BY <1>8 DEF Start
<1>9. CASE Established \/ Refused
  BY <1>1, <1>9 DEF Established, Refused, Woken, Conn
<1>10. CASE PeerTakes \/ PeerShakes
  BY <1>1, <1>10 DEF PeerTakes, PeerShakes, Woken, Conn
<1>11. CASE PeerSends \/ PeerCloses
  BY <1>1, <1>11 DEF PeerSends, PeerCloses, Woken, Conn
<1>12. CASE UNCHANGED vars
  BY <1>12 DEF vars
<1> QED
  BY <1>2, <1>3, <1>4, <1>5, <1>6, <1>7, <1>8, <1>9, <1>10, <1>11, <1>12
     DEF Next, Thread

\* NoLostWakeup of Nconn: a connection that sleeps in epoll_wait does not wait
\* for anything that is there already (evr_epoll, edge-triggered).
THEOREM WakeupsAreKept == Spec => []NoLostWakeup
BY Invariance, NothingIsMissed, PTL

\* OpenIsRegistered of Nconn: a descriptor is open as long as it is in the event
\* queue and has a session or is idle, also after a write callback for a
\* connection that was closed within the batch.
THEOREM OpenAreRegistered == Spec => []OpenIsRegistered
BY Invariance, NothingIsLeft, PTL

\* NotClosedUnasked of Nconn: a step closes a connection to a client only when
\* the client closed it, the timer fired, or a response was being made or sent.
THEOREM ClientsAreKept == Spec => NotClosedUnasked
<1>1. IInv /\ [Next]_vars =>
        [x.role = "clnt" /\ x.nc # "free" /\ x'.nc = "free" =>
           \/ x.fin
           \/ pc = "poll"
           \/ x.sess \in {"busy", "sending"}
           \/ x.tls /\ x.nc = "accepting" /\ cb = {"write"}]_vars
  BY ClosedWithReason
<1> QED
  BY <1>1, Invariance, PTL DEF Spec, NotClosedUnasked

=============================================================================
