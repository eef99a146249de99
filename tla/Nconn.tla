------------------------------- MODULE Nconn --------------------------------
(***************************************************************************)
(* One connection object of a server thread, over and over: accepted from  *)
(* a client (lsnr) or opened to an upstream server (subr_try_start), with  *)
(* TCP or TLS (nconn_tcp, nconn_tls), its descriptor in the edge-triggered *)
(* event queue (evr_epoll), and the loops with which the sessions drive    *)
(* it. What matters is which events the descriptor waits for at any time,  *)
(* and whether the event that the connection needs next can still come.    *)
(*                                                                         *)
(* An event of the batch calls the read callback, then the write callback. *)
(* The kernel and the peer act between any two steps.  Other connections   *)
(* appear only by what they do to this one: the teardown of a client       *)
(* cancels the subrequest of an upstream connection (Cancel).              *)
(*                                                                         *)
(* Data is counted in units: requests and responses to send (out), what    *)
(* the socket holds of it (snd), what can be read (rcv), what the server   *)
(* has yet to send of its response (owes).  A TLS handshake is a number of *)
(* messages to be received (hs), and of units to be sent (hsOut).          *)
(***************************************************************************)
EXTENDS Integers, FiniteSets

CONSTANTS
  Room,    \* units that the send buffer of a socket holds
  MaxOut,  \* bound of the model: units of a request to, or a response of, us
  Parts,   \* bound of the model: units of a response of a server
  Flight   \* bound of the model: units of our handshake message as a TLS server

ASSUME SizesAssumption == {Room, MaxOut, Parts, Flight} \subseteq Nat \ {0}

VARIABLES
  pc,  \* "poll": in epoll_wait; "batch": events; "run": output, subrequests
  cb,  \* callbacks that the event of the batch has yet to call
  x    \* the connection, its session, its socket and its peer

vars == <<pc, cb, x>>

Min2(a, b) == IF a <= b THEN a ELSE b

\* nc, role, tls: m_nc_state, who opened it, its class.  evr: m_evr_loop is
\* set.  sess: what its session is about.  est: the TCP connection.  armed: it is
\* on the ready list of the kernel.  blocked: a write of this request or
\* response, or of one before it to the same server, would have blocked
\* (history).  flight: the size of our handshake message as a server.
Closed ==
  [nc |-> "free", role |-> "none", tls |-> FALSE, evr |-> FALSE, sess |-> "none",
   out |-> 0, hs |-> 0, hsOut |-> 0, mask |-> {}, armed |-> FALSE,
   est |-> "none", rcv |-> 0, snd |-> 0, fin |-> FALSE,
   flight |-> 0, hsIn |-> 0, owes |-> 0, blocked |-> FALSE]

-----------------------------------------------------------------------------
(* The event queue of the kernel.                                          *)

Reading == {"in", "rdhup"}

\* What is true of the socket now.
Level(u) ==
  {e \in {"in", "out", "rdhup", "err"} :
     CASE e = "in"    -> u.rcv + u.hsIn > 0 \/ u.fin
       [] e = "out"   -> u.est = "bad" \/ (u.est = "up" /\ u.snd < Room)
       [] e = "rdhup" -> u.fin
       [] e = "err"   -> u.est = "bad"}

\* Errors are reported whatever was asked for.
Reported(u) == Level(u) \intersect (u.mask \union {"err"})

\* An edge puts the descriptor on the ready list.
Woken(u, edges) ==
  [u EXCEPT !.armed = @ \/ edges \intersect (u.mask \union {"err"}) # {}]

\* evr_loop::mod_fd, add_fd: what is true already counts as an edge.  Without
\* a loop nothing is registered.
ModFd(u, m) ==
  IF ~u.evr THEN u
  ELSE LET v == [u EXCEPT !.mask = m]
       IN  [v EXCEPT !.armed = @ \/ Reported(v) # {}]

\* nc_cleanup().  Closing the descriptor takes it out of the event queue.
Freed(u) == Closed

-----------------------------------------------------------------------------
(* TCP and TLS.                                                            *)

\* tls_connect, tls_accept: what is left to send is sent; a message of the
\* peer is taken, and as a server answered.
Flushed(u) ==
  LET k == Min2(u.hsOut, Room - u.snd)
  IN  [u EXCEPT !.hsOut = @ - k, !.snd = @ + k]
Shaken(u) ==
  LET v == Flushed(u)
  IN  IF v.hsOut = 0 /\ v.hs > 0 /\ v.hsIn > 0
      THEN Flushed([v EXCEPT !.hs = @ - 1, !.hsIn = @ - 1,
                             !.hsOut = IF v.hs = 2 THEN v.flight ELSE 0])
      ELSE v

\* ncaccept, ncconnect of nconn_tls: WANT_WRITE, done, an end of the
\* connection in the middle, WANT_READ.
Hands(u) ==
  LET v == Shaken(u)
  IN  IF v.hsOut > 0
      THEN [st |-> "again",
            u |-> ModFd(v, {"out"} \union IF v.role = "clnt" THEN {"rdhup"} ELSE {})]
      ELSE IF v.hs = 0 THEN [st |-> "ok", u |-> ModFd(v, Reading)]
      ELSE IF v.fin /\ v.hsIn = 0 THEN [st |-> "error", u |-> v]
      ELSE [st |-> "again", u |-> ModFd(v, Reading)]

\* Mutant of Connect: once connected, the descriptor still waits to be.
ConnectNoMod(u) ==
  CASE u.est = "none" -> {[st |-> "again", u |-> ModFd([u EXCEPT !.est = "syn"], {"out"})],
                          [st |-> "ok", u |-> [u EXCEPT !.est = "up"]],
                          [st |-> "error", u |-> u]}
    [] u.est = "up"   -> {[st |-> "ok", u |-> u]}
    [] OTHER          -> {[st |-> "error", u |-> u]}

\* nconn_tcp::ncconnect: a connection in progress, made or refused.
Connect(u) ==
  CASE u.est = "none" -> {[st |-> "again", u |-> ModFd([u EXCEPT !.est = "syn"], {"out"})],
                          [st |-> "ok", u |-> ModFd([u EXCEPT !.est = "up"], Reading)],
                          [st |-> "error", u |-> u]}
    [] u.est = "up"   -> {[st |-> "ok", u |-> ModFd(u, Reading)]}
    [] OTHER          -> {[st |-> "error", u |-> u]}

\* ncconnect of either class.  A TLS client speaks first.
Connecting(u) ==
  IF u.hs + u.hsOut > 0 THEN {Hands(u)}
  ELSE {IF r.st = "ok" /\ u.tls THEN Hands([r.u EXCEPT !.hs = 1, !.hsOut = 1]) ELSE r :
          r \in Connect(u)}

\* ncsetup()
SetUp(u) == ModFd([u EXCEPT !.nc = "connecting"], Reading)

\* Mutant of Accepting: a TLS connection waits for room only.
AcceptingDeaf(u) ==
  ModFd([u EXCEPT !.nc = "accepting", !.est = "up", !.hs = IF u.tls THEN 2 ELSE 0],
        IF u.tls THEN {} ELSE {"in"})

\* nc_set_accepting(): TLS also waits for room.
Accepting(u) ==
  ModFd([u EXCEPT !.nc = "accepting", !.est = "up", !.hs = IF u.tls THEN 2 ELSE 0],
        Reading \union IF u.tls THEN {"out"} ELSE {})

\* Mutant of NcWrite: the events are left as they are when the socket is full.
NcWriteNoMod(u) ==
  LET k == Min2(u.out, Room - u.snd)
      v == [u EXCEPT !.out = @ - k, !.snd = @ + k]
  IN  {IF v.out = 0 THEN [st |-> "ok", u |-> v]
       ELSE [st |-> "again", u |-> [v EXCEPT !.blocked = TRUE]]} \union
      {[st |-> "error", u |-> u] : b \in {b \in {u.fin} : b}}

\* nc_write() until everything is sent or the socket is full.  It is queued
\* whole before the first call, so that no call starts at a block read to its
\* end, where it would give up (see Nbq).  A peer that has closed may have reset
\* the connection.
NcWrite(u) ==
  LET k == Min2(u.out, Room - u.snd)
      v == [u EXCEPT !.out = @ - k, !.snd = @ + k]
  IN  {IF v.out = 0 THEN [st |-> "ok", u |-> v]
       ELSE [st |-> "again",
             u |-> ModFd([v EXCEPT !.blocked = TRUE],
                         {"out"} \union IF u.tls THEN {} ELSE {"rdhup"})]} \union
      {[st |-> "error", u |-> u] : b \in {b \in {u.fin} : b}}

\* nc_read() until there is nothing left or the peer has closed.
NcRead(u) ==
  LET v == [u EXCEPT !.rcv = 0]
  IN  IF u.fin THEN [st |-> "eof", u |-> v]
      ELSE [st |-> "again", u |-> IF u.tls THEN ModFd(v, Reading) ELSE v]

-----------------------------------------------------------------------------
(* ups_srvr_session::run_state_machine, with a session and without.        *)

\* The response is complete: the connection is kept, and read on, or not.
UpsRead(u) ==
  LET r == NcRead(u)
  IN  IF r.st = "eof" THEN {Freed(u)}
      ELSE IF u.rcv > 0 /\ u.owes = 0 THEN {[r.u EXCEPT !.sess = "none"], Freed(u)}
      ELSE {r.u}

UpsWrite(u, mode) ==
  UNION {CASE r.st = "error" -> {Freed(u)}
           [] r.st = "ok" /\ mode = "read" -> UpsRead(r.u)
           [] OTHER -> {r.u} : r \in NcWrite(u)}

UpsConnect(u, mode) ==
  UNION {CASE r.st = "error" -> {Freed(u)}
           [] r.st = "ok" -> UpsWrite([r.u EXCEPT !.nc = "connected"], mode)
           [] OTHER -> {r.u} : r \in Connecting(u)}

\* Mutant of Stray: what was opened stays.
StrayKept(u) ==
  {r.u : r \in {r \in Connecting(SetUp([u EXCEPT !.role = "ups"])) : r.st # "error"}}

\* A write callback for a connection that is free, which was closed after its
\* event was fetched: it connects again, without a session or a loop, and is
\* cleaned up for want of a session.
Stray(u) ==
  {Freed(r.u) : r \in Connecting(SetUp([u EXCEPT !.role = "ups"]))}

UpsCallback(u, mode) ==
  IF u.nc = "free" THEN IF mode = "read" THEN {u} ELSE Stray(u)
  ELSE IF u.sess = "none" THEN {Freed(u)}
  ELSE IF u.nc = "connecting" THEN UpsConnect(u, mode)
  ELSE IF mode = "read" THEN UpsRead(u)
  ELSE IF u.out = 0 THEN {u} ELSE UpsWrite(u, mode)

-----------------------------------------------------------------------------
(* clnt_session::run_state_machine.                                        *)

ClntRead(u) ==
  LET r == NcRead(u)
  IN  IF r.st = "eof" THEN {Freed(u)}
      ELSE IF u.rcv > 0 THEN {[r.u EXCEPT !.sess = "busy"]} ELSE {r.u}

\* Everything is sent: the connection is kept, or not.
Answered(u) ==
  {Freed(u), ModFd([u EXCEPT !.sess = "waiting", !.blocked = FALSE], Reading)}

\* With nothing to answer, a connection that is writable counts as done, and
\* without a request there is no keep-alive.
ClntWrite(u) ==
  IF u.sess = "waiting" THEN {Freed(u)}
  ELSE UNION {CASE r.st = "error" -> {Freed(u)}
                [] r.st = "ok" /\ u.sess = "sending" -> Answered(r.u)
                [] OTHER -> {r.u} : r \in NcWrite(u)}

ClntReady(u, mode) == IF mode = "read" THEN ClntRead(u) ELSE ClntWrite(u)

\* Mutant of ClntCallback: a handshake that needs another turn is an error.
ClntCallbackImpatient(u, mode) ==
  CASE u.nc = "free" -> {u}
    [] u.nc = "accepting" ->
         LET r == IF u.tls THEN Hands(u) ELSE [st |-> "ok", u |-> u]
         IN  IF r.st = "ok" THEN ClntReady([r.u EXCEPT !.nc = "connected"], mode)
             ELSE {Freed(u)}
    [] OTHER -> ClntReady(u, mode)

ClntCallback(u, mode) ==
  CASE u.nc = "free" -> {u}
    [] u.nc = "accepting" ->
         LET r == IF u.tls THEN Hands(u) ELSE [st |-> "ok", u |-> u]
         IN  IF r.st = "ok" THEN ClntReady([r.u EXCEPT !.nc = "connected"], mode)
             ELSE IF r.st = "error" THEN {Freed(u)} ELSE {r.u}
    [] OTHER -> ClntReady(u, mode)

-----------------------------------------------------------------------------
(* The steps of the thread.                                                *)

Init == pc = "poll" /\ cb = {} /\ x = [Closed EXCEPT !.role = "ups"]

\* The callbacks that evr_loop::run calls for what is reported.
Callbacks(u) ==
  (IF Reported(u) \intersect {"in", "rdhup", "err"} # {} THEN {"read"} ELSE {}) \union
  (IF "out" \in Reported(u) THEN {"write"} ELSE {})

\* epoll_wait() takes what is ready off the list.
Poll ==
  /\ pc = "poll"
  /\ pc' = "batch"
  /\ cb' = IF x.armed THEN Callbacks(x) ELSE {}
  /\ x' = [x EXCEPT !.armed = FALSE]

Callback(u, mode) ==
  IF u.role = "clnt" THEN ClntCallback(u, mode) ELSE UpsCallback(u, mode)

\* Closed keeps no role; the class of the callbacks is that of the pool.
Kept(u, v) == IF v.nc = "free" THEN [v EXCEPT !.role = u.role] ELSE v

Event(mode) ==
  /\ pc = "batch"
  /\ mode \in cb /\ (mode = "write" => "read" \notin cb)
  /\ cb' = cb \ {mode}
  /\ \E v \in Callback(x, mode) : x' = Kept(x, v)
  /\ UNCHANGED pc

\* The client of an upstream connection in flight is torn down.
Cancel ==
  /\ pc = "batch"
  /\ x.role = "ups" /\ x.sess # "none"
  /\ x' = Kept(x, Freed(x))
  /\ UNCHANGED <<pc, cb>>

\* The listener has a new connection for the object, TLS if there is a flight.
Accept(flight) ==
  /\ pc = "batch" /\ cb = {}
  /\ x.nc = "free"
  /\ x' = Accepting([Closed EXCEPT !.role = "clnt", !.tls = flight > 0, !.flight = flight,
                                   !.evr = TRUE, !.sess = "waiting"])
  /\ UNCHANGED <<pc, cb>>

BatchEnds ==
  /\ pc = "batch" /\ cb = {}
  /\ pc' = "run"
  /\ UNCHANGED <<cb, x>>

\* The idle timer, which is all that a turn of the loop does.
TimedOut ==
  /\ pc = "poll"
  /\ x.sess # "none"
  /\ x' = Kept(x, Freed(x))
  /\ pc' = "run"
  /\ UNCHANGED cb

\* The response is ready, its connection in the output queue.
Answer(n) ==
  /\ pc = "run"
  /\ x.role = "clnt" /\ x.sess = "busy"
  /\ \E v \in ClntCallback([x EXCEPT !.sess = "sending", !.out = n], "write") :
       x' = Kept(x, v)
  /\ UNCHANGED <<pc, cb>>

\* A subrequest starts with a new connection, or with an idle one.
Start(n, tls) ==
  /\ pc = "run"
  /\ \/ x.nc = "free"
     \/ x.role = "ups" /\ x.sess = "none" /\ x.tls = tls
  /\ LET u == IF x.nc = "free"
              THEN SetUp([Closed EXCEPT !.role = "ups", !.tls = tls, !.evr = TRUE])
              ELSE x
     IN  \E v \in UpsCallback([u EXCEPT !.sess = "flight", !.out = n, !.owes = Parts],
                              "write") : x' = Kept(u, v)
  /\ UNCHANGED <<pc, cb>>

RunEnds ==
  /\ pc = "run"
  /\ pc' = "poll"
  /\ UNCHANGED <<cb, x>>

-----------------------------------------------------------------------------
(* The peer and the kernel.                                                *)

Outside == UNCHANGED <<pc, cb>>

\* The peer's kernel has answered the attempt to connect.
Established == x.est = "syn" /\ x' = Woken([x EXCEPT !.est = "up"], {"out"}) /\ Outside
Refused == x.est = "syn" /\ x' = Woken([x EXCEPT !.est = "bad"], {"out", "err"}) /\ Outside

\* Room is an edge when the buffer was full.
PeerTakes ==
  /\ x.snd > 0
  /\ x' = Woken([x EXCEPT !.snd = @ - 1], IF x.snd = Room THEN {"out"} ELSE {})
  /\ Outside

\* A message of the handshake: a client's first, or after all of ours.
PeerShakes ==
  /\ x.hs > 0 /\ x.hsIn = 0 /\ x.hsOut = 0 /\ x.snd = 0 /\ ~x.fin
  /\ x' = Woken([x EXCEPT !.hsIn = 1], {"in"})
  /\ Outside

\* A request, or a part of a response, which may come before all of the
\* request was sent.
PeerSends ==
  /\ x.nc # "free" /\ x.est = "up" /\ x.hs = 0 /\ x.hsOut = 0 /\ ~x.fin
  /\ \/ /\ x.role = "clnt" /\ x.sess = "waiting" /\ x.rcv = 0
        /\ x' = Woken([x EXCEPT !.rcv = 1], {"in"})
     \/ /\ x.role = "ups" /\ x.nc = "connected" /\ x.owes > 0
        /\ x' = Woken([x EXCEPT !.rcv = @ + 1, !.owes = @ - 1], {"in"})
  /\ Outside

PeerCloses ==
  /\ x.est = "up" /\ ~x.fin
  /\ x' = Woken([x EXCEPT !.fin = TRUE], {"in", "rdhup"})
  /\ Outside

Thread ==
  \/ Poll \/ BatchEnds \/ RunEnds
  \/ \E mode \in {"read", "write"} : Event(mode)

Next ==
  \/ Thread \/ Cancel \/ TimedOut
  \/ \E flight \in 0 .. Flight : Accept(flight)
  \/ \E n \in 1 .. MaxOut : Answer(n) \/ \E tls \in BOOLEAN : Start(n, tls)
  \/ Established \/ Refused \/ PeerTakes \/ PeerShakes \/ PeerSends \/ PeerCloses

\* The loop turns, and the peer takes what is sent to it.  Nothing else has to
\* happen: no peer has to send anything, and no idle timer to fire.
Spec ==
  /\ Init /\ [][Next]_vars
  /\ WF_vars(Thread) /\ WF_vars(PeerTakes)

-----------------------------------------------------------------------------
(* Properties.                                                             *)

\* Every member has the type of its declaration.
TypeOK ==
  /\ pc \in {"poll", "batch", "run"} /\ cb \subseteq {"read", "write"}
  /\ x.nc \in {"free", "accepting", "connecting", "connected"}
  /\ x.sess \in {"none", "flight", "waiting", "busy", "sending"}
  /\ x.mask \subseteq {"in", "out", "rdhup"}
  /\ x.snd \in 0 .. Room /\ x.out \in 0 .. MaxOut /\ x.rcv \in 0 .. Parts
  /\ x.hs \in 0 .. 2 /\ x.hsOut \in 0 .. Flight

\* What the connection waits for, in its state.
Needs ==
  IF x.nc = "free" THEN {}
  ELSE IF x.nc # "connected" THEN IF x.est = "syn" \/ x.hsOut > 0 THEN {"out"} ELSE {"in"}
  ELSE IF x.sess = "none" THEN {"in"}
  ELSE IF x.out > 0 THEN {"out"}
  ELSE IF x.role = "ups" /\ x.blocked THEN {}
  ELSE {"in"}

\* Besides the types: with edge-triggered events, what is there already is
\* never reported again, so when the connection sleeps, what it needs is not
\* there.  The exception is an upstream connection once a write would have
\* blocked: it is set to wait for room, and never back.
NoLostWakeup ==
  TypeOK /\ (pc = "poll" /\ ~x.armed => Needs \intersect Level(x) = {})

\* A descriptor that stays open between two callbacks is in the event queue,
\* and has a session or is idle; a closed one is not: nothing is left of a
\* connection that was made for nobody.
OpenIsRegistered ==
  /\ (x.nc = "free") = ~x.evr
  /\ x.nc = "free" => x = [Closed EXCEPT !.role = x.role]
  /\ x.nc # "free" => x.sess # "none" \/ (x.role = "ups" /\ x.nc = "connected")

\* The server closes a connection to a client only when the client closed
\* first, the timer fired, or a response was sent.  The exception: a TLS
\* handshake that a write callback completes is taken for the end of a response.
NotClosedUnasked ==
  [][x.role = "clnt" /\ x.nc # "free" /\ x'.nc = "free" =>
       \/ x.fin
       \/ pc = "poll"
       \/ x.sess \in {"busy", "sending"}
       \/ x.tls /\ x.nc = "accepting" /\ cb = {"write"}]_vars

\* What a connection has to send is sent in the end, or the connection is
\* closed, as long as the peer takes it.
EverythingIsSent == x.nc = "connected" /\ x.out > 0 ~> x.out = 0

\* The end of a connection is noticed, except when a write to a TLS connection
\* would have blocked: it waits for room only, an upstream connection for good.
CloseIsNoticed ==
  x.nc # "free" /\ x.fin ~> x.nc = "free" \/ (x.tls /\ x.blocked)

=============================================================================
