---------------------------- MODULE ClntSession -----------------------------
(***************************************************************************)
(* Client sessions of a server thread and what they send: responses that a *)
(* handler makes at once (api_resp), files (file_h), and responses of      *)
(* upstream servers (proxy_h), which reach the client through the block    *)
(* queue (nbq) that the upstream session reads into.                       *)
(*                                                                         *)
(* A client session is identified with its connection; a subrequest with   *)
(* the client session it works for.  How a subrequest waits, is looked up  *)
(* and gets a connection is the matter of SubrQueue; here it is queued,    *)
(* active with a session, or over.  The content of a queue is a sequence   *)
(* of items, each a piece of the response to one request.                  *)
(*                                                                         *)
(* t_run: a batch of events, in which every connection has at most one;    *)
(* then all the output that was queued; then the queued subrequests.  A    *)
(* callback is one step, except that the loop of a write callback takes a  *)
(* step per turn.                                                          *)
(*                                                                         *)
(* Clients wait for a response before they send another request (TODO of   *)
(* the repository, c: "rqst splitting (test with pipelined requests)").    *)
(***************************************************************************)
EXTENDS Integers, Sequences, FiniteSets

CONSTANTS
  Clients,      \* connections of m_nconn_pool, with their sessions
  Sessions,     \* objects of m_ups_srvr_session_pool
  UpsKeepalive, \* may responses leave an upstream connection open
  FileParts,    \* sizes of files, in items; 0 is the empty file
  NumNbqs,      \* bound of the model: objects of m_nbq_pool
  MaxItems,     \* bound of the model: items of a queue
  MaxRequests   \* bound of the model: requests by clients

ASSUME SwitchAssumption == UpsKeepalive \in BOOLEAN
ASSUME SizesAssumption ==
  FileParts \subseteq Nat /\ {NumNbqs, MaxItems, MaxRequests} \subseteq Nat \ {0}

Nbqs == 1 .. NumNbqs
Null == 0
NoSession == "none"
NoClient == "none"
Requests == 1 .. MaxRequests

ASSUME NullAssumption == Null \notin Clients

VARIABLES
  pc,       \* where t_run is: "events", "output" or "deq"
  writing,  \* the connection whose write callback is in its loop
  served,   \* connections and sessions that had their event of the batch
  t         \* the objects of the thread

vars == <<pc, writing, served, t>>

Item(r, last) == [rqst |-> r, last |-> last]
RangeOf(q) == {q[i] : i \in DOMAIN q}

\* base_u: m_ups of a client session.  `cut' says that the end of the
\* upstream connection was the end of the response.
NoUps == [kind |-> "none", state |-> "idle", shutdown |-> FALSE, cut |-> FALSE,
          left |-> 0, subr |-> "none", sess |-> NoSession]
ProxyUps == [NoUps EXCEPT !.kind = "proxy", !.subr = "queued"]
FileUps(n) == [NoUps EXCEPT !.kind = "file", !.state = "sending", !.left = n]

UpsDone(u, c) == u.ups[c].state = "done"

-----------------------------------------------------------------------------
(* Queues.                                                                 *)

\* get_nbq() with no queue to use again, and with one.
NewNbq(u) == CHOOSE q \in u.nbqFree : TRUE
WithNbq(u, c) ==
  IF u.outQ[c] # Null THEN [u EXCEPT !.content[u.outQ[c]] = <<>>]
  ELSE LET q == NewNbq(u)
       IN  [u EXCEPT !.nbqFree = @ \ {q}, !.outQ[c] = q, !.content[q] = <<>>]

\* release_nbq()
Released(u, q) == IF q = Null THEN u ELSE [u EXCEPT !.nbqFree = @ \union {q}]

Put(u, q, item) == [u EXCEPT !.content[q] = Append(@, item)]

\* queue_output() pushes the connection of the session.
QueueOutput(u, c) == [u EXCEPT !.outputQ = Append(@, c)]

\* queue_api_resp(), from a handler or with an error for an upstream.
QueueApiResp(u, c) ==
  LET v == WithNbq(u, c)
  IN  QueueOutput(Put(v, v.outQ[c], Item(u.rqst[c], TRUE)), c)

-----------------------------------------------------------------------------
(* Upstream sessions.                                                      *)

\* cleanup_srvr_session(): m_in_q_detached is left as it is.
Cleaned(u, s) ==
  LET v == IF u.detached[s] THEN u ELSE Released(u, u.inQ[s])
  IN  [v EXCEPT !.inQ[s] = Null, !.busy = @ \ {s}, !.clnt[s] = NoClient]

\* ups_srvr_session::teardown with HTTP_STATUS_OK.
TornDownOk(u, s) ==
  LET c == u.clnt[s]
  IN  Cleaned([u EXCEPT !.ups[c] = [@ EXCEPT !.state = "done", !.shutdown = TRUE,
                                             !.subr = "over", !.sess = NoSession]], s)

\* Mutant of ErrorCb: the response is not handed to the client.
ErrorCbSilent(u, c) ==
  LET v == WithNbq([u EXCEPT !.ups[c] = NoUps], c)
  IN  Put(v, v.outQ[c], Item(u.rqst[c], TRUE))

\* Mutant of ErrorCb: the error goes to the queue of the first client.
ErrorCbMixed(u, c) ==
  LET d == CHOOSE d \in Clients : u.rqst[d] # 0
      v == WithNbq([u EXCEPT !.ups[c] = NoUps], d)
  IN  QueueOutput(Put(v, v.outQ[d], Item(u.rqst[c], TRUE)), c)

\* proxy_u::s_error_cb: what was not sent of the response is dropped.
ErrorCb(u, c) == QueueApiResp([u EXCEPT !.ups[c] = NoUps], c)

\* teardown with an error: the proxy_u, and with it the subrequest, is deleted
\* by the callback.
TornDownError(u, s) == Cleaned(ErrorCb(u, u.clnt[s]), s)

\* Mutant of UpsRead: the session is not told that its queue has gone.
UpsReadKeepsQueue(u, s, complete) ==
  LET c == u.clnt[s]
      idle == u.ups[c].state = "idle"
      v == IF idle THEN [Released(u, u.outQ[c]) EXCEPT !.outQ[c] = u.inQ[s]] ELSE u
  IN  QueueOutput([v EXCEPT !.ups[c] =
        [@ EXCEPT !.state = IF complete THEN "done" ELSE "sending"]], c)

\* proxy_u::ups_read: the first time, the client's queue is replaced by the
\* one that the session reads into.
UpsRead(u, s, complete) ==
  LET c == u.clnt[s]
      idle == u.ups[c].state = "idle"
      v == IF idle
           THEN [Released(u, u.outQ[c]) EXCEPT !.outQ[c] = u.inQ[s],
                                               !.detached[s] = TRUE]
           ELSE u
  IN  QueueOutput([v EXCEPT !.ups[c] =
        [@ EXCEPT !.state = IF complete THEN "done" ELSE "sending"]], c)

\* The session of a connection that is kept goes back to its pool as it is: a
\* queue that was detached stays in it.
Parked(u, s) ==
  LET c == u.clnt[s]
  IN  [u EXCEPT !.busy = @ \ {s}, !.clnt[s] = NoClient,
                !.ups[c] = [@ EXCEPT !.subr = "over", !.sess = NoSession]]

\* nc_read into the queue of the session.
Read(u, s, last) == Put(u, u.inQ[s], Item(u.rqst[u.clnt[s]], last))

\* READ, in the middle of a response and at the end of one.
DataRead(u, s) == UpsRead(Read(u, s, FALSE), s, FALSE)
ResponseRead(u, s) ==
  LET v == UpsRead(Read(u, s, TRUE), s, TRUE)
  IN  {TornDownOk(v, s)} \union (IF UpsKeepalive THEN {Parked(v, s)} ELSE {})

\* READ, at the end of the connection, which may come with the last data: when
\* that fills a block, nc_read returns NC_STATUS_EOF, and ups_read is not called.
EofRead(u, s) ==
  LET Cut(v) == [v EXCEPT !.ups[v.clnt[s]].cut = TRUE]
  IN  {TornDownOk(Cut(u), s), TornDownOk(Cut(Read(u, s, TRUE)), s)}

-----------------------------------------------------------------------------
(* Client sessions.                                                        *)

\* cleanup_clnt_session(): entries of the output queue stay behind.
ClntCleaned(u, c) ==
  [Released(u, u.outQ[c]) EXCEPT
     !.outQ[c] = Null, !.nc[c] = "free", !.rqst[c] = 0, !.keep[c] = FALSE,
     !.ups[c] = NoUps, !.armed[c] = FALSE, !.sent[c] = "none"]

\* Mutant of TornDown: the upstream object is deleted, but not cancelled.
TornDownNoCancel(u, c) == ClntCleaned(u, c)

\* clnt_session::teardown: an upstream object that is not done is cancelled,
\* which cleans up the session of an active subrequest.
TornDown(u, c) ==
  ClntCleaned(IF u.ups[c].subr = "active" /\ ~UpsDone(u, c)
              THEN Cleaned(u, u.ups[c].sess) ELSE u, c)

\* get_new_client_conn and nc_set_accepting.
Opened(u, c) == [u EXCEPT !.nc[c] = "accepting"]

\* file_u::ups_read: the next part of the file, in the queue.
FileRead(u, c) ==
  LET last == u.ups[c].left = 1
      v == Put(u, u.outQ[c], Item(u.rqst[c], last))
  IN  QueueOutput([v EXCEPT
        !.ups[c].left = @ - 1, !.ups[c].state = IF last THEN "done" ELSE "sending"], c)

\* file_h::get_file: the headers with the first part.  An empty file is done
\* with its headers, and only parts of a file are announced.
GetFile(u, c, n) ==
  LET v == IF u.outQ[c] = Null THEN WithNbq(u, c) ELSE u
      w == [v EXCEPT !.ups[c] = FileUps(n)]
  IN  IF n = 0
      THEN [Put(w, w.outQ[c], Item(u.rqst[c], TRUE)) EXCEPT !.ups[c].state = "done"]
      ELSE FileRead(w, c)

\* handle_req: a handler that answers at once, also with an error, proxy_h and
\* file_h.
Handled(u, c) ==
  {QueueApiResp(u, c), [u EXCEPT !.ups[c] = ProxyUps]} \union
  {GetFile(u, c, n) : n \in FileParts}

\* READ with a request that is complete, after nc_read has seen the connection
\* accepted.
RequestRead(u, c, keep) ==
  Handled([u EXCEPT !.nc[c] = "connected", !.rqst[c] = u.requests + 1,
                    !.requests = @ + 1, !.keep[c] = keep, !.sent[c] = "none"], c)

\* WRITE, before the queue is written: an empty queue is filled from the file.
Refilled(u, c) ==
  IF /\ u.nc[c] = "connected"
     /\ u.ups[c].kind = "file" /\ ~UpsDone(u, c)
     /\ u.outQ[c] # Null /\ u.content[u.outQ[c]] = <<>>
  THEN FileRead(u, c) ELSE u

\* The first k items of the queue are sent; a session without a queue sends
\* the orphan, which is empty.
SentLast(s, items) ==
  IF items = <<>> THEN s
  ELSE IF items[Len(items)].last THEN "last" ELSE "part"

Sent(u, c, k) ==
  LET q == u.outQ[c]
      v == [u EXCEPT !.nc[c] = "connected"]
  IN  IF q = Null THEN v
      ELSE [v EXCEPT !.content[q] = SubSeq(@, k + 1, Len(@)),
                     !.sent[c] = SentLast(@, SubSeq(u.content[q], 1, k))]

\* The session takes over the orphan, which is replaced.
Adopted(u, c) ==
  IF u.outQ[c] # Null THEN u
  ELSE LET q == NewNbq(u)
       IN  [u EXCEPT !.outQ[c] = u.orphan, !.content[u.orphan] = <<>>,
                     !.orphan = q, !.nbqFree = @ \ {q}, !.content[q] = <<>>]

\* Mutant of Finished: what the upstream has yet to send is not waited for.
FinishedEarly(u, c) ==
  u.content[u.outQ[c]] = <<>> /\ u.ups[c].state \in {"sending", "done"}

\* l_done: everything is sent and there is no more to come.
Finished(u, c) ==
  /\ u.content[u.outQ[c]] = <<>>
  /\ u.ups[c].kind = "none" \/ UpsDone(u, c)

\* The connection is kept for the next request, which is waited for again, or
\* closed: without keep-alive, and after an upstream that was shut down.
Answered(u, c) ==
  IF u.keep[c] /\ ~u.ups[c].shutdown
  THEN [u EXCEPT !.rqst[c] = 0, !.ups[c] = NoUps, !.armed[c] = FALSE]
  ELSE ClntCleaned(u, c)

\* The socket is full: the connection waits for EPOLLOUT.
AgainLeft(u, c) == [u EXCEPT !.armed[c] = TRUE]

-----------------------------------------------------------------------------
(* The steps of the thread.                                                *)

Init ==
  /\ pc = "events"
  /\ writing = Null
  /\ served = {}
  /\ t = [nc |-> [c \in Clients |-> "free"], rqst |-> [c \in Clients |-> 0],
          keep |-> [c \in Clients |-> FALSE], ups |-> [c \in Clients |-> NoUps],
          outQ |-> [c \in Clients |-> Null], armed |-> [c \in Clients |-> FALSE],
          sent |-> [c \in Clients |-> "none"],
          busy |-> {}, clnt |-> [s \in Sessions |-> NoClient],
          inQ |-> [s \in Sessions |-> Null], detached |-> [s \in Sessions |-> FALSE],
          content |-> [q \in Nbqs |-> <<>>], nbqFree |-> Nbqs \ {1}, orphan |-> 1,
          outputQ |-> <<>>, requests |-> 0, brought |-> {}]

\* Bound of the model: there are queues for all that a step may need.
QueuesLeft == Cardinality(t.nbqFree) > 1

\* An event for x, which had none yet in this batch.
EventFor(x) ==
  /\ pc = "events" /\ writing = Null
  /\ x \notin served
  /\ served' = served \union {x}

\* A timer that fires is all that a turn of evr_loop::run does.
TimerOnly ==
  /\ pc = "events" /\ writing = Null /\ served = {}
  /\ pc' = "output"
  /\ UNCHANGED <<writing, served>>

\* lsnr::evr_fd_readable_cb.  The new connection has no event in this batch.
Accept(c) ==
  /\ pc = "events" /\ writing = Null
  /\ t.nc[c] = "free"
  /\ t.requests < MaxRequests
  /\ served' = served \union {c}
  /\ t' = Opened(t, c)
  /\ UNCHANGED <<pc, writing>>

\* clnt_session::evr_fd_readable_cb with a whole request.
Request(c) ==
  /\ EventFor(c)
  /\ t.nc[c] # "free" /\ t.rqst[c] = 0
  /\ t.requests < MaxRequests /\ QueuesLeft
  /\ \E keep \in BOOLEAN : t' \in RequestRead(t, c, keep)
  /\ UNCHANGED <<pc, writing>>

\* The client closed its connection, or it failed.
ClntGone(c) ==
  /\ EventFor(c)
  /\ t.nc[c] # "free"
  /\ t' = TornDown(t, c)
  /\ UNCHANGED <<pc, writing>>

ClntTimeout(c) ==
  /\ TimerOnly
  /\ t.nc[c] # "free"
  /\ t' = TornDown(t, c)

\* EPOLLOUT: the socket has room again.
ClntWritable(c) ==
  /\ EventFor(c)
  /\ t.armed[c]
  /\ t' = [t EXCEPT !.armed[c] = FALSE]
  /\ writing' = c
  /\ UNCHANGED pc

\* A turn of the loop of the write callback: the socket fails, or it takes k
\* items; the loop goes on after it has written something.
WriteTurn ==
  LET c == writing
      u == Refilled(t, c)
      items == IF u.outQ[c] = Null THEN <<>> ELSE u.content[u.outQ[c]]
  IN  /\ c # Null /\ QueuesLeft
      /\ \/ /\ items # <<>>
            /\ t' = TornDown(u, c)
            /\ writing' = Null
         \/ \E k \in 0 .. Len(items) - 1 :
              t' = AgainLeft(Sent(u, c, k), c) /\ writing' = Null
         \/ LET v == Adopted(Sent(u, c, Len(items)), c)
            IN  IF Finished(v, c) THEN t' = Answered(v, c) /\ writing' = Null
                ELSE t' = v /\ writing' = IF items = <<>> THEN Null ELSE c
      /\ UNCHANGED <<pc, served>>

\* ups_srvr_session::evr_fd_readable_cb.
UpsEvent(s) ==
  /\ EventFor(s)
  /\ s \in t.busy /\ QueuesLeft
  /\ \/ Len(t.content[t.inQ[s]]) < MaxItems /\ t' = DataRead(t, s)
     \/ t' \in ResponseRead(t, s)
     \/ t' \in EofRead(t, s)
     \/ t' = TornDownError(t, s)
  /\ UNCHANGED <<pc, writing>>

UpsTimeout(s) ==
  /\ TimerOnly
  /\ s \in t.busy /\ QueuesLeft
  /\ t' = TornDownError(t, s)

\* The end of the batch.
EventsEnd ==
  /\ pc = "events" /\ writing = Null
  /\ pc' = "output" /\ served' = {}
  /\ UNCHANGED <<writing, t>>

\* dequeue_output(); a connection that is free is ignored.
Dequeue ==
  /\ pc = "output" /\ writing = Null
  /\ t.outputQ # <<>>
  /\ t' = [t EXCEPT !.outputQ = Tail(@)]
  /\ writing' = IF t.nc[Head(t.outputQ)] = "free" THEN Null ELSE Head(t.outputQ)
  /\ UNCHANGED <<pc, served>>

OutputEnds ==
  /\ pc = "output" /\ writing = Null
  /\ t.outputQ = <<>>
  /\ pc' = "deq"
  /\ UNCHANGED <<writing, served, t>>

\* subr_try_start() with a session of the pool, which may have come there with
\* the queue of its last request.
Started(u, c, s) ==
  LET q == IF u.inQ[s] = Null THEN NewNbq(u) ELSE u.inQ[s]
  IN  [u EXCEPT !.busy = @ \union {s}, !.clnt[s] = c, !.inQ[s] = q,
                !.nbqFree = @ \ {q}, !.content[q] = <<>>,
                !.brought = IF u.inQ[s] = Null THEN @ ELSE @ \union {q},
                !.ups[c] = [@ EXCEPT !.subr = "active", !.sess = s]]

\* The name is not found, the connection or the first write fails, or the
\* request is on its way.
Start(c) ==
  /\ pc = "deq"
  /\ t.ups[c].subr = "queued" /\ QueuesLeft
  /\ \/ t' = ErrorCb(t, c)
     \/ \E s \in Sessions \ t.busy :
          LET v == Started(t, c, s) IN t' = v \/ t' = TornDownError(v, s)
  /\ UNCHANGED <<pc, writing, served>>

\* Subrequests are left in the queue when there is no connection for them.
DeqEnds ==
  /\ pc = "deq"
  /\ pc' = "events"
  /\ UNCHANGED <<writing, served, t>>

Next ==
  \/ \E c \in Clients : \/ Accept(c) \/ Request(c) \/ ClntGone(c)
                        \/ ClntTimeout(c) \/ ClntWritable(c) \/ Start(c)
  \/ \E s \in Sessions : UpsEvent(s) \/ UpsTimeout(s)
  \/ WriteTurn \/ EventsEnd \/ Dequeue \/ OutputEnds \/ DeqEnds

Spec == Init /\ [][Next]_vars

-----------------------------------------------------------------------------
(* Properties.                                                             *)

Open == {c \in Clients : t.nc[c] # "free"}
Answering == {c \in Open : t.rqst[c] # 0}

\* Every member has the type of its declaration.
TypeOK ==
  /\ pc \in {"events", "output", "deq"} /\ writing \in Clients \union {Null}
  /\ t.nc \in [Clients -> {"free", "accepting", "connected"}]
  /\ t.rqst \in [Clients -> 0 .. MaxRequests]
  /\ t.outQ \in [Clients -> Nbqs \union {Null}]
  /\ t.inQ \in [Sessions -> Nbqs \union {Null}]
  /\ t.busy \subseteq Sessions /\ t.nbqFree \subseteq Nbqs
  /\ t.outputQ \in Seq(Clients)
  /\ \A c \in Clients : t.ups[c].left \in Nat

\* A client that has asked for something is in somebody's care: its connection
\* is queued for output or waits for room in the socket, or its subrequest is
\* queued or at work.  Nothing else calls the session before its idle
\* timer.  Two responses are left behind, and no others: one whose upstream
\* connection was closed to end it, and an empty file.
InCare ==
  \A c \in Answering :
    \/ c \in RangeOf(t.outputQ) \/ writing = c \/ t.armed[c]
    \/ t.ups[c].subr = "queued"
    \/ t.ups[c].subr = "active" /\ ~UpsDone(t, c)
    \/ t.ups[c].cut
    \/ t.ups[c].kind = "file" /\ t.ups[c].left = 0 /\ t.sent[c] = "none"

\* The places where a queue is used, one for each use: the free list of the
\* pool, the orphan, the client sessions, and the upstream sessions that
\* have not passed it on.
Users(q) ==
  [free |-> q \in t.nbqFree, orphan |-> q = t.orphan,
   clients |-> {c \in Clients : t.outQ[c] = q},
   sessions |-> {s \in t.busy : t.inQ[s] = q /\ ~(t.ups[t.clnt[s]].state = "sending")}]
NumUsers(q) ==
  LET U == Users(q)
  IN  Cardinality(U.clients) + Cardinality(U.sessions) +
      (IF U.free THEN 1 ELSE 0) + (IF U.orphan THEN 1 ELSE 0)

\* Besides the types: no queue has two users.  It is not free while a session
\* has it, and no two sessions have it.  An upstream session goes back to its
\* pool with the queue that it passed to a client when its connection is kept;
\* the queues that were brought along from there are the only exception.
OneUserPerQueue == TypeOK /\ \A q \in Nbqs \ t.brought : NumUsers(q) <= 1

\* What waits to be sent to a client answers the request that it is waiting
\* for, whatever became of the requests before it, unless it is in a queue that
\* a session brought along.
OwnResponse ==
  \A c \in Open : t.outQ[c] \notin t.brought \union {Null} =>
    \A item \in RangeOf(t.content[t.outQ[c]]) : item.rqst = t.rqst[c]

\* A session in flight works for a client that is there and whose upstream
\* object is the one that it will call.
WorksForClient ==
  \A s \in t.busy :
    LET c == t.clnt[s]
    IN  c \in Answering /\ t.ups[c].subr = "active" /\ t.ups[c].sess = s

\* A connection waits for its next request only when the last piece of the
\* response before it was sent, unless somebody else wrote to its queue.
KeptWhenAnswered ==
  [][\A c \in Answering :
       t'.nc[c] # "free" /\ t'.rqst[c] = 0 /\ t.outQ[c] \notin t.brought
         => t'.sent[c] = "last"]_vars

=============================================================================
