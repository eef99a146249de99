----------------------------- MODULE SubrQueue ------------------------------
(***************************************************************************)
(* Subrequests (class subr) and the way of a subrequest through a server   *)
(* thread: the queue of t_srvr, the look-up of its name (sync, or async    *)
(* through the thread's adns_ctx), a connection of the pool, its upstream  *)
(* session, and its end.                                                   *)
(*                                                                         *)
(* There are two kinds of subrequests.  A `once' is made by proxy_h for    *)
(* a client session: it is requested once, its proxy_u deletes it, and the *)
(* client may go away and cancel it in any state.  A client session has    *)
(* one upstream object at a time.  A `dupe' is made by hurl: it is         *)
(* requested NumFetches times, stays in the queue meanwhile, and is never  *)
(* cancelled or deleted.                                                   *)
(*                                                                         *)
(* One thread does all this, so a callback is one step, and so is one      *)
(* turn of the loop in subr_try_deq.  The thread's state is one record t   *)
(* and the operators below map records to records, because a handler       *)
(* touches the queue several times over.  A session is identified with     *)
(* its connection and the pool is reduced to what each connection is       *)
(* doing (see NconnPool for the pool itself).                              *)
(***************************************************************************)
EXTENDS Integers, Sequences, FiniteSets

CONSTANTS
  Onces, Dupes,  \* the subrequests (addresses of)
  LabelOf,       \* the server of a subrequest, also for its name
  Settings,      \* records of how a thread may be set up: dupes, those that
                 \* were added before it runs; useSyncDns, m_dns_use_sync;
                 \* maxActive and maxIdle, of the pool; maxRequests, the bound
                 \* of the model on requests by clients
  NumFetches,    \* g_num_to_request, and the num_to_request of a dupe
  Keepalive,     \* may responses leave the connection open
  SubmitFails,   \* may dns_submit_a4 refuse a name
  MaxParallel,   \* m_max_parallel of the resolver
  NumConns,      \* bound of the model: connection objects
  NumNodes,      \* bound of the model: nodes of the queue (addresses)
  NumJobs,       \* bound of the model: look-up jobs (addresses)
  MaxExpiries    \* bound of the model: names that expire in the cache

ASSUME KindsAssumption == Onces \intersect Dupes = {} /\ 0 \notin Onces \union Dupes
ASSUME SettingsAssumption == \A c \in Settings :
  /\ c.dupes \subseteq Dupes /\ c.useSyncDns \in BOOLEAN
  /\ c.maxActive \in Nat \ {0} /\ c.maxIdle \in Nat \ {0}
  /\ c.maxRequests \in Nat
\* A thread starts with the one subrequest of hurl, or with none; hurl looks
\* names up while the thread waits (hurl.cc:1071).
ASSUME HurlAssumption == \A c \in Settings :
  /\ \A p, q \in c.dupes : p = q
  /\ c.dupes # {} => c.useSyncDns
ASSUME SizesAssumption ==
  /\ NumFetches \in Nat \ {0} /\ MaxParallel \in Nat \ {0}
  /\ NumNodes \in Nat \ {0} /\ {NumConns, NumJobs, MaxExpiries} \subseteq Nat
ASSUME SwitchesAssumption == {Keepalive, SubmitFails} \subseteq BOOLEAN

Subrs == Onces \union Dupes
Labels == {LabelOf[s] : s \in Subrs}
Conns == 1 .. NumConns
Nodes == 1 .. NumNodes
Jobs == 1 .. NumJobs
Null == 0   \* NULL, and the end of the list

VARIABLES
  conf,  \* the settings of the thread
  pc,  \* "deq": in subr_try_deq; "events": in evr_loop::run and its callbacks
  t    \* the thread

vars == <<conf, pc, t>>

UseSyncDns == conf.useSyncDns
MaxActive == conf.maxActive
MaxIdle == conf.maxIdle

RangeOf(q) == {q[i] : i \in DOMAIN q}
\* A new object has an address of S that is not in use; which, does not matter.
Unused(S) == CHOOSE x \in S : TRUE

\* With(f, x, v): a member of the object x points to is set.
With(f, x, v) == IF x = Null THEN f ELSE [f EXCEPT ![x] = v]
\* The counter of each subrequest of S goes up.
Bumped(f, S) == [s \in DOMAIN f |-> IF s \in S THEN f[s] + 1 ELSE f[s]]
\* The members of the objects in S have the values of new objects.
Reset(f, S, v) == [s \in DOMAIN f |-> IF s \in S THEN v ELSE f[s]]

-----------------------------------------------------------------------------
(* The queue.                                                              *)

\* subr_enqueue(): a new node at the back, which the subrequest points to.
Enqueued(u, s) ==
  LET n == Unused(Nodes \ RangeOf(u.queue))
  IN  [u EXCEPT !.queue = Append(@, n), !.entry[n] = s,
                !.state[s] = "queued", !.iq[s] = n]

\* subr_dequeue(): the entry is NULL if the subrequest was cancelled.
Dequeued(u) ==
  LET s == u.entry[Head(u.queue)]
  IN  [u EXCEPT !.queue = Tail(@), !.entry[Head(u.queue)] = Null,
                !.state = With(@, s, "none"), !.iq = With(@, s, Null)]

-----------------------------------------------------------------------------
(* The owners of subrequests.                                              *)

\* delete of a subrequest: its memory has no meaning until it is new again.
Deleted(u, S) ==
  [u EXCEPT !.alive = @ \ S,
            !.state = Reset(@, S, "none"), !.iq = Reset(@, S, Null),
            !.requested = Reset(@, S, 0), !.completed = Reset(@, S, 0),
            !.job = Reset(@, S, Null), !.ups = Reset(@, S, Null),
            !.done = @ \ S]

\* The error callback of proxy_u deletes the proxy_u of the client session,
\* and it the subrequest.  hurl has none.
ErrorCalled(u, S) == Deleted(u, S \intersect Onces)

\* The completion callback: hurl counts, and is finished at g_num_to_request.
CompletionCalled(u, s) ==
  IF s \notin Dupes THEN u
  ELSE [u EXCEPT !.num[s] = IF u.finished THEN 0 ELSE @,
                 !.told = @ + 1,
                 !.finished = @ \/ u.told + 1 >= NumFetches]

\* The request-creating callback of hurl refuses when it is finished or has
\* made all requests.
Refuses(u, s) == s \in Dupes /\ (u.finished \/ u.asked >= NumFetches)
Created(u, s) == IF s \in Dupes THEN [u EXCEPT !.asked = @ + 1] ELSE u

-----------------------------------------------------------------------------
(* Connections and upstream sessions.                                      *)

Active(u) == {c \in Conns : u.conn[c] \in {"busy", "stuck"}}
FreeConns(u) == {c \in Conns : u.conn[c] = "free"}
IdleFor(u, label) == {c \in Conns : u.conn[c] = "idle" /\ u.connLabel[c] = label}
InFlight(u, s) == {c \in Conns : u.conn[c] \in {"busy", "stuck"} /\ u.subr[c] = s}

\* cleanup_srvr_session(): session and connection go back to their pools.
Cleaned(u, c) ==
  [u EXCEPT !.conn[c] = "free", !.subr[c] = Null, !.connLabel[c] = Null]

\* ups_srvr_session::teardown() with an error status: subr_error(), cleanup.
TornDown(u, c) ==
  LET s == u.subr[c]
  IN  Cleaned(ErrorCalled([u EXCEPT !.completed[s] = @ + 1], {s}), c)

\* add_idle(): a cache that is too large evicts its oldest connection, which
\* is one of the others; which one, is left open here.
Parked(u, c) ==
  LET v == [u EXCEPT !.conn[c] = "idle", !.subr[c] = Null]
      idle == {d \in Conns : v.conn[d] = "idle"}
  IN  IF Cardinality(idle) <= MaxIdle THEN {v}
      ELSE {Cleaned(v, d) : d \in idle \ {c}}

\* The subrequest is counted and its completion callback is called; ups_read
\* or teardown has put the proxy_u in state DONE.
SubrComplete(u, s) ==
  CompletionCalled([u EXCEPT !.completed[s] = @ + 1,
                             !.done = @ \union ({s} \intersect Onces)], s)

\* evr_fd_readable_cb with the end of a response.  Either the connection can
\* be used again; or it cannot, and the subrequest is completed once more
\* on the way out (case NC_STATUS_EOF); or it can, but the next read
\* of the loop finds it closed, when there is no response left to call back
\* about.
ResponseEnds(u, c) ==
  LET s == u.subr[c]
      v == SubrComplete(u, s)
  IN  {Cleaned(SubrComplete(v, s), c)} \union
      (IF ~Keepalive THEN {}
       ELSE {Cleaned([v EXCEPT !.completed[s] = @ + 1], c)} \union Parked(v, c))

\* evr_fd_readable_cb with the end of the connection: the end of the response,
\* if it has no length.
ConnectionEnds(u, c) ==
  Cleaned(SubrComplete(u, u.subr[c]), c)

-----------------------------------------------------------------------------
(* Looking up names.                                                       *)

\* The jobs that will call back.
LiveJobs(u) == {j \in RangeOf(u.jobQ) \union u.submitted : u.jobCb[j]}

\* udns is through with the jobs of F.  They are never deleted, but nothing
\* can come of them any more, and the model forgets them.
Forgotten(u, F) ==
  [u EXCEPT !.submitted = @ \ F, !.jobCb = Reset(@, F, FALSE),
            !.jobData = Reset(@, F, Null)]

\* dns_a4_cb and adns_resolved_cb without an answer, for each job of F.
LookupsFailed(u, F) ==
  LET hit == {u.jobData[j] : j \in F \intersect LiveJobs(u)} \intersect u.alive
  IN  ErrorCalled([Forgotten(u, F) EXCEPT !.job = Reset(@, hit, Null),
                                          !.requested = Bumped(@, hit),
                                          !.completed = Bumped(@, hit)], hit)

\* Mutant of LookupAnswered: the subrequest is not queued again.
LookupAnsweredOnly(u, j) ==
  LET s == u.jobData[j]
      v == [Forgotten(u, {j}) EXCEPT !.cached = @ \union {LabelOf[s]}]
  IN  IF j \notin LiveJobs(u) \/ s \notin u.alive THEN v
      ELSE [v EXCEPT !.job[s] = Null]

\* dns_a4_cb and adns_resolved_cb with an answer.
LookupAnswered(u, j) ==
  LET s == u.jobData[j]
      v == [Forgotten(u, {j}) EXCEPT !.cached = @ \union {LabelOf[s]}]
      w == Enqueued([v EXCEPT !.job[s] = Null], s)
  IN  IF j \notin LiveJobs(u) \/ s \notin u.alive THEN v
      ELSE IF s \in Dupes THEN Enqueued(w, s)
      ELSE w

\* The loop of lookup_async that submits waiting jobs; it gives up at the
\* first one that is refused, and that job is gone.
Submitted(u) ==
  LET room == MaxParallel - Cardinality(u.submitted)
      k == IF Len(u.jobQ) < room THEN Len(u.jobQ) ELSE room
      First(i) == {u.jobQ[x] : x \in 1 .. i}
      Rest(i) == SubSeq(u.jobQ, i + 1, Len(u.jobQ))
  IN  {[ok |-> TRUE, u |-> [u EXCEPT !.jobQ = Rest(k),
                                     !.submitted = @ \union First(k)]]} \union
      {[ok |-> FALSE, u |-> [u EXCEPT !.jobQ = Rest(i),
                                      !.submitted = @ \union First(i - 1)]] :
        i \in IF SubmitFails THEN 1 .. k ELSE {}}

\* Mutant of TimerSet: the timer is for the jobs that wait.
TimerSetForWaiting(u) == [u EXCEPT !.timer = @ \/ u.jobQ # <<>>]

\* The end of lookup_async: as long as look-ups are active there is a timer.
TimerSet(u) == [u EXCEPT !.timer = @ \/ u.submitted # {}]

\* lookup_async() once the new job, if any, is in the queue: submit, let udns
\* give up look-ups that have waited too long, set the timer.
LookupAsync(u) ==
  {x \in Submitted(u) : ~x.ok} \union
  UNION {{[ok |-> TRUE, u |-> TimerSet(LookupsFailed(x.u, F))] :
            F \in SUBSET x.u.submitted} : x \in {y \in Submitted(u) : y.ok}}

UnusedJobs(u) ==
  Jobs \ (RangeOf(u.jobQ) \union u.submitted \union {u.job[s] : s \in u.alive})

-----------------------------------------------------------------------------
(* Starting a subrequest: the result of subr_try_start and what it leaves. *)

Result(status, u) == [status |-> status, u |-> u]

\* Mutant of Launched: a refused request gives its new connection back.
LaunchedGivesBack(u, s, c, new) ==
  LET v == [u EXCEPT !.conn[c] = "busy", !.connLabel[c] = LabelOf[s],
                     !.subr[c] = s, !.ups[s] = c]
      w == Created([v EXCEPT !.requested[s] = @ + 1], s)
  IN  IF Refuses(u, s)
      THEN {Result("ok", IF new THEN Cleaned(v, c) ELSE TornDown(v, c))}
      ELSE {Result("ok", w), Result("ok", TornDown(w, c))}

\* From "Setup" to the first call of evr_fd_writeable_cb.  A request that
\* is refused tears the session down, but on a new connection, which is still
\* free to evr_fd_error_cb, nothing happens.  Connecting or writing may fail
\* at once.
Launched(u, s, c, new) ==
  LET v == [u EXCEPT !.conn[c] = "busy", !.connLabel[c] = LabelOf[s],
                     !.subr[c] = s, !.ups[s] = c]
      w == Created([v EXCEPT !.requested[s] = @ + 1], s)
  IN  IF Refuses(u, s)
      THEN {Result("ok", IF new THEN [v EXCEPT !.conn[c] = "stuck"]
                                ELSE TornDown(v, c))}
      ELSE {Result("ok", w), Result("ok", TornDown(w, c))}

\* get_new_active(), which has no connection left at the maximum.
LaunchedNew(u, s) ==
  IF Cardinality(Active(u)) >= MaxActive THEN {Result("again", u)}
  ELSE IF FreeConns(u) = {} THEN {}   \* the bound of the model
  ELSE Launched(u, s, Unused(FreeConns(u)), TRUE)

LookupSync(u, s) ==
  LaunchedNew([u EXCEPT !.cached = @ \union {LabelOf[s]}], s) \union
  {Result("error", ErrorCalled([u EXCEPT !.requested[s] = @ + 1,
                                         !.completed[s] = @ + 1], {s}))}

\* The handle of the job is kept if the subrequest still exists.
LookupLater(u, s) ==
  LET j == Unused(UnusedJobs(u))
      v == [u EXCEPT !.jobQ = Append(@, j), !.jobCb[j] = TRUE, !.jobData[j] = s]
      After(x) ==
        IF ~x.ok THEN Result("error", x.u)
        ELSE Result("dns", IF s \in x.u.alive THEN [x.u EXCEPT !.job[s] = j]
                                              ELSE x.u)
  IN  IF UnusedJobs(u) = {} THEN {}   \* the bound of the model
      ELSE {After(x) : x \in LookupAsync(v)}

\* get_active_available() is an unsigned difference: above the maximum there
\* seem to be connections available (see NconnPool).
TryStart(u, s) ==
  IF IdleFor(u, LabelOf[s]) # {}
  THEN UNION {Launched(u, s, c, FALSE) : c \in IdleFor(u, LabelOf[s])}
  ELSE IF Cardinality(Active(u)) = MaxActive THEN {Result("again", u)}
  ELSE IF LabelOf[s] \in u.cached THEN LaunchedNew(u, s)
  ELSE IF UseSyncDns THEN LookupSync(u, s)
  ELSE LookupLater(u, s)

\* get_is_pending_done()
PendingDone(u, s) == u.requested[s] >= u.num[s]

\* Mutant of Started: the state is left as it was dequeued.
StartedNoState(r, s) ==
  IF s \notin r.u.alive THEN r.u ELSE
  CASE r.status = "ok" -> IF PendingDone(r.u, s) THEN r.u ELSE Enqueued(r.u, s)
    [] r.status = "again" -> Enqueued(r.u, s)
    [] r.status = "dns" -> [r.u EXCEPT !.state[s] = "dns"]
    [] r.status = "error" -> r.u

\* Mutant of Started: a subrequest without a connection is not queued again.
StartedDrops(r, s) ==
  IF s \notin r.u.alive THEN r.u ELSE
  CASE r.status = "ok" ->
         LET v == [r.u EXCEPT !.state[s] = "active"]
         IN  IF PendingDone(v, s) THEN v ELSE Enqueued(v, s)
    [] r.status = "dns" -> [r.u EXCEPT !.state[s] = "dns"]
    [] r.status \in {"again", "error"} -> r.u

\* The rest of the turn in subr_try_deq, by the status of the start.  When a
\* callback has deleted the subrequest, the code still sets its state and
\* reads its counts, in memory that was just freed.  The model assumes that
\* this memory still holds its values, by which the subrequest is not queued
\* again.
Started(r, s) ==
  IF s \notin r.u.alive THEN r.u ELSE
  CASE r.status = "ok" ->
         LET v == [r.u EXCEPT !.state[s] = "active"]
         IN  IF PendingDone(v, s) THEN v ELSE Enqueued(v, s)
    [] r.status = "again" -> Enqueued(r.u, s)
    [] r.status = "dns" -> [r.u EXCEPT !.state[s] = "dns"]
    [] r.status = "error" -> r.u

-----------------------------------------------------------------------------
(* Cancelling.                                                             *)

\* Mutant of Cancelled: the entry stays in the queue.
CancelledNotListed(u, s) ==
  IF u.state[s] = "dns" /\ u.job[s] # Null
  THEN [u EXCEPT !.jobCb[u.job[s]] = FALSE]
  ELSE IF u.state[s] = "active" THEN Cleaned(u, u.ups[s]) ELSE u

\* subr::cancel(), called by ups_cancel without an error callback.
Cancelled(u, s) ==
  CASE u.state[s] = "queued" -> [u EXCEPT !.entry[u.iq[s]] = Null]
    [] u.state[s] = "dns" ->
         IF u.job[s] = Null THEN u ELSE [u EXCEPT !.jobCb[u.job[s]] = FALSE]
    [] u.state[s] = "active" ->
         IF u.ups[s] = Null THEN u ELSE Cleaned(u, u.ups[s])
    [] u.state[s] = "none" -> u

-----------------------------------------------------------------------------
(* The steps of the thread.                                                *)

Fresh ==
  [queue |-> <<>>, entry |-> [n \in Nodes |-> Null],
   state |-> [s \in Subrs |-> "none"], iq |-> [s \in Subrs |-> Null],
   requested |-> [s \in Subrs |-> 0], completed |-> [s \in Subrs |-> 0],
   num |-> [s \in Subrs |-> IF s \in Dupes THEN NumFetches ELSE 1],
   job |-> [s \in Subrs |-> Null], ups |-> [s \in Subrs |-> Null],
   alive |-> conf.dupes, done |-> {},
   jobQ |-> <<>>, submitted |-> {}, jobCb |-> [j \in Jobs |-> FALSE],
   jobData |-> [j \in Jobs |-> Null], timer |-> FALSE, cached |-> {},
   conn |-> [c \in Conns |-> "free"], subr |-> [c \in Conns |-> Null],
   connLabel |-> [c \in Conns |-> Null],
   asked |-> 0, told |-> 0, finished |-> FALSE,
   requests |-> 0, expiries |-> 0]

\* hurl adds its subrequest before the thread runs; t_run starts with
\* subr_try_deq().
Init ==
  /\ conf \in Settings
  /\ pc = "deq"
  /\ t = IF conf.dupes = {} THEN Fresh
         ELSE LET s == CHOOSE s \in conf.dupes : TRUE IN Enqueued(Fresh, s)

\* The end of evr_loop::run.
GoDeq == pc = "events" /\ pc' = "deq" /\ UNCHANGED <<conf, t>>

\* A turn of the loop in subr_try_deq: a subrequest that was cancelled is
\* skipped, another one is started; the loop ends when there is no
\* connection left.
DeqTurn ==
  /\ pc = "deq"
  /\ t.queue # <<>>
  /\ LET s == t.entry[Head(t.queue)]
     IN  IF s = Null THEN t' = Dequeued(t) /\ UNCHANGED pc
         ELSE \E r \in TryStart(Dequeued(t), s) :
                /\ t' = Started(r, s)
                /\ pc' = IF r.status = "again" THEN "events" ELSE "deq"
  /\ UNCHANGED conf

DeqEnds == pc = "deq" /\ t.queue = <<>> /\ pc' = "events" /\ UNCHANGED <<conf, t>>

\* proxy_h::get_proxy: a client's request becomes a subrequest.
Request(s) ==
  /\ pc = "events"
  /\ s \in Onces \ t.alive
  /\ t.requests < conf.maxRequests
  /\ Len(t.queue) + Cardinality(t.alive) < NumNodes
  /\ t' = Enqueued([t EXCEPT !.alive = @ \union {s}, !.requests = @ + 1], s)
  /\ UNCHANGED <<conf, pc>>

\* clnt_session::teardown, or the end of a request that is done: the client
\* session cancels its proxy_u, unless it is done, and deletes it.
ClientEnds(s) ==
  /\ pc = "events"
  /\ s \in Onces \intersect t.alive
  /\ t' = Deleted(IF s \in t.done THEN t ELSE Cancelled(t, s), {s})
  /\ UNCHANGED <<conf, pc>>

\* What may happen to a session in flight: an event or a time-out.
SessionStep(c) ==
  /\ pc = "events"
  /\ t.conn[c] = "busy"
  /\ \/ t' \in ResponseEnds(t, c)
     \/ t' = ConnectionEnds(t, c)
     \/ t' = TornDown(t, c)
  /\ UNCHANGED <<conf, pc>>

\* The server closes an idle connection.
IdleEnds(c) ==
  /\ pc = "events"
  /\ t.conn[c] = "idle"
  /\ t' = Cleaned(t, c)
  /\ UNCHANGED <<conf, pc>>

\* nresolver::evr_fd_readable_cb with an answer.
Answer(j) ==
  /\ pc = "events"
  /\ j \in t.submitted
  /\ \E v \in {LookupAnswered(t, j), LookupsFailed(t, {j})} :
       \E x \in LookupAsync(v) : t' = x.u
  /\ UNCHANGED <<conf, pc>>

\* nresolver::evr_fd_timeout_cb: udns gives up what has waited too long.
DnsTimer ==
  /\ pc = "events"
  /\ t.timer
  /\ \E x \in LookupAsync([t EXCEPT !.timer = FALSE]) : t' = x.u
  /\ UNCHANGED <<conf, pc>>

\* ai_cache::lookup finds an address that has expired, and deletes it.
Expires(label) ==
  /\ pc = "events"
  /\ label \in t.cached
  /\ t.expiries < MaxExpiries
  /\ t' = [t EXCEPT !.cached = @ \ {label}, !.expiries = @ + 1]
  /\ UNCHANGED <<conf, pc>>

Next ==
  \/ GoDeq \/ DeqTurn \/ DeqEnds \/ DnsTimer
  \/ \E s \in Onces : Request(s) \/ ClientEnds(s)
  \/ \E c \in Conns : SessionStep(c) \/ IdleEnds(c)
  \/ \E j \in Jobs : Answer(j)
  \/ \E l \in Labels : Expires(l)

Spec == Init /\ [][Next]_vars

\* The thread is scheduled.  Each round of evr_loop::run serves what is due, and
\* the rounds alternate with subr_try_deq, hence strong fairness: a
\* session has a timer of its own that ends it (IdleTimers), the timer of the
\* resolver fires, and udns gives up each look-up at some tick of it.
\* Servers and name servers need not answer, clients need not go away.
Fairness ==
  /\ WF_vars(GoDeq) /\ WF_vars(DeqTurn) /\ WF_vars(DeqEnds)
  /\ \A c \in Conns : SF_vars(SessionStep(c))
  /\ SF_vars(DnsTimer)
  /\ \A j \in Jobs : SF_vars(DnsTimer /\ j \in t.submitted /\ j \notin t'.submitted)

LiveSpec == Spec /\ Fairness

-----------------------------------------------------------------------------
(* Properties.                                                             *)

States == {"none", "queued", "dns", "active"}

\* Every member has the type of its declaration.
TypeOK ==
  /\ pc \in {"deq", "events"}
  /\ t.queue \in Seq(Nodes) /\ t.entry \in [Nodes -> Subrs \union {Null}]
  /\ t.state \in [Subrs -> States] /\ t.iq \in [Subrs -> Nodes \union {Null}]
  /\ t.requested \in [Subrs -> Nat] /\ t.completed \in [Subrs -> Nat]
  /\ t.alive \subseteq Subrs /\ t.done \subseteq t.alive
  /\ t.jobQ \in Seq(Jobs) /\ t.submitted \subseteq Jobs
  /\ Cardinality(t.submitted) <= MaxParallel
  /\ t.conn \in [Conns -> {"free", "idle", "busy", "stuck"}]
  /\ t.subr \in [Conns -> Subrs \union {Null}]

\* Besides the types: "Delete from queue" (subr.cc) writes through an iterator
\* kept in the subrequest: whatever happened in between, that is the node of
\* this subrequest, and no node holds a subrequest that is not queued, or
\* deleted.
QueuedIsListed ==
  /\ TypeOK
  /\ \A s \in t.alive : t.state[s] = "queued" =>
       t.iq[s] \in RangeOf(t.queue) /\ t.entry[t.iq[s]] = s
  /\ \A n \in RangeOf(t.queue) : t.entry[n] # Null =>
       /\ t.entry[n] \in t.alive
       /\ t.state[t.entry[n]] = "queued" /\ t.iq[t.entry[n]] = n

\* A session in flight belongs to a subrequest that exists.
SessionHasSubr ==
  \A c \in Active(t) : t.subr[c] \in t.alive \ t.done

\* "Cancel active or remove pending subrequest" (subr.cc): when the client is
\* gone and the subrequest deleted, no look-up will call it back.  If the
\* resolver refuses a look-up this is not so (see README.md).
CancelRemoves ==
  \A j \in LiveJobs(t) : t.jobData[j] \in t.alive

\* The state by which cancel decides is the truth: an active subrequest has
\* the session it points to and no other; a subrequest that is not active has
\* none; one that waits for its name has a job that would call it back.  So
\* cancel never hits the session of another, and what it leaves behind calls
\* no subrequest that is gone.
CancelFindsIt ==
  /\ SessionHasSubr
  /\ SubmitFails \/ CancelRemoves
  /\ \A s \in (Onces \intersect t.alive) \ t.done :
       /\ InFlight(t, s) = IF t.state[s] = "active" THEN {t.ups[s]} ELSE {}
       /\ t.state[s] = "dns" =>
            /\ t.job[s] # Null
            /\ t.jobData[t.job[s]] = s /\ t.jobCb[t.job[s]]

\* Nothing is lost: as long as no look-up is refused, a request that has not
\* ended is queued, being looked up, or in flight, whenever the thread waits
\* for events.  And as long as there is a look-up there is a timer: only by a
\* tick of it do look-ups end if no name server answers.
NothingIsLost ==
  /\ t.submitted # {} => t.timer
  /\ pc = "events" =>
       \A s \in (Onces \intersect t.alive) \ t.done :
         /\ t.state[s] # "none"
         /\ t.state[s] = "dns" => t.job[s] \in LiveJobs(t)

\* A look-up that waits for its turn is submitted by the next call of
\* lookup_async only; when the active ones have timed out there may be none.
Starved(s) ==
  t.state[s] = "dns" /\ t.job[s] \in RangeOf(t.jobQ) /\ t.submitted = {}

\* Every request ends, whatever servers do, although the queue is not served
\* in order, unless its look-up is starved.
EveryRequestEnds ==
  \A s \in Onces :
    s \in t.alive ~> s \notin t.alive \/ s \in t.done \/ Starved(s)

\* subr_try_deq comes to an end and the thread back to its events, although
\* a dupe that failed goes back into the queue it is taken from.
DeqTerminates == pc = "deq" ~> pc = "events"

\* A dupe that has requests left to make is in the queue, exactly once,
\* whenever the thread waits for events, unless its name was not found.
DupeStaysQueued ==
  pc = "events" =>
    \A s \in t.alive \intersect Dupes :
      LET nodes == {n \in RangeOf(t.queue) : t.entry[n] = s}
      IN  /\ Cardinality(nodes) <= 1
          /\ nodes = {} => PendingDone(t, s) \/ t.requested[s] > t.asked

=============================================================================
