----------------------------- MODULE IdleTimers -----------------------------
(***************************************************************************)
(* The idle timers of the sessions of a server thread: every client and    *)
(* every upstream session has one timer, m_timer_obj, carried by its       *)
(* connection.  It is not moved when the session is active; when it fires, *)
(* the session is torn down if it has been idle for its time-out, or the   *)
(* timer is armed again for what is left of it.                            *)
(*                                                                         *)
(* A session is identified with its connection (nconn).  `parked'          *)
(* connections are idle in the upstream pool and have no session.  A batch *)
(* of events may hold one for a connection that an earlier handler of the  *)
(* same batch tore down: no timer is touched then.                         *)
(***************************************************************************)
EXTENDS Evr

CONSTANTS
  Clients,     \* connections of client sessions
  Upstreams,   \* connections of upstream sessions
  TimeoutOf    \* per connection: m_timeout_ms of its session

Sessions == Clients \union Upstreams
Listener == "listener"

ASSUME SessionsAssumption == Data = Sessions /\ Clients \intersect Upstreams = {}
ASSUME TimeoutAssumption == TimeoutOf \in [Sessions -> 1 .. MaxDelay]
ASSUME NamesAssumption == NoTimer \notin Timers

VARIABLES
  st,          \* per connection: free, busy (it has a session) or parked
  timerObj,    \* per session: m_timer_obj
  idleFor,     \* per session: time since m_last_active_ms, up to TimeoutOf
  batch        \* events got from evr::wait and not handled yet

sessionVars == <<st, timerObj, idleFor>>
vars == <<timerVars, pc, waitLeft, sessionVars, batch>>

Init ==
  /\ TimersInit
  /\ st = [s \in Sessions |-> "free"]
  /\ timerObj = [s \in Sessions |-> NoTimer]
  /\ idleFor = [s \in Sessions |-> 0]
  /\ batch = {}

Busy == {s \in Sessions : st[s] = "busy"}
TimersOf(ss) == {timerObj[s] : s \in ss} \ {NoTimer}

-----------------------------------------------------------------------------
(* What the handlers do to sessions.                                       *)

\* Bound of the model: a new session leaves an address for Rearm, which
\* allocates its timer before the old one is deleted.
HasSpare == \E t, u \in Timers \ queue : t # u

\* lsnr::evr_fd_readable_cb and t_srvr::subr_try_start.
Open(s) ==
  \E t \in Timers :
    /\ HasSpare
    /\ AddTimer(t, TimeoutOf[s], s)
    /\ timerObj' = [timerObj EXCEPT ![s] = t]
    /\ st' = [st EXCEPT ![s] = "busy"]
    /\ idleFor' = [idleFor EXCEPT ![s] = 0]

\* subr_try_start whose first write fails: the session it has just made is
\* torn down again, its timer stays queued.
OpenFails(s) ==
  \E t \in Timers :
    /\ HasSpare
    /\ t \notin queue
    /\ queue' = queue \union {t}
    /\ cancelled' = cancelled \union {t}
    /\ left' = [left EXCEPT ![t] = TimeoutOf[s]]
    /\ data' = [data EXCEPT ![t] = s]
    /\ st' = [st EXCEPT ![s] = "free"]
    /\ UNCHANGED <<timerObj, idleFor>>

\* A handler runs: m_last_active_ms.
Touch(s) ==
  /\ idleFor' = [idleFor EXCEPT ![s] = 0]
  /\ UNCHANGED <<timerVars, st, timerObj>>

\* The sessions ss end and give their timers up; their connections are
\* closed ("free") or kept for the next request ("parked").
Closed(ss, to) ==
  /\ timerObj' = [s \in Sessions |-> IF s \in ss THEN NoTimer ELSE timerObj[s]]
  /\ st' = [s \in Sessions |-> IF s \in ss THEN to ELSE st[s]]
  /\ idleFor' = [s \in Sessions |-> IF s \in ss THEN 0 ELSE idleFor[s]]

\* Mutant of Close: the timer is forgotten without being cancelled.
CloseKeepsTimer(ss, to) == UNCHANGED timerVars /\ Closed(ss, to)

\* teardown() of the sessions ss: their timers are cancelled.
Close(ss, to) == Cancel(TimersOf(ss)) /\ Closed(ss, to)

\* What a client session's teardown takes with it: the upstream sessions of
\* its requests, through ups_cancel() and subr::cancel().
ClosedWith(s) ==
  IF s \in Clients
  THEN {{s} \union us : us \in SUBSET (Busy \intersect Upstreams)}
  ELSE {{s}}

-----------------------------------------------------------------------------
(* The loop.                                                               *)

DropCancelledTimer ==
  \E t \in queue : DropCancelled(t) /\ UNCHANGED <<sessionVars, batch>>

\* The timer is popped and deleted around its callback, which adds u (if
\* any) and cancels those of cs.
FireAnd(t, us, d, ms, cs) ==
  /\ queue' = (queue \ {t}) \union us
  /\ cancelled' = (cancelled \union cs) \ {t}
  /\ left' = [x \in Timers |-> IF x \in us THEN ms ELSE
                               IF x = t THEN 0 ELSE left[x]]
  /\ data' = [x \in Timers |-> IF x \in us THEN d ELSE
                               IF x = t THEN NoData ELSE data[x]]

\* The time-out callbacks with a session that was idle long enough.
Expire(t) ==
  LET s == data[t]
  IN  /\ st[s] = "busy"
      /\ idleFor[s] >= TimeoutOf[s]
      /\ \E ss \in ClosedWith(s) :
           /\ FireAnd(t, {}, s, 0, TimersOf(ss))
           /\ Closed(ss, "free")

\* The time-out callbacks with a session that was active meanwhile: a new
\* timer, allocated while the old one still is.
RearmWith(t, ms) ==
  LET s == data[t]
  IN  /\ st[s] = "busy"
      /\ idleFor[s] < TimeoutOf[s]
      /\ \E u \in Timers \ queue :
           /\ FireAnd(t, {u}, s, ms, {})
           /\ timerObj' = [timerObj EXCEPT ![s] = u]
      /\ UNCHANGED <<st, idleFor>>

\* Mutant of Rearm: the timer is armed for the whole time-out again.
RearmInFull(t) == RearmWith(t, TimeoutOf[data[t]])

\* Mutant of Rearm: the timer fires once only.
RearmForgotten(t) ==
  /\ st[data[t]] = "busy"
  /\ idleFor[data[t]] < TimeoutOf[data[t]]
  /\ FireAnd(t, {}, NoData, 0, {})
  /\ timerObj' = [timerObj EXCEPT ![data[t]] = NoTimer]
  /\ UNCHANGED <<st, idleFor>>

Rearm(t) == RearmWith(t, TimeoutOf[data[t]] - idleFor[data[t]])

\* One timer is fired and run() returns.  For a connection without a session
\* the callbacks do nothing; OneTimerEach says that they never find one.
Fire ==
  \E t \in queue :
    /\ Due(t)
    /\ Expire(t) \/ Rearm(t)
    /\ pc' = "out"
    /\ UNCHANGED <<waitLeft, batch>>

Wait == StartWait /\ UNCHANGED <<sessionVars, batch>>

\* evr::wait returns events or, at its time-out, none; a signal() may end
\* it too.
WaitDone ==
  /\ pc = "wait"
  /\ batch' \in SUBSET ({Listener} \union {s \in Sessions : st[s] # "free"})
  /\ batch' # {} \/ waitLeft = 0
  /\ pc' = "events"
  /\ waitLeft' = 0
  /\ UNCHANGED <<timerVars, sessionVars>>

Signalled ==
  /\ pc = "wait"
  /\ pc' = "events"
  /\ waitLeft' = 0
  /\ UNCHANGED <<timerVars, sessionVars, batch>>

HandleAccept ==
  /\ pc = "events" /\ Listener \in batch
  /\ \E c \in Clients : st[c] = "free" /\ Open(c)
  /\ batch' = batch \ {Listener}
  /\ UNCHANGED <<pc, waitLeft>>

\* Nothing is accepted: the accept fails or the pool has no connection.
HandleNoAccept ==
  /\ pc = "events" /\ Listener \in batch
  /\ batch' = batch \ {Listener}
  /\ UNCHANGED <<timerVars, pc, waitLeft, sessionVars>>

\* run_state_machine() of the session of a connection.
HandleBusy(s) ==
  /\ st[s] = "busy"
  /\ \/ Touch(s)
     \/ \E ss \in ClosedWith(s) : Close(ss, "free")
     \/ s \in Upstreams /\ Close({s}, "parked")

\* An event on a parked connection closes it.
HandleParked(s) ==
  /\ st[s] = "parked"
  /\ st' = [st EXCEPT ![s] = "free"]
  /\ UNCHANGED <<timerVars, timerObj, idleFor>>

HandleFree(s) == st[s] = "free" /\ UNCHANGED <<timerVars, sessionVars>>

HandleEvent ==
  \E s \in Sessions \intersect batch :
    /\ pc = "events"
    /\ HandleBusy(s) \/ HandleParked(s) \/ HandleFree(s)
    /\ batch' = batch \ {s}
    /\ UNCHANGED <<pc, waitLeft>>

BatchDone ==
  /\ pc = "events" /\ batch = {}
  /\ pc' = "out"
  /\ UNCHANGED <<timerVars, waitLeft, sessionVars, batch>>

-----------------------------------------------------------------------------
(* t_srvr::t_run between two runs of the loop.                             *)

\* A client connection of m_clnt_output_q is written to.
WriteOutput ==
  /\ pc = "out"
  /\ \E c \in Clients \intersect Busy :
       Touch(c) \/ \E ss \in ClosedWith(c) : Close(ss, "free")
  /\ UNCHANGED <<pc, waitLeft, batch>>

\* subr_try_deq() starts a subrequest, on a parked or a new connection.
StartSubr ==
  /\ pc = "out"
  /\ \E u \in Upstreams : st[u] # "busy" /\ (Open(u) \/ OpenFails(u))
  /\ UNCHANGED <<pc, waitLeft, batch>>

NextRun ==
  /\ pc = "out"
  /\ pc' = "run"
  /\ UNCHANGED <<timerVars, waitLeft, sessionVars, batch>>

LongerIdle(s) ==
  IF idleFor[s] < TimeoutOf[s] THEN idleFor[s] + 1 ELSE idleFor[s]

Tick ==
  /\ ClockTick
  /\ idleFor' = [s \in Sessions |-> IF s \in Busy
                                    THEN LongerIdle(s)
                                    ELSE 0]
  /\ UNCHANGED <<st, timerObj, batch>>

Loop ==
  \/ DropCancelledTimer \/ Fire \/ Wait \/ WaitDone \/ BatchDone \/ NextRun
  \/ HandleNoAccept \/ HandleEvent

Next ==
  \/ Loop \/ Signalled \/ HandleAccept \/ WriteOutput \/ StartSubr \/ Tick

\* The thread is scheduled and time passes.
Fairness ==
  /\ WF_vars(DropCancelledTimer) /\ WF_vars(Fire) /\ WF_vars(Wait)
  /\ WF_vars(pc = "wait" /\ waitLeft = 0 /\ WaitDone)
  /\ WF_vars(HandleNoAccept) /\ WF_vars(HandleEvent)
  /\ WF_vars(BatchDone) /\ WF_vars(NextRun)
  /\ WF_vars(Tick)

Spec == Init /\ [][Next]_vars /\ Fairness

-----------------------------------------------------------------------------
TypeOK ==
  /\ TimersTypeOK
  /\ st \in [Sessions -> {"free", "busy", "parked"}]
  /\ timerObj \in [Sessions -> Timers \union {NoTimer}]
  /\ idleFor \in [Sessions -> Nat]
  /\ batch \subseteq Sessions \union {Listener}

\* The timers that will fire are those of the sessions that exist, one
\* each: m_timer_obj is never the address of a deleted timer (cancelling it
\* would cancel another session's), and no timer outlives its session.
OneTimerEach ==
  /\ Active = {timerObj[s] : s \in Busy}
  /\ \A s \in Busy : timerObj[s] \in Timers /\ data[timerObj[s]] = s
  /\ \A s \in Sessions \ Busy : timerObj[s] = NoTimer

\* A session's timer fires no later than the moment the session will have
\* been idle for its time-out.
CheckedInTime ==
  \A s \in Busy : left[timerObj[s]] <= TimeoutOf[s] - idleFor[s]

\* A session is active again and again, or it goes away: none is left idle.
IdleKilled == \A s \in Sessions : []<>(s \notin Busy \/ idleFor[s] = 0)
=============================================================================
