-------------------------------- MODULE Evr ---------------------------------
(***************************************************************************)
(* The timers and the loop of a server thread (class evr_loop): the        *)
(* priority queue of timers, their cancellation, and one run of the loop,  *)
(* which either drops cancelled timers, or fires one timer and returns, or *)
(* waits for descriptors and then handles the batch of events it got.      *)
(*                                                                         *)
(* A timer is the address of its evr_timer_t, which new may hand out again *)
(* after delete.  Times are relative: left[t] is the number of             *)
(* milliseconds until m_time_ms if that is to come; of the times that are  *)
(* past only the order is kept, as 0, -1, ... from the last to the first.  *)
(* The fields of an address that holds no timer are 0, NoData and not      *)
(* cancelled.  What callbacks do is up to the modules that extend this one.*)
(***************************************************************************)
EXTENDS Integers, FiniteSets

CONSTANTS
  Timers,      \* addresses of timers
  Data,        \* what a timer may carry as m_data
  MaxDelay,    \* longest delay a timer is added with
  DefaultWait  \* EVR_DEFAULT_TIME_WAIT_MS

ASSUME DelaysAssumption == MaxDelay \in Nat /\ DefaultWait \in Nat
ASSUME TimersAssumption == IsFiniteSet(Timers)

VARIABLES
  queue,       \* m_timer_pq
  cancelled,   \* timers whose m_state is EVR_TIMER_CANCELLED
  left,        \* per timer: m_time_ms, relative to now
  data,        \* per timer: m_data
  pc,          \* where the thread is: see Phases
  waitLeft     \* what is left of the time-out of evr::wait

timerVars == <<queue, cancelled, left, data>>

NoTimer == "no timer"
NoData == "no data"

\* "run" in the loop over the timers, "wait" in evr::wait, "events" in the
\* loop over the batch, "out" in t_srvr::t_run between two runs.
Phases == {"run", "wait", "events", "out"}

TimersInit ==
  /\ queue = {}
  /\ cancelled = {}
  /\ left = [t \in Timers |-> 0]
  /\ data = [t \in Timers |-> NoData]
  /\ pc = "out"
  /\ waitLeft = 0

Active == queue \ cancelled

-----------------------------------------------------------------------------
\* add_timer(): a new object, queued.
AddTimer(t, ms, d) ==
  /\ t \notin queue
  /\ queue' = queue \union {t}
  /\ left' = [left EXCEPT ![t] = ms]
  /\ data' = [data EXCEPT ![t] = d]
  /\ UNCHANGED cancelled

\* cancel_timer() of each timer of ts: they are marked and stay queued.
Cancel(ts) ==
  /\ cancelled' = cancelled \union ts
  /\ UNCHANGED <<queue, left, data>>

\* pop() and delete.
Delete(t) ==
  /\ queue' = queue \ {t}
  /\ cancelled' = cancelled \ {t}
  /\ left' = [left EXCEPT ![t] = 0]
  /\ data' = [data EXCEPT ![t] = NoData]

\* m_timer_pq.top(): ties are broken in any way.
IsTop(t) == t \in queue /\ \A u \in queue : left[t] <= left[u]

\* run(): a cancelled timer at the top is deleted, due or not.
DropCancelled(t) ==
  /\ pc = "run"
  /\ IsTop(t) /\ t \in cancelled
  /\ Delete(t)
  /\ UNCHANGED <<pc, waitLeft>>

\* run(): the timer at the top is due; its callback is called before it is
\* deleted, and its status is what run() returns.
Due(t) == pc = "run" /\ IsTop(t) /\ t \notin cancelled /\ left[t] <= 0

\* Mutant of StartWait: it always waits for the default time.
StartWaitDefault ==
  /\ pc = "run"
  /\ queue = {} \/ \E t \in queue : IsTop(t) /\ t \notin cancelled /\ left[t] > 0
  /\ waitLeft' = DefaultWait
  /\ pc' = "wait"
  /\ UNCHANGED timerVars

\* run(): nothing is due; wait for descriptors until the first timer is.
StartWait ==
  /\ pc = "run"
  /\ \/ queue = {} /\ waitLeft' = DefaultWait
     \/ \E t \in queue : /\ IsTop(t) /\ t \notin cancelled /\ left[t] > 0
                         /\ waitLeft' = left[t]
  /\ pc' = "wait"
  /\ UNCHANGED timerVars

\* One millisecond passes: the timers that become due are the last of those
\* that are.
Aged(t) ==
  IF left[t] > 0 THEN left[t] - 1
  ELSE 0 - Cardinality({left[u] : u \in {x \in queue : left[x] \in left[t] + 1 .. 1}})

ClockTick ==
  /\ left' = [t \in Timers |-> IF t \in queue THEN Aged(t) ELSE 0]
  /\ waitLeft' = IF waitLeft > 0 THEN waitLeft - 1 ELSE 0
  /\ UNCHANGED <<queue, cancelled, data, pc>>

\* While the loop waits, it will be awake when the next timer is due.
WaitCoversTimers ==
  pc = "wait" => waitLeft = 0 \/ \A t \in Active : waitLeft <= left[t]

TimersTypeOK ==
  /\ queue \subseteq Timers
  /\ cancelled \subseteq queue
  /\ left \in [Timers -> Int]
  /\ \A t \in Timers : left[t] <= MaxDelay
  /\ data \in [Timers -> Data \union {NoData}]
  /\ pc \in Phases
  /\ waitLeft \in Nat
=============================================================================
