-------------------------- MODULE IdleTimersProofs --------------------------
(***************************************************************************)
(* Proofs about the idle timers, for any sessions, time-outs and number of *)
(* timer addresses.                                                        *)
(***************************************************************************)
EXTENDS IdleTimers, FiniteSetTheorems, TLAPS

USE DelaysAssumption, SessionsAssumption, TimeoutAssumption, NamesAssumption

\* A session's idle time is only counted up to its time-out.
IdleBounded == \A s \in Sessions : idleFor[s] <= TimeoutOf[s]

\* Type correctness of the timers and the sessions.
SessionTypes ==
  /\ queue \subseteq Timers
  /\ cancelled \subseteq queue
  /\ left \in [Timers -> Int]
  /\ \A t \in Timers : left[t] <= MaxDelay
  /\ data \in [Timers -> Data \union {NoData}]
  /\ st \in [Sessions -> {"free", "busy", "parked"}]
  /\ timerObj \in [Sessions -> Timers \union {NoTimer}]
  /\ idleFor \in [Sessions -> Nat]

\* What the handlers can disturb.
TimersOK == SessionTypes /\ OneTimerEach /\ CheckedInTime /\ IdleBounded

\* The inductive invariant.
IInv == TimersOK /\ TypeOK /\ WaitCoversTimers

-----------------------------------------------------------------------------
\* The initial state satisfies the inductive invariant.
LEMMA InitIInv == Init => IInv
BY DEF Init, TimersInit, IInv, TimersOK, SessionTypes, TypeOK, TimersTypeOK,
       Phases, Active, Busy, OneTimerEach, CheckedInTime, IdleBounded,
       WaitCoversTimers

\* A timer that is due after a tick was due or one millisecond away.
LEMMA AgedTimer ==
  ASSUME SessionTypes, NEW t \in queue
  PROVE  /\ Aged(t) \in Int
         /\ left[t] > 0 => Aged(t) = left[t] - 1
         /\ left[t] <= 0 => Aged(t) <= 0
<1> DEFINE between == {x \in queue : left[x] \in left[t] + 1 .. 1}
           times == {left[u] : u \in between}
           f == [u \in between |-> left[u]]
<1>1. IsFiniteSet(between)
  BY TimersAssumption, FS_Subset DEF SessionTypes
<1>2. f \in Surjection(between, times) BY DEF Surjection
<1>3. IsFiniteSet(times) BY <1>1, <1>2, FS_Surjection
<1>4. Cardinality(times) \in Nat BY <1>3, FS_CardinalityType
<1>5. left[t] \in Int BY DEF SessionTypes
<1> QED BY <1>4, <1>5 DEF Aged

\* Distinct sessions have distinct timers, all of them queued.
LEMMA TimerOwner ==
  ASSUME SessionTypes, OneTimerEach
  PROVE  /\ \A s \in Busy : timerObj[s] \in queue /\ timerObj[s] \notin cancelled
         /\ \A s, r \in Busy : timerObj[s] = timerObj[r] => s = r
         /\ \A t \in Active : data[t] \in Busy /\ timerObj[data[t]] = t
BY DEF OneTimerEach, Active

\* A timer added for a session that had none.
LEMMA OpenTimers ==
  ASSUME TimersOK, NEW s \in Sessions \ Busy, Open(s)
  PROVE  TimersOK'
<1>1. PICK t \in Timers : /\ AddTimer(t, TimeoutOf[s], s)
                          /\ timerObj' = [timerObj EXCEPT ![s] = t]
                          /\ st' = [st EXCEPT ![s] = "busy"]
                          /\ idleFor' = [idleFor EXCEPT ![s] = 0]
  BY DEF Open
<1>2. SessionTypes /\ OneTimerEach BY DEF TimersOK
<1>3. \A r \in Busy : timerObj[r] # t
  BY <1>1, <1>2, TimerOwner DEF AddTimer
<1>4. Busy' = Busy \union {s} BY <1>1, <1>2 DEF Busy, SessionTypes
<1>5. Active' = Active \union {t}
  BY <1>1, <1>2 DEF Active, AddTimer, SessionTypes
<1>6. TimeoutOf[s] \in 1 .. MaxDelay OBVIOUS
<1>7. OneTimerEach'
  <2>1. \A r \in Busy : timerObj'[r] = timerObj[r]
    BY <1>1, <1>2 DEF SessionTypes, Busy
  <2>2. timerObj'[s] = t /\ data'[t] = s
    BY <1>1, <1>2 DEF SessionTypes, AddTimer
  <2>3. \A r \in Busy : data'[timerObj[r]] = data[timerObj[r]]
    BY <1>1, <1>2, <1>3 DEF OneTimerEach, SessionTypes, AddTimer
  <2>4. \A r \in Sessions \ Busy' : timerObj'[r] = NoTimer
    BY <1>1, <1>2, <1>4 DEF OneTimerEach, SessionTypes
  <2>5. Active' = {timerObj'[r] : r \in Busy'}
    BY <1>2, <1>4, <1>5, <2>1, <2>2 DEF OneTimerEach
  <2> QED BY <1>2, <1>4, <2>1, <2>2, <2>3, <2>4, <2>5 DEF OneTimerEach
<1>8. CheckedInTime'
  <2> SUFFICES ASSUME NEW r \in Busy'
               PROVE  left'[timerObj'[r]] <= TimeoutOf[r] - idleFor'[r]
    BY DEF CheckedInTime
  <2>1. CASE r = s
    BY <1>1, <1>2, <1>6, <2>1 DEF SessionTypes, AddTimer
  <2>2. CASE r # s
    BY <1>1, <1>2, <1>3, <1>4, <2>2
    DEF SessionTypes, AddTimer, Busy, TimersOK, CheckedInTime, OneTimerEach
  <2> QED BY <2>1, <2>2
<1>9. IdleBounded'
  BY <1>1, <1>2, <1>6 DEF IdleBounded, TimersOK, SessionTypes
<1>10. SessionTypes'
  BY <1>1, <1>2, <1>6 DEF SessionTypes, AddTimer
<1> QED BY <1>7, <1>8, <1>9, <1>10 DEF TimersOK

\* A session that is made and torn down at once leaves a cancelled timer.
LEMMA OpenFailsTimers ==
  ASSUME TimersOK, NEW s \in Sessions \ Busy, OpenFails(s)
  PROVE  TimersOK'
<1>1. PICK t \in Timers : /\ t \notin queue
                          /\ queue' = queue \union {t}
                          /\ cancelled' = cancelled \union {t}
                          /\ left' = [left EXCEPT ![t] = TimeoutOf[s]]
                          /\ data' = [data EXCEPT ![t] = s]
  BY DEF OpenFails
<1>2. /\ st' = [st EXCEPT ![s] = "free"]
      /\ UNCHANGED <<timerObj, idleFor>>
  BY DEF OpenFails
<1>3. SessionTypes /\ OneTimerEach BY DEF TimersOK
<1>4. \A r \in Busy : timerObj[r] # t BY <1>1, <1>3, TimerOwner
<1>5. Busy' = Busy BY <1>2, <1>3 DEF Busy, SessionTypes
<1>6. Active' = Active BY <1>1, <1>3 DEF Active, SessionTypes
<1>7. TimeoutOf[s] \in 1 .. MaxDelay OBVIOUS
<1>8. SessionTypes' BY <1>1, <1>2, <1>3, <1>7 DEF SessionTypes
<1>9. OneTimerEach'
  BY <1>1, <1>2, <1>3, <1>4, <1>5, <1>6 DEF OneTimerEach, SessionTypes
<1>10. CheckedInTime'
  BY <1>1, <1>2, <1>3, <1>4, <1>5
  DEF TimersOK, CheckedInTime, OneTimerEach, SessionTypes
<1>11. IdleBounded' BY <1>2 DEF IdleBounded, TimersOK
<1> QED BY <1>8, <1>9, <1>10, <1>11 DEF TimersOK

\* A handler that runs makes its session younger.
LEMMA TouchTimers ==
  ASSUME TimersOK, NEW s \in Sessions, Touch(s)
  PROVE  TimersOK'
<1>1. Busy' = Busy /\ Active' = Active
  BY DEF Busy, Active, Touch, timerVars
<1>2. \A r \in Sessions : idleFor'[r] <= idleFor[r] /\ idleFor'[r] \in Nat
  BY DEF TimersOK, SessionTypes, Touch
<1>3. SessionTypes' BY DEF TimersOK, SessionTypes, Touch, timerVars
<1>4. OneTimerEach'
  BY <1>1 DEF TimersOK, OneTimerEach, Touch, timerVars
<1>5. CheckedInTime' /\ IdleBounded'
  BY <1>1, <1>2
  DEF TimersOK, SessionTypes, OneTimerEach, CheckedInTime, IdleBounded, Touch,
      timerVars, Busy
<1> QED BY <1>3, <1>4, <1>5 DEF TimersOK

\* Sessions that end take exactly their own timers out of the active ones.
LEMMA ClosedTimers ==
  ASSUME TimersOK, NEW ss \in SUBSET Busy, NEW to \in {"free", "parked"},
         Closed(ss, to), SessionTypes',
         Active' = Active \ TimersOf(ss),
         \A r \in Busy \ ss : /\ data'[timerObj[r]] = data[timerObj[r]]
                              /\ left'[timerObj[r]] = left[timerObj[r]]
  PROVE  TimersOK'
<1>1. SessionTypes /\ OneTimerEach BY DEF TimersOK
<1>2. Busy' = Busy \ ss BY <1>1 DEF Closed, Busy, SessionTypes
<1>3. \A r \in Busy' : /\ timerObj'[r] = timerObj[r]
                       /\ idleFor'[r] = idleFor[r]
  BY <1>2 DEF Closed, Busy
<1>4. \A r \in Sessions \ Busy' : timerObj'[r] = NoTimer
  BY <1>1, <1>2 DEF Closed, OneTimerEach
<1>5. Active' = {timerObj'[r] : r \in Busy'}
  <2>1. Active = {timerObj[r] : r \in Busy} BY <1>1 DEF OneTimerEach
  <2>2. \A r \in Busy : timerObj[r] \in TimersOf(ss) <=> r \in ss
    BY <1>1, TimerOwner DEF TimersOf, OneTimerEach
  <2>3. Active' = {timerObj[r] : r \in Busy \ ss} BY <2>1, <2>2
  <2> QED BY <1>2, <1>3, <2>3
<1>6. OneTimerEach'
  <2>1. \A r \in Busy' : timerObj'[r] \in Timers /\ data'[timerObj'[r]] = r
    BY <1>1, <1>2, <1>3 DEF OneTimerEach
  <2> QED BY <1>4, <1>5, <2>1 DEF OneTimerEach
<1>7. CheckedInTime'
  BY <1>2, <1>3 DEF TimersOK, CheckedInTime
<1>8. IdleBounded'
  <2>1. \A r \in Sessions : idleFor'[r] <= idleFor[r]
    BY <1>1 DEF Closed, SessionTypes
  <2>2. \A r \in Sessions : /\ idleFor'[r] \in Int /\ idleFor[r] \in Int
                            /\ TimeoutOf[r] \in Int
    BY <1>1 DEF SessionTypes, Closed
  <2> QED BY <2>1, <2>2 DEF TimersOK, IdleBounded
<1> QED BY <1>6, <1>7, <1>8 DEF TimersOK

\* Their fields stay well-typed.
LEMMA ClosedTypes ==
  ASSUME SessionTypes, NEW ss, NEW to \in {"free", "parked"}, Closed(ss, to)
  PROVE  /\ st' \in [Sessions -> {"free", "busy", "parked"}]
         /\ timerObj' \in [Sessions -> Timers \union {NoTimer}]
         /\ idleFor' \in [Sessions -> Nat]
BY DEF SessionTypes, Closed

\* teardown() of busy sessions.
LEMMA CloseTimers ==
  ASSUME TimersOK, NEW ss \in SUBSET Busy, NEW to \in {"free", "parked"},
         Close(ss, to)
  PROVE  TimersOK'
<1>1. /\ Closed(ss, to)
      /\ cancelled' = cancelled \union TimersOf(ss)
      /\ UNCHANGED <<queue, left, data>>
  BY DEF Close, Cancel
<1>2. SessionTypes /\ OneTimerEach BY DEF TimersOK
<1>3. TimersOf(ss) \subseteq queue
  BY <1>2, TimerOwner DEF TimersOf
<1>4. Active' = Active \ TimersOf(ss) BY <1>1 DEF Active
<1>5. SessionTypes' BY <1>1, <1>2, <1>3, ClosedTypes DEF SessionTypes
<1> QED BY <1>1, <1>4, <1>5, ClosedTimers

\* The sessions a teardown takes with it exist, the one torn down included.
LEMMA ClosedWithBusy ==
  ASSUME NEW s \in Busy, NEW ss \in ClosedWith(s)
  PROVE  ss \in SUBSET Busy /\ s \in ss
BY DEF ClosedWith

\* A due timer is that of a session.
LEMMA DueTimer ==
  ASSUME TimersOK, NEW t \in queue, Due(t)
  PROVE  /\ t \in Active /\ t \in Timers
         /\ data[t] \in Busy /\ timerObj[data[t]] = t
BY TimerOwner DEF Due, Active, TimersOK, SessionTypes

\* A timer fires for a session that was idle for its time-out.
LEMMA ExpireTimers ==
  ASSUME TimersOK, NEW t \in queue, Due(t), Expire(t)
  PROVE  TimersOK'
<1> DEFINE s == data[t]
<1>1. PICK ss \in ClosedWith(s) : /\ FireAnd(t, {}, s, 0, TimersOf(ss))
                                  /\ Closed(ss, "free")
  BY DEF Expire
<1>2. SessionTypes /\ OneTimerEach BY DEF TimersOK
<1>3. s \in Busy /\ timerObj[s] = t /\ t \in Timers BY DueTimer
<1>4. ss \in SUBSET Busy /\ s \in ss BY <1>1, <1>3, ClosedWithBusy
<1>5. TimersOf(ss) \subseteq queue /\ t \in TimersOf(ss)
  BY <1>2, <1>3, <1>4, TimerOwner DEF TimersOf
<1>6. Active' = Active \ TimersOf(ss) BY <1>1, <1>5 DEF Active, FireAnd
<1>7. SessionTypes'
  BY <1>1, <1>2, <1>5, ClosedTypes DEF SessionTypes, FireAnd
<1>8. \A r \in Busy \ ss : timerObj[r] \in Timers /\ timerObj[r] # t
  BY <1>2, <1>3, <1>4, TimerOwner DEF OneTimerEach
<1>9. \A r \in Busy \ ss : /\ data'[timerObj[r]] = data[timerObj[r]]
                           /\ left'[timerObj[r]] = left[timerObj[r]]
  BY <1>1, <1>8 DEF FireAnd
<1> QED BY <1>1, <1>4, <1>6, <1>7, <1>9, ClosedTimers

\* A timer fires for a session that was active meanwhile, and another takes
\* its place.
LEMMA RearmTimers ==
  ASSUME TimersOK, NEW t \in queue, Due(t), Rearm(t)
  PROVE  TimersOK'
<1> DEFINE s == data[t]
           ms == TimeoutOf[s] - idleFor[s]
<1>1. PICK u \in Timers \ queue :
        /\ FireAnd(t, {u}, s, ms, {})
        /\ timerObj' = [timerObj EXCEPT ![s] = u]
  BY DEF Rearm, RearmWith
<1>2. UNCHANGED <<st, idleFor>> BY DEF Rearm, RearmWith
<1>3. SessionTypes /\ OneTimerEach BY DEF TimersOK
<1>4. s \in Busy /\ s \in Sessions /\ timerObj[s] = t /\ t \in Timers /\ t # u
  BY DueTimer DEF Busy
<1>5. ms \in Int /\ ms <= MaxDelay BY <1>3, <1>4 DEF SessionTypes
<1>6. Busy' = Busy BY <1>2 DEF Busy
<1>7. Active' = (Active \ {t}) \union {u}
  BY <1>1, <1>3, <1>4 DEF Active, FireAnd, SessionTypes
<1>8. \A r \in Busy \ {s} : /\ timerObj[r] \in Timers \ {t, u}
                            /\ timerObj'[r] = timerObj[r]
  BY <1>1, <1>3, <1>4, TimerOwner DEF OneTimerEach, SessionTypes, Busy
<1>9. timerObj'[s] = u /\ data'[u] = s /\ left'[u] = ms
  BY <1>1, <1>3, <1>4 DEF SessionTypes, FireAnd
<1>10. SessionTypes'
  BY <1>1, <1>2, <1>3, <1>4, <1>5 DEF SessionTypes, FireAnd
<1>11. OneTimerEach'
  <2>1. Active' = {timerObj'[r] : r \in Busy'}
    BY <1>3, <1>4, <1>6, <1>7, <1>8, <1>9 DEF OneTimerEach
  <2>2. \A r \in Busy' : timerObj'[r] \in Timers /\ data'[timerObj'[r]] = r
    BY <1>1, <1>3, <1>4, <1>6, <1>8, <1>9 DEF OneTimerEach, FireAnd
  <2>3. \A r \in Sessions \ Busy' : timerObj'[r] = NoTimer
    BY <1>1, <1>3, <1>4, <1>6 DEF OneTimerEach, SessionTypes
  <2> QED BY <2>1, <2>2, <2>3 DEF OneTimerEach
<1>12. CheckedInTime'
  <2>1. \A r \in Busy \ {s} : left'[timerObj'[r]] = left[timerObj[r]]
    BY <1>1, <1>8 DEF FireAnd
  <2> QED BY <1>2, <1>3, <1>5, <1>6, <1>9, <2>1
      DEF TimersOK, CheckedInTime, SessionTypes
<1>13. IdleBounded' BY <1>2 DEF TimersOK, IdleBounded
<1> QED BY <1>10, <1>11, <1>12, <1>13 DEF TimersOK

\* A cancelled timer is dropped.
LEMMA DropTimers ==
  ASSUME TimersOK, NEW t \in queue, DropCancelled(t),
         UNCHANGED <<sessionVars, batch>>
  PROVE  TimersOK'
<1>1. t \in cancelled /\ Delete(t) /\ UNCHANGED <<st, timerObj, idleFor>>
  BY DEF DropCancelled, sessionVars
<1>2. SessionTypes /\ OneTimerEach BY DEF TimersOK
<1>3. Busy' = Busy /\ Active' = Active
  BY <1>1 DEF Busy, Active, Delete
<1>4. \A r \in Busy : timerObj[r] \in Timers /\ timerObj[r] # t
  BY <1>1, <1>2, TimerOwner DEF OneTimerEach
<1>5. SessionTypes' BY <1>1, <1>2 DEF SessionTypes, Delete
<1>6. \A r \in Busy : /\ data'[timerObj[r]] = data[timerObj[r]]
                      /\ left'[timerObj[r]] = left[timerObj[r]]
  BY <1>1, <1>2, <1>4 DEF SessionTypes, Delete
<1>7. OneTimerEach' BY <1>1, <1>2, <1>3, <1>6 DEF OneTimerEach
<1>8. CheckedInTime' /\ IdleBounded'
  BY <1>1, <1>3, <1>6 DEF TimersOK, CheckedInTime, IdleBounded
<1> QED BY <1>5, <1>7, <1>8 DEF TimersOK

\* A parked connection is closed.
LEMMA ParkedTimers ==
  ASSUME TimersOK, NEW s \in Sessions, HandleParked(s)
  PROVE  TimersOK'
<1>1. Busy' = Busy /\ Active' = Active
  BY DEF TimersOK, SessionTypes, HandleParked, timerVars, Busy, Active
<1>2. SessionTypes'
  BY DEF TimersOK, SessionTypes, HandleParked, timerVars
<1> QED
  BY <1>1, <1>2
  DEF HandleParked, timerVars, TimersOK, OneTimerEach, CheckedInTime,
      IdleBounded

\* A millisecond passes: what is left of a timer shrinks as fast as the idle
\* time of its session grows.
LEMMA TickTimers ==
  ASSUME TimersOK, Tick
  PROVE  TimersOK'
<1>1. SessionTypes /\ OneTimerEach BY DEF TimersOK
<1>2. /\ left' = [t \in Timers |-> IF t \in queue THEN Aged(t) ELSE 0]
      /\ idleFor' = [s \in Sessions |-> IF s \in Busy THEN LongerIdle(s) ELSE 0]
      /\ UNCHANGED <<queue, cancelled, data, st, timerObj>>
  BY DEF Tick, ClockTick
<1>3. Busy' = Busy /\ Active' = Active BY <1>2 DEF Busy, Active
<1>4. \A t \in queue : /\ Aged(t) \in Int
                       /\ left[t] > 0 => Aged(t) = left[t] - 1
                       /\ left[t] <= 0 => Aged(t) <= 0
  BY <1>1, AgedTimer
<1>5. \A s \in Sessions : /\ idleFor'[s] \in Nat
                          /\ idleFor'[s] <= idleFor[s] + 1
                          /\ idleFor'[s] <= TimeoutOf[s]
  BY <1>1, <1>2 DEF TimersOK, IdleBounded, SessionTypes, LongerIdle
<1>6. SessionTypes'
  <2>1. \A t \in Timers : left'[t] \in Int /\ left'[t] <= MaxDelay
    BY <1>1, <1>2, <1>4 DEF SessionTypes
  <2> QED BY <1>1, <1>2, <1>5, <2>1 DEF SessionTypes
<1>7. OneTimerEach' BY <1>1, <1>2, <1>3 DEF OneTimerEach
<1>8. CheckedInTime'
  <2> SUFFICES ASSUME NEW s \in Busy
               PROVE  left'[timerObj[s]] <= TimeoutOf[s] - idleFor'[s]
    BY <1>2, <1>3 DEF CheckedInTime
  <2>1. timerObj[s] \in queue /\ timerObj[s] \in Timers
    BY <1>1, TimerOwner DEF OneTimerEach
  <2>2. left[timerObj[s]] <= TimeoutOf[s] - idleFor[s]
    BY DEF TimersOK, CheckedInTime
  <2>3. /\ left[timerObj[s]] \in Int /\ idleFor[s] \in Int
        /\ TimeoutOf[s] \in Int /\ s \in Sessions
    BY <1>1, <2>1 DEF SessionTypes, Busy
  <2>4. left'[timerObj[s]] = Aged(timerObj[s]) BY <1>2, <2>1
  <2> QED BY <1>4, <1>5, <2>1, <2>2, <2>3, <2>4
<1>9. IdleBounded' BY <1>5 DEF IdleBounded
<1> QED BY <1>6, <1>7, <1>8, <1>9 DEF TimersOK

-----------------------------------------------------------------------------
\* The thread waits no longer than its first timer allows.
LEMMA WaitStep ==
  ASSUME IInv, Wait
  PROVE  WaitCoversTimers' /\ waitLeft' \in Nat
<1>1. UNCHANGED <<queue, cancelled, left>> BY DEF Wait, StartWait, timerVars
<1>2. CASE queue = {} /\ waitLeft' = DefaultWait
  BY <1>1, <1>2 DEF WaitCoversTimers, Active
<1>3. CASE \E t \in queue : /\ IsTop(t) /\ left[t] > 0
                            /\ waitLeft' = left[t]
  <2>1. \A u \in queue : left[u] \in Int
    BY DEF IInv, TypeOK, TimersTypeOK
  <2> QED BY <1>1, <1>3, <2>1 DEF WaitCoversTimers, Active, IsTop
<1> QED BY <1>2, <1>3 DEF Wait, StartWait

\* The wait and the timers run down together.
LEMMA WaitTick ==
  ASSUME IInv, Tick
  PROVE  WaitCoversTimers' /\ waitLeft' \in Nat
<1>1. /\ left' = [t \in Timers |-> IF t \in queue THEN Aged(t) ELSE 0]
      /\ waitLeft' = IF waitLeft > 0 THEN waitLeft - 1 ELSE 0
      /\ UNCHANGED <<queue, cancelled, pc>>
  BY DEF Tick, ClockTick
<1>2. waitLeft \in Nat /\ queue \subseteq Timers /\ left \in [Timers -> Int]
  BY DEF IInv, TypeOK, TimersTypeOK
<1>3. waitLeft' \in Nat BY <1>1, <1>2
<1>4. ASSUME pc' = "wait", waitLeft' # 0, NEW t \in Active'
      PROVE  waitLeft' <= left'[t]
  <2>1. t \in queue /\ t \in Active BY <1>1, <1>4 DEF Active
  <2>2. waitLeft > 0 /\ waitLeft <= left[t] /\ left[t] \in Int
    BY <1>1, <1>2, <1>4, <2>1 DEF IInv, WaitCoversTimers
  <2>3. Aged(t) = left[t] - 1
    BY <1>2, <2>1, <2>2, AgedTimer DEF IInv, TimersOK
  <2>4. left'[t] = Aged(t) BY <1>1, <1>2, <2>1
  <2> QED BY <1>1, <1>2, <2>2, <2>3, <2>4
<1> QED BY <1>3, <1>4 DEF WaitCoversTimers

\* Type correctness, from its parts.
LEMMA TypesTogether ==
  ASSUME SessionTypes', pc' \in Phases, waitLeft' \in Nat,
         batch' \subseteq Sessions \union {Listener}
  PROVE  TypeOK'
BY DEF SessionTypes, TypeOK, TimersTypeOK

\* What is left to show of a step that does not leave the loop waiting.
LEMMA AwakeStep ==
  ASSUME TimersOK', pc' \in Phases \ {"wait"}, waitLeft' \in Nat,
         batch' \subseteq Sessions \union {Listener}
  PROVE  IInv'
BY TypesTogether DEF IInv, TimersOK, WaitCoversTimers

\* A step that leaves sessions and timers alone.
LEMMA SameTimers ==
  ASSUME TimersOK, UNCHANGED <<timerVars, sessionVars>>
  PROVE  TimersOK'
BY DEF timerVars, sessionVars, TimersOK, SessionTypes, OneTimerEach,
       CheckedInTime, IdleBounded, Active, Busy

\* A timer fires: the first due.
LEMMA FireStep == IInv /\ Fire => IInv'
<1> SUFFICES ASSUME IInv, Fire PROVE IInv' OBVIOUS
<1>1. PICK t \in queue : Due(t) /\ (Expire(t) \/ Rearm(t)) BY DEF Fire
<1>2. TimersOK'
  BY <1>1, ExpireTimers, RearmTimers DEF IInv
<1> QED
  BY <1>2, AwakeStep DEF Fire, Phases, IInv, TypeOK, TimersTypeOK

\* An event of the batch is handled.
LEMMA HandleEventStep == IInv /\ HandleEvent => IInv'
<1> SUFFICES ASSUME IInv, HandleEvent PROVE IInv' OBVIOUS
<1>1. PICK s \in Sessions \intersect batch :
        /\ HandleBusy(s) \/ HandleParked(s) \/ HandleFree(s)
        /\ batch' = batch \ {s}
  BY DEF HandleEvent
<1>2. TimersOK BY DEF IInv
<1>3. ASSUME HandleBusy(s) PROVE TimersOK'
  <2>1. s \in Busy BY <1>3 DEF HandleBusy, Busy
  <2>2. CASE Touch(s) BY <1>2, <2>2, TouchTimers
  <2>3. ASSUME NEW ss \in ClosedWith(s), Close(ss, "free") PROVE TimersOK'
    BY <1>2, <2>1, <2>3, ClosedWithBusy, CloseTimers
  <2>4. CASE Close({s}, "parked") BY <1>2, <2>1, <2>4, CloseTimers
  <2> QED BY <1>3, <2>2, <2>3, <2>4 DEF HandleBusy
<1>4. ASSUME HandleParked(s) PROVE TimersOK'
  BY <1>2, <1>4, ParkedTimers
<1>5. ASSUME HandleFree(s) PROVE TimersOK'
  <2>1. UNCHANGED <<timerVars, sessionVars>> BY <1>5 DEF HandleFree
  <2> QED BY <1>2, <2>1, SameTimers
<1>6. TimersOK' BY <1>1, <1>3, <1>4, <1>5
<1> QED
  BY <1>1, <1>6, AwakeStep
  DEF HandleEvent, Phases, IInv, TypeOK, TimersTypeOK

\* A connection is accepted, or a subrequest started.
LEMMA OpenStep == IInv /\ (HandleAccept \/ StartSubr) => IInv'
<1> SUFFICES ASSUME IInv, HandleAccept \/ StartSubr PROVE IInv' OBVIOUS
<1>1. TimersOK BY DEF IInv
<1>2. CASE HandleAccept
  <2>1. PICK c \in Clients : st[c] = "free" /\ Open(c)
    BY <1>2 DEF HandleAccept
  <2>2. c \in Sessions \ Busy BY <2>1 DEF Busy, Sessions
  <2>3. TimersOK' BY <1>1, <2>1, <2>2, OpenTimers
  <2> QED
    BY <1>2, <2>3, AwakeStep
    DEF HandleAccept, Phases, IInv, TypeOK, TimersTypeOK
<1>3. CASE StartSubr
  <2>1. PICK u \in Upstreams : st[u] # "busy" /\ (Open(u) \/ OpenFails(u))
    BY <1>3 DEF StartSubr
  <2>2. u \in Sessions \ Busy BY <2>1 DEF Busy, Sessions
  <2>3. TimersOK' BY <1>1, <2>1, <2>2, OpenTimers, OpenFailsTimers
  <2> QED
    BY <1>3, <2>3, AwakeStep
    DEF StartSubr, Phases, IInv, TypeOK, TimersTypeOK
<1> QED BY <1>2, <1>3

\* A client connection of the output queue is written to.
LEMMA WriteOutputStep == IInv /\ WriteOutput => IInv'
<1> SUFFICES ASSUME IInv, WriteOutput PROVE IInv' OBVIOUS
<1>1. TimersOK BY DEF IInv
<1>2. PICK c \in Clients \intersect Busy :
        Touch(c) \/ \E ss \in ClosedWith(c) : Close(ss, "free")
  BY DEF WriteOutput
<1>3. ASSUME Touch(c) PROVE TimersOK'
  <2>1. c \in Sessions BY DEF Sessions
  <2> QED BY <1>1, <1>3, <2>1, TouchTimers
<1>4. ASSUME NEW ss \in ClosedWith(c), Close(ss, "free") PROVE TimersOK'
  <2>1. ss \in SUBSET Busy BY <1>4, ClosedWithBusy
  <2> QED BY <1>1, <1>4, <2>1, CloseTimers
<1>5. TimersOK' BY <1>2, <1>3, <1>4
<1> QED
  BY <1>5, AwakeStep DEF WriteOutput, Phases, IInv, TypeOK, TimersTypeOK

\* Every step preserves the inductive invariant.
LEMMA NextIInv == IInv /\ [Next]_vars => IInv'
<1> SUFFICES ASSUME IInv, [Next]_vars PROVE IInv' OBVIOUS
<1>1. TimersOK BY DEF IInv
<1>2. /\ pc \in Phases /\ waitLeft \in Nat
      /\ batch \subseteq Sessions \union {Listener}
  BY DEF IInv, TypeOK, TimersTypeOK
<1>3. CASE DropCancelledTimer
  <2>1. TimersOK' BY <1>1, <1>3, DropTimers DEF DropCancelledTimer
  <2> QED
    BY <1>2, <1>3, <2>1, AwakeStep DEF DropCancelledTimer, DropCancelled, Phases
<1>4. CASE Fire BY <1>4, FireStep
<1>5. CASE Wait
  <2>1. TimersOK' BY <1>1, <1>5, SameTimers DEF Wait, StartWait
  <2>2. TypeOK'
    BY <1>2, <1>5, <2>1, WaitStep, TypesTogether
    DEF TimersOK, Wait, StartWait, Phases
  <2> QED BY <1>5, <2>1, <2>2, WaitStep DEF IInv
<1>6. CASE WaitDone
  <2>1. TimersOK' BY <1>1, <1>6, SameTimers DEF WaitDone
  <2>2. batch' \subseteq Sessions \union {Listener} BY <1>6 DEF WaitDone
  <2> QED BY <1>6, <2>1, <2>2, AwakeStep DEF WaitDone, Phases
<1>7. CASE Signalled \/ BatchDone \/ NextRun \/ HandleNoAccept
  <2>1. UNCHANGED <<timerVars, sessionVars>>
    BY <1>7 DEF Signalled, BatchDone, NextRun, HandleNoAccept
  <2>2. TimersOK' BY <1>1, <2>1, SameTimers
  <2>3. batch' \subseteq batch
    BY <1>7 DEF Signalled, BatchDone, NextRun, HandleNoAccept
  <2>4. pc' \in Phases \ {"wait"} /\ waitLeft' \in Nat
    BY <1>2, <1>7 DEF Signalled, BatchDone, NextRun, HandleNoAccept, Phases
  <2> QED BY <1>2, <2>2, <2>3, <2>4, AwakeStep
<1>8. CASE HandleEvent BY <1>8, HandleEventStep
<1>9. CASE HandleAccept \/ StartSubr BY <1>9, OpenStep
<1>10. CASE WriteOutput BY <1>10, WriteOutputStep
<1>11. CASE Tick
  <2>1. TimersOK' BY <1>1, <1>11, TickTimers
  <2>2. TypeOK'
    BY <1>2, <1>11, <2>1, WaitTick, TypesTogether
    DEF TimersOK, Tick, ClockTick
  <2> QED BY <1>11, <2>1, <2>2, WaitTick DEF IInv
<1>12. CASE UNCHANGED vars
  <2>1. TimersOK' BY <1>1, <1>12, SameTimers DEF vars, timerVars, sessionVars
  <2> QED
    BY <1>2, <1>12, <2>1, TypesTogether
    DEF vars, timerVars, IInv, TimersOK, WaitCoversTimers, Active
<1> QED
  BY <1>3, <1>4, <1>5, <1>6, <1>7, <1>8, <1>9, <1>10, <1>11, <1>12
  DEF Next, Loop

\* The invariant holds in every state of every behaviour.
THEOREM IdleTimersInvariant == Spec => []IInv
BY InitIInv, NextIInv, PTL DEF Spec

\* Type correctness.
THEOREM IdleTimersTypeOK == Spec => []TypeOK
<1>1. IInv => TypeOK BY DEF IInv
<1> QED BY <1>1, IdleTimersInvariant, PTL

\* Every session has one active timer, and no timer outlives its session.
THEOREM IdleTimersOneEach == Spec => []OneTimerEach
<1>1. IInv => OneTimerEach BY DEF IInv, TimersOK
<1> QED BY <1>1, IdleTimersInvariant, PTL

\* No session's timer is later than the end of its time-out.
THEOREM IdleTimersCheckedInTime == Spec => []CheckedInTime
<1>1. IInv => CheckedInTime BY DEF IInv, TimersOK
<1> QED BY <1>1, IdleTimersInvariant, PTL

\* The loop never sleeps past its first timer.
THEOREM IdleTimersWait == Spec => []WaitCoversTimers
<1>1. IInv => WaitCoversTimers BY DEF IInv
<1> QED BY <1>1, IdleTimersInvariant, PTL
=============================================================================
