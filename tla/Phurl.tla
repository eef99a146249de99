------------------------------- MODULE Phurl -------------------------------
(***************************************************************************)
(* The parallel client phurl: one process that asks a list of hosts for    *)
(* one url and ends when every host has answered, when the user quits, or  *)
(* on SIGINT.  Three kinds of actors share it:                             *)
(*   - the main thread (command_exec, phurl.cc; srvr::run, stop and        *)
(*     wait_till_stopped), which splits the hosts over the server threads, *)
(*     starts them, and looks twice a second at what is still pending;     *)
(*   - the server threads (t_srvr::t_run), which start the queued          *)
(*     subrequests, run their callbacks and the callbacks of phurl_u;      *)
(*   - the handler of SIGINT, which may run at any moment.                 *)
(* A host has one subrequest.  Its life in the thread (queue, connection,  *)
(* timers) is SubrQueue's, Nconn's and IdleTimers'; here it is queued, or  *)
(* active on a connection, or over, and its end is one step with the       *)
(* callback.  The look-up of its name is kept in full, as far as phurl can *)
(* tell: a look-up that is given up calls back in the middle of the start  *)
(* of another subrequest, and lookup_async may leave a look-up behind that *)
(* nobody will end.  The cache of addresses is in use: without it (-k, and *)
(* not -n) a name that has an address is looked up for ever, and phurl     *)
(* does not end (t_srvr.cc:642; see README.md).                            *)
(***************************************************************************)
EXTENDS Integers, Sequences, FiniteSetsExt

CONSTANTS
  Options,     \* the command lines: records of the fields below
  MaxParallel  \* S_MAX_PARALLEL_LOOKUPS, the look-ups a thread has on the wire

ASSUME OptionsAssumption ==
  Options \subseteq [threads : Nat \ {0},     \* server threads, -t
                     hosts   : Nat,           \* length of the host list
                     active  : Nat \ {0},     \* connections of a thread, -p
                     ratio   : 0 .. 100,      \* completion ratio, -W
                     timeout : BOOLEAN,       \* a completion time-out, -Q
                     sync    : BOOLEAN,       \* names are looked up on the spot, -n
                     refused : SUBSET Nat]    \* hosts with a name udns refuses

ASSUME ParallelAssumption == MaxParallel \in Nat \ {0}

\* A cancelled subrequest leaves an empty place in its thread's queue.
NoHost == 0

VARIABLES
  opt,        \* the options of this run of the program
  main,       \* where command_exec is
  next,       \* the thread its current loop over the threads has reached
  finished,   \* g_test_finished
  quit,       \* the user typed q
  intr,       \* the handler of SIGINT: 0 not called, t about to stop thread t
  pc,         \* where each thread is in t_run
  ret,        \* where it goes when ups_cancel returns
  stopped,    \* m_stopped of each thread
  queue,      \* m_subr_list of each thread
  state,      \* of the subrequest of each asked host
  pending,    \* m_pending_subr_uid_map of each thread's phurl_u
  resps,      \* number of entries of m_resp_list for each host
  phr,        \* m_state of each thread's phurl_u
  todo,       \* what ups_cancel has yet to cancel of its copy of the map
  starting,   \* the host whose start waits for lookup_async to return
  jobs,       \* m_job_q of each thread: look-ups that wait
  wire,       \* look-ups udns is at work on, cancelled ones among them
  tick,       \* m_timer_obj: the timer of the resolver is set
  missed,     \* history: the host ups_cancel found without a state
  stranded,   \* history: hosts whose start failed and that nobody was told of
  timer,      \* the time-out of the phurl_u is in the thread's timer queue
  lost        \* history: a stop or an interrupt was overwritten

mainVars == <<main, next, finished, quit>>
phrVars == <<pending, resps, phr, todo, missed>>
dnsVars == <<starting, jobs, wire, tick, stranded>>
vars == <<opt, mainVars, intr, pc, ret, stopped, queue, state, phrVars, dnsVars,
          timer, lost>>

\* What the main thread and the handler do not touch.
threadVars == <<queue, state, phrVars, dnsVars, timer>>

Threads == 1 .. opt.threads

\* The split of the host list: every thread gets the same whole share, and
\* the hosts that remain are asked by no one.
NumPer == opt.hosts \div opt.threads

Share(t) == ((t - 1) * NumPer + 1) .. (t * NumPer)

Asked == UNION {Share(t) : t \in Threads}

Init ==
  /\ opt \in Options
  /\ main = "start" /\ next = 1
  /\ finished = FALSE /\ quit = FALSE /\ intr = 0
  /\ pc = [t \in Threads |-> "none"]
  /\ ret = [t \in Threads |-> "deq"]
  /\ stopped = [t \in Threads |-> FALSE]
  /\ queue = [t \in Threads |->
                [i \in 1 .. NumPer |-> (t - 1) * NumPer + i]]
  /\ state = [h \in Asked |-> "queued"]
  /\ pending = [t \in Threads |-> Share(t)]
  /\ resps = [h \in Asked |-> 0]
  /\ phr = [t \in Threads |-> "idle"]
  /\ todo = [t \in Threads |-> {}]
  /\ starting = [t \in Threads |-> NoHost]
  /\ jobs = [t \in Threads |-> <<>>]
  /\ wire = [t \in Threads |-> {}]
  /\ tick = [t \in Threads |-> FALSE]
  /\ missed = [t \in Threads |-> NoHost]
  /\ stranded = [t \in Threads |-> {}]
  /\ timer = [t \in Threads |-> opt.timeout]
  /\ lost = FALSE

-----------------------------------------------------------------------------
(***************************************************************************)
(* The callbacks of phurl_u, run by thread t.                              *)
(***************************************************************************)
Active(t) == {h \in Share(t) : state[h] = "active"}

\* s_done_check, with left still pending: is it time to cancel the rest?
Enough(t, left) ==
  \/ left = {}
  \/ /\ opt.ratio < 100
     /\ 100 * (Cardinality(Share(t)) - Cardinality(left))
          >= opt.ratio * Cardinality(Share(t))

\* ups_cancel, the first time: it takes a copy of the map, pend, and cancels
\* what is in it one by one before the thread goes on to then.
CallUpsCancel(t, pend, then) ==
  /\ phr' = [phr EXCEPT ![t] = "done"]
  /\ todo' = [todo EXCEPT ![t] = pend]
  /\ missed' = [missed EXCEPT ![t] = starting[t]]
  /\ IF pend = {}
     THEN pc' = [pc EXCEPT ![t] = then] /\ UNCHANGED ret
     ELSE /\ pc' = [pc EXCEPT ![t] = "cancel"]
          /\ ret' = [ret EXCEPT ![t] = then]

\* The subrequest of h is over: s_completion_cb or s_error_cb notes the answer
\* and forgets h; s_done_check may call ups_cancel.  The thread goes on to then.
Callback(t, h, then) ==
  LET left == pending[t] \ {h} IN
  /\ state' = [state EXCEPT ![h] = "over"]
  /\ resps' = [resps EXCEPT ![h] = @ + 1]
  /\ pending' = [pending EXCEPT ![t] = left]
  /\ IF phr[t] # "done" /\ Enough(t, left)
     THEN CallUpsCancel(t, left, then)
     ELSE /\ pc' = [pc EXCEPT ![t] = then]
          /\ UNCHANGED <<phr, todo, missed, ret>>

\* Mutant of SubrCancel: the place in the queue is not emptied.
SubrCancelInQueue(t, h) ==
  IF state[h] = "none" THEN UNCHANGED <<queue, state, pending, resps>>
  ELSE /\ state' = [state EXCEPT ![h] = "over"]
       /\ resps' = [resps EXCEPT ![h] = @ + 1]
       /\ pending' = [pending EXCEPT ![t] = @ \ {h}]
       /\ UNCHANGED queue

\* subr::cancel, with the error callback it makes: a queued one leaves its
\* place in the queue, a looked up one its job (which udns still ends, for
\* nobody), an active one its connection.  One without a state, which has left
\* the queue and is not started yet, is not cancelled.
SubrCancel(t, h) ==
  IF state[h] = "none" THEN UNCHANGED <<queue, state, pending, resps>>
  ELSE /\ state' = [state EXCEPT ![h] = "over"]
       /\ queue' = [queue EXCEPT ![t] =
                      [i \in DOMAIN @ |-> IF @[i] = h THEN NoHost ELSE @[i]]]
       /\ resps' = [resps EXCEPT ![h] = @ + 1]
       /\ pending' = [pending EXCEPT ![t] = @ \ {h}]

\* A turn of the loop of ups_cancel over its copy.
UpsCancel(t) ==
  /\ pc[t] = "cancel"
  /\ \E h \in todo[t] :
       /\ \A i \in todo[t] : h <= i
       /\ SubrCancel(t, h)
       /\ todo' = [todo EXCEPT ![t] = @ \ {h}]
       /\ IF todo[t] = {h}
          THEN /\ pc' = [pc EXCEPT ![t] = ret[t]]
               /\ ret' = [ret EXCEPT ![t] = "deq"]
          ELSE UNCHANGED <<pc, ret>>
  /\ UNCHANGED <<opt, mainVars, intr, stopped, phr, missed, dnsVars, timer, lost>>

-----------------------------------------------------------------------------
(***************************************************************************)
(* The resolver of thread t.  lookup_async submits jobs that wait, lets    *)
(* udns give up look-ups that have waited too long, and sets the timer.    *)
(* It is called when a subrequest is started ("start"), when udns has read *)
(* answers ("read"), and by the timer ("tick"); a look-up that is given up *)
(* calls back at once, whatever called lookup_async.                       *)
(***************************************************************************)
\* lookup_async up to dns_timeouts, with the jobs q: it submits n of them, as
\* many as there is room for.  It gives up at the first name udns refuses, and
\* that job is gone.
Submit(t, q, then, refused) ==
  LET room == MaxParallel - Cardinality(wire[t]) IN
  \E n \in 0 .. Len(q) :
    LET fails == n > 0 /\ q[n] \in opt.refused IN
    /\ n <= room
    /\ \A i \in 1 .. n - 1 : q[i] \notin opt.refused
    /\ fails \/ n = Len(q) \/ n = room
    /\ jobs' = [jobs EXCEPT ![t] = SubSeq(q, n + 1, Len(q))]
    /\ wire' = [wire EXCEPT ![t] = @ \union ({q[i] : i \in 1 .. n} \ opt.refused)]
    /\ pc' = [pc EXCEPT ![t] = IF fails THEN refused ELSE then]

\* udns ends the look-up of h without an answer: dns_timeouts gives it up, or
\* the answer or the sending of the query failed.  A look-up that was
\* cancelled has no callback.
LookupFails(t, h) ==
  /\ pc[t] \in {"start", "answers", "read", "tick"}
  /\ h \in wire[t]
  /\ wire' = [wire EXCEPT ![t] = @ \ {h}]
  /\ IF state[h] \in {"none", "lookup"} THEN Callback(t, h, pc[t])
     ELSE UNCHANGED <<pc, ret, state, phrVars>>
  /\ UNCHANGED <<opt, mainVars, intr, stopped, queue, starting, jobs, tick,
                 stranded, timer, lost>>

\* Mutant of TimerSet: the timer is for the jobs that wait.
TimerSetForWaiting(t) == tick' = [tick EXCEPT ![t] = @ \/ jobs[t] # <<>>]

\* As long as udns is at work on a look-up there is a timer.
TimerSet(t) == tick' = [tick EXCEPT ![t] = @ \/ wire[t] # {}]

\* lookup_async returns.  The subrequest that was being started is looked up
\* now; if its own look-up was given up in the meantime it is over.
LookupDone(t) ==
  /\ pc[t] \in {"start", "read", "tick"}
  /\ TimerSet(t)
  /\ pc' = [pc EXCEPT ![t] = IF @ = "read" THEN "events" ELSE "deq"]
  /\ state' = [h \in Asked |-> IF h = starting[t] /\ state[h] = "none"
                               THEN "lookup" ELSE state[h]]
  /\ starting' = [starting EXCEPT ![t] = NoHost]
  /\ UNCHANGED <<opt, mainVars, intr, ret, stopped, queue, phrVars, jobs, wire,
                 stranded, timer, lost>>

\* evr_fd_readable_cb: the socket of udns has answers, or something else.  When
\* no look-up is left it does nothing.  The socket is in a batch of events
\* once; that it comes first changes nothing, since the other events of the
\* batch are of hosts that are not looked up.
Answers(t) ==
  /\ pc[t] = "wait"
  /\ wire[t] # {} \/ jobs[t] # <<>>
  /\ pc' = [pc EXCEPT ![t] = "answers"]
  /\ UNCHANGED <<opt, mainVars, intr, ret, stopped, threadVars, lost>>

\* dns_ioevent takes the answer for h; adns_resolved_cb queues it again.
Resolved(t, h) ==
  /\ pc[t] = "answers"
  /\ h \in wire[t] \ opt.refused
  /\ wire' = [wire EXCEPT ![t] = @ \ {h}]
  /\ IF state[h] \in {"none", "lookup"}
     THEN /\ state' = [state EXCEPT ![h] = "queued"]
          /\ queue' = [queue EXCEPT ![t] = Append(@, h)]
     ELSE UNCHANGED <<state, queue>>
  /\ UNCHANGED <<opt, mainVars, intr, pc, ret, stopped, phrVars, starting, jobs,
                 tick, stranded, timer, lost>>

\* There are no more answers: the room is for jobs that wait.
AnswersDone(t) ==
  /\ pc[t] = "answers"
  /\ Submit(t, jobs[t], "read", "events")
  /\ UNCHANGED <<opt, mainVars, intr, ret, stopped, queue, state, phrVars,
                 starting, tick, stranded, timer, lost>>

\* evr_fd_timeout_cb: a timer callback is a run of the loop of its own.
DnsTimer(t) ==
  /\ pc[t] = "wait" /\ tick[t]
  /\ tick' = [tick EXCEPT ![t] = FALSE]
  /\ Submit(t, jobs[t], "tick", "deq")
  /\ UNCHANGED <<opt, mainVars, intr, ret, stopped, queue, state, phrVars,
                 starting, stranded, timer, lost>>

-----------------------------------------------------------------------------
(***************************************************************************)
(* t_run.                                                                  *)
(***************************************************************************)
\* The thread begins: m_stopped is cleared, whoever may have set it.
Run(t) ==
  /\ pc[t] = "new"
  /\ stopped' = [stopped EXCEPT ![t] = FALSE]
  /\ pc' = [pc EXCEPT ![t] = "deq"]
  /\ lost' = (lost \/ main = "join" \/ (main = "stop" /\ next > t))
  /\ UNCHANGED <<opt, mainVars, intr, ret, threadVars>>

\* while(!m_stopped), when subr_try_deq is done for this time.
Loop(t) == pc' = [pc EXCEPT ![t] = IF stopped[t] THEN "ended" ELSE "wait"]

\* subr_try_deq has nothing more to start, or may not.
DeqEnds(t) ==
  /\ pc[t] = "deq"
  /\ queue[t] = <<>> \/ stopped[t]
  /\ Loop(t)
  /\ UNCHANGED <<opt, mainVars, intr, ret, stopped, threadVars, lost>>

\* The head of its loop, with the place it takes from the queue.
Dequeues(t) == pc[t] = "deq" /\ queue[t] # <<>> /\ ~stopped[t]
First(t) == Head(queue[t])

\* An empty place is skipped.
Skip(t) ==
  /\ Dequeues(t) /\ First(t) = NoHost
  /\ queue' = [queue EXCEPT ![t] = Tail(@)]
  /\ UNCHANGED <<opt, mainVars, intr, pc, ret, stopped, state, phrVars, dnsVars,
                 timer, lost>>

\* Without a free connection the subrequest goes back to the end of the queue
\* and the loop ends.
Again(t) ==
  /\ Dequeues(t) /\ First(t) # NoHost
  /\ Cardinality(Active(t)) >= opt.active
  /\ queue' = [queue EXCEPT ![t] = Append(Tail(@), First(t))]
  /\ Loop(t)
  /\ UNCHANGED <<opt, mainVars, intr, ret, stopped, state, phrVars, dnsVars, timer,
                 lost>>

\* The subrequest that subr_try_start starts leaves the queue.
Starts(t) ==
  /\ Dequeues(t) /\ First(t) # NoHost
  /\ Cardinality(Active(t)) < opt.active
  /\ queue' = [queue EXCEPT ![t] = Tail(@)]
  /\ UNCHANGED <<opt, mainVars, intr, stopped, timer, lost>>

\* Its address is known, and it gets a connection.
Launch(t) ==
  /\ Starts(t) /\ First(t) \notin opt.refused
  /\ state' = [state EXCEPT ![First(t)] = "active"]
  /\ UNCHANGED <<pc, ret, phrVars, dnsVars>>

\* Its address is known and connecting fails at once, or its name is looked up
\* on the spot and has none.
LaunchFails(t) ==
  /\ Starts(t)
  /\ opt.sync \/ First(t) \notin opt.refused
  /\ Callback(t, First(t), "deq")
  /\ UNCHANGED dnsVars

\* Its name has to be looked up.  If a name is refused, its own or that of a
\* job that waited, the start fails, and no callback tells anybody.
StartLookup(t) ==
  /\ Starts(t) /\ ~opt.sync
  /\ state' = [state EXCEPT ![First(t)] = "none"]
  /\ Submit(t, Append(jobs[t], First(t)), "start", "deq")
  /\ IF pc'[t] = "start"
     THEN starting' = [starting EXCEPT ![t] = First(t)] /\ UNCHANGED stranded
     ELSE /\ stranded' = [stranded EXCEPT ![t] = @ \union {First(t)}]
          /\ UNCHANGED starting
  /\ UNCHANGED <<ret, phrVars, tick>>

\* The wait ends with no event of a host: the control descriptor was written,
\* or s_stat_update runs, which phurl has every half second.
Wake(t) ==
  /\ pc[t] = "wait"
  /\ pc' = [pc EXCEPT ![t] = "deq"]
  /\ UNCHANGED <<opt, mainVars, intr, ret, stopped, threadVars, lost>>

\* An event of the batch ends the subrequest of h: its answer is complete, its
\* connection failed, or it timed out.
Ended(t, h) ==
  /\ pc[t] \in {"wait", "events"}
  /\ h \in Active(t)
  /\ Callback(t, h, "events")
  /\ UNCHANGED <<opt, mainVars, intr, stopped, queue, dnsVars, timer, lost>>

\* The batch is over: back to subr_try_deq.
Turned(t) ==
  /\ pc[t] = "events"
  /\ pc' = [pc EXCEPT ![t] = "deq"]
  /\ UNCHANGED <<opt, mainVars, intr, ret, stopped, threadVars, lost>>

\* s_timeout_cb: a timer callback is a run of the loop of its own.  It does
\* nothing when ups_cancel was called before: the timer is never cancelled.
Timeout(t) ==
  /\ pc[t] = "wait" /\ timer[t]
  /\ timer' = [timer EXCEPT ![t] = FALSE]
  /\ IF phr[t] = "done"
     THEN pc' = [pc EXCEPT ![t] = "deq"] /\ UNCHANGED <<ret, phrVars>>
     ELSE CallUpsCancel(t, pending[t], "deq") /\ UNCHANGED <<pending, resps>>
  /\ UNCHANGED <<opt, mainVars, intr, stopped, queue, state, dnsVars, lost>>

-----------------------------------------------------------------------------
(***************************************************************************)
(* The main thread, and the handler.                                       *)
(***************************************************************************)
\* t_srvr::stop.  The control descriptor it writes too makes the thread look
\* at the flag before the half second of the statistics is over (see Wake).
Stop(t) == stopped' = [stopped EXCEPT ![t] = TRUE]

\* srvr::run: the threads, one after another.
Start ==
  /\ main = "start" /\ next <= opt.threads
  /\ pc' = [pc EXCEPT ![next] = "new"]
  /\ next' = next + 1
  /\ UNCHANGED <<opt, main, finished, quit, intr, ret, stopped, threadVars, lost>>

Go ==
  /\ main = "start" /\ next > opt.threads
  /\ finished' = FALSE
  /\ lost' = (lost \/ intr > 0)
  /\ main' = "loop"
  /\ UNCHANGED <<opt, next, quit, intr, pc, ret, stopped, threadVars>>

\* The head of the loop, and the key: q stops the threads at once.
Check ==
  /\ main = "loop"
  /\ next' = 1
  /\ \/ finished /\ main' = "stop" /\ UNCHANGED <<finished, quit>>
     \/ ~finished /\ main' = "mark" /\ UNCHANGED <<finished, quit>>
     \/ ~finished /\ main' = "quit" /\ finished' = TRUE /\ quit' = TRUE
  /\ UNCHANGED <<opt, intr, pc, ret, stopped, threadVars, lost>>

StopNext ==
  /\ main \in {"quit", "stop"}
  /\ IF next <= opt.threads
     THEN Stop(next) /\ next' = next + 1 /\ UNCHANGED main
     ELSE /\ main' = IF main = "quit" THEN "mark" ELSE "join"
          /\ UNCHANGED <<next, stopped>>
  /\ UNCHANGED <<opt, finished, quit, intr, pc, ret, threadVars, lost>>

\* g_test_finished is set before the maps are looked at.
Mark ==
  /\ main = "mark"
  /\ main' = IF finished THEN "loop" ELSE "scan"
  /\ finished' = TRUE
  /\ UNCHANGED <<opt, next, quit, intr, pc, ret, stopped, threadVars, lost>>

\* The maps are looked at under the mutex the callbacks erase under; when one
\* has an entry the flag is cleared, also if SIGINT set it in the meantime.
Scan ==
  /\ main = "scan"
  /\ IF \E t \in Threads : pending[t] # {}
     THEN finished' = FALSE /\ lost' = (lost \/ intr > 0)
     ELSE UNCHANGED <<finished, lost>>
  /\ main' = "loop"
  /\ UNCHANGED <<opt, next, quit, intr, pc, ret, stopped, threadVars>>

\* wait_till_stopped.
Join ==
  /\ main = "join"
  /\ \A t \in Threads : pc[t] = "ended"
  /\ main' = "done"
  /\ UNCHANGED <<opt, next, finished, quit, intr, pc, ret, stopped, threadVars, lost>>

\* sig_handler, once: the flag, then the threads.
Interrupt ==
  /\ intr = 0 /\ main # "done"
  /\ finished' = TRUE
  /\ intr' = 1
  /\ UNCHANGED <<opt, main, next, quit, pc, ret, stopped, threadVars, lost>>

InterruptStop ==
  /\ intr \in Threads
  /\ Stop(intr)
  /\ intr' = intr + 1
  /\ UNCHANGED <<opt, mainVars, pc, ret, threadVars, lost>>

Main == Start \/ Go \/ Check \/ StopNext \/ Mark \/ Scan \/ Join

Thread(t) ==
  \/ Run(t) \/ DeqEnds(t) \/ Skip(t) \/ Again(t)
  \/ Launch(t) \/ LaunchFails(t) \/ StartLookup(t)
  \/ Wake(t) \/ Turned(t) \/ UpsCancel(t) \/ LookupDone(t) \/ AnswersDone(t)

Next ==
  \/ Main \/ Interrupt \/ InterruptStop
  \/ \E t \in Threads :
       \/ Thread(t) \/ Timeout(t) \/ DnsTimer(t) \/ Answers(t)
       \/ \E h \in Share(t) : Ended(t, h) \/ LookupFails(t, h) \/ Resolved(t, h)

(***************************************************************************)
(* The main thread, the handler and the threads are scheduled, and the     *)
(* clock goes on: the timer of the resolver runs when it is set.  What the *)
(* timers bring about takes place at last, once for each host: a           *)
(* subrequest with a connection ends (by its idle time-out, if the server  *)
(* has stopped sending: IdleTimers!IdleKilled), and the ticks of the       *)
(* resolver's timer use up the tries of a look-up.  A name that is looked  *)
(* up again and again is at last found in the cache, which keeps it for    *)
(* ten seconds or more.  Nothing makes the user type or interrupt, and     *)
(* nothing makes a look-up end that no timer watches.                      *)
(***************************************************************************)
GivenUp(t) == pc[t] = "tick" /\ \E h \in Share(t) : LookupFails(t, h)

Fairness ==
  /\ WF_vars(Main) /\ WF_vars(InterruptStop)
  /\ SF_vars(\E t \in Threads : \E h \in Share(t) : Ended(t, h))
  /\ SF_vars(\E t \in Threads : Launch(t))
  /\ SF_vars(\E t \in Threads : GivenUp(t))
  /\ \A t \in 1 .. Max({o.threads : o \in Options}) :
       /\ WF_vars(t \in Threads /\ Thread(t))
       /\ SF_vars(t \in Threads /\ DnsTimer(t))

Spec == Init /\ [][Next]_vars /\ Fairness

-----------------------------------------------------------------------------
(***************************************************************************)
(* AnsweredOnce: a host that was asked gets one entry in the list of       *)
(* answers, when it leaves the map of pending ones, whichever of answer,   *)
(* error and time-out comes first.  When ups_cancel returns (phurl_h.cc:   *)
(* 426) one host of the thread can still be pending: the one whose start   *)
(* called back, through lookup_async, what led to it; and, if there are    *)
(* names udns refuses, those whose start failed.  A program that ends of   *)
(* its own accord has heard of every host it asked.                        *)
(***************************************************************************)
AnsweredOnce ==
  /\ \A t \in Threads : \A h \in Share(t) :
       resps[h] = IF h \in pending[t] THEN 0 ELSE 1
  /\ \A t \in Threads :
       /\ phr[t] = "done" => pending[t] \ todo[t] \subseteq {missed[t]} \union stranded[t]
       /\ \A h \in Share(t) : state[h] = "none" => h \in {starting[t]} \union stranded[t]
       /\ stranded[t] # {} => opt.refused # {}
  /\ main \in {"stop", "join", "done"} /\ ~quit /\ intr = 0
       => \A h \in Asked : resps[h] = 1

\* Host h of thread t is pending and nothing is under way that would end it:
\* its start failed, or its look-up waits, or is on the wire, without a timer.
Unheard(t, h) ==
  \/ state[h] = "none" /\ starting[t] # h
  \/ state[h] = "lookup" /\ ~tick[t]

(***************************************************************************)
(* Ends: the program ends, however the hosts behave, unless                *)
(*   - a thread that was slow to start cleared the stop of the main        *)
(*     thread, or the main thread cleared the flag an interrupt had set    *)
(*     (lost); or                                                          *)
(*   - a host is never heard of.  This is only possible with a name udns   *)
(*     refuses, or with more hosts in a thread than may be looked up at a  *)
(*     time (nresolver.cc:645).                                            *)
(***************************************************************************)
Ends ==
  \/ <>(main = "done" \/ lost)
  \/ <>[](\E t \in Threads :
            /\ opt.refused # {} \/ Cardinality(Share(t)) > MaxParallel
            /\ \E h \in Share(t) : Unheard(t, h))
=============================================================================
