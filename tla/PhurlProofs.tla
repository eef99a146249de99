---------------------------- MODULE PhurlProofs -----------------------------
(***************************************************************************)
(* Proofs about the parallel client, for any set of command lines: any     *)
(* numbers of threads, hosts and connections, any completion ratio, with   *)
(* and without a completion time-out.                                      *)
(***************************************************************************)
EXTENDS Phurl, SequenceTheorems, TLAPS

USE OptionsAssumption

Mains == {"start", "loop", "mark", "scan", "quit", "stop", "join", "done"}
Returns == {"deq", "events", "start", "answers", "read", "tick"}
Places == Returns \union {"none", "new", "wait", "cancel", "ended"}
States == {"queued", "none", "lookup", "active", "over"}

TypeOK ==
  /\ opt \in Options
  /\ main \in Mains
  /\ next \in 1 .. opt.threads + 1
  /\ finished \in BOOLEAN /\ quit \in BOOLEAN /\ lost \in BOOLEAN
  /\ intr \in 0 .. opt.threads + 1
  /\ pc \in [Threads -> Places]
  /\ ret \in [Threads -> Returns]
  /\ stopped \in [Threads -> BOOLEAN]
  /\ queue \in [Threads -> Seq(Nat)]
  /\ state \in [Asked -> States]
  /\ pending \in [Threads -> SUBSET Asked]
  /\ resps \in [Asked -> Nat]
  /\ phr \in [Threads -> {"idle", "done"}]
  /\ todo \in [Threads -> SUBSET Asked]
  /\ starting \in [Threads -> Nat]
  /\ jobs \in [Threads -> Seq(Nat)]
  /\ wire \in [Threads -> SUBSET Asked]
  /\ tick \in [Threads -> BOOLEAN]
  /\ missed \in [Threads -> Nat]
  /\ stranded \in [Threads -> SUBSET Asked]
  /\ timer \in [Threads -> BOOLEAN]

\* A queue q of thread t, with the states st: a host is in it at most once,
\* and only while its subrequest is neither started nor over.
QueuedOnce(q, t, st) ==
  \A i \in 1 .. Len(q) :
    q[i] # NoHost => /\ q[i] \in Share(t)
                     /\ st[q[i]] = "queued"
                     /\ \A j \in 1 .. Len(q) : q[j] = q[i] => j = i

\* The jobs q that wait in the resolver of thread t, and the look-ups w that
\* are on the wire: a host has one look-up at most, and while it has one its
\* subrequest is neither queued nor on a connection.
Looked == {"none", "lookup", "over"}

LookedUpOnce(q, w, t, st) ==
  /\ \A i \in 1 .. Len(q) :
       /\ q[i] \in Share(t) \ w
       /\ st[q[i]] \in Looked
       /\ \A j \in 1 .. Len(q) : q[j] = q[i] => j = i
  /\ \A h \in w : h \in Share(t) /\ st[h] \in Looked

\* A host of the thread is pending, or its subrequest is over and it has one
\* answer.
Accounted(t) ==
  /\ pending[t] \subseteq Share(t)
  /\ \A h \in Share(t) :
       /\ state[h] = "over" <=> h \notin pending[t]
       /\ resps[h] = IF h \in pending[t] THEN 0 ELSE 1

\* Nothing else runs in the thread before ups_cancel is through, and what is
\* pending then is what it could not cancel.
Cancelling(t) ==
  /\ pc[t] = "cancel" <=> todo[t] # {}
  /\ todo[t] \subseteq pending[t]
  /\ todo[t] # {} => phr[t] = "done" /\ missed[t] = starting[t]
  /\ phr[t] = "done" => pending[t] \ todo[t] \subseteq {missed[t]} \union stranded[t]

\* A subrequest is without a state while lookup_async has not returned, or
\* because a refused name made its start fail.
Starting(t) ==
  /\ starting[t] # NoHost =>
       /\ starting[t] \in Share(t)
       /\ pc[t] = "start" \/ (pc[t] = "cancel" /\ ret[t] = "start")
  /\ \A h \in Share(t) : state[h] = "none" => h \in {starting[t]} \union stranded[t]
  /\ stranded[t] # {} => opt.refused # {}

ThreadOK(t) ==
  /\ QueuedOnce(queue[t], t, state)
  /\ LookedUpOnce(jobs[t], wire[t], t, state)
  /\ Accounted(t) /\ Cancelling(t) /\ Starting(t)

\* A thread that is not started has done nothing.  As long as neither the user
\* nor a signal interferes, the main thread that has set g_test_finished and
\* looked at the maps, or leaves its loop, leaves nothing pending.
MainOK ==
  /\ main = "start" => \A t \in Threads : t >= next => pc[t] = "none"
  /\ ~quit /\ intr = 0 =>
       /\ main # "quit"
       /\ main = "mark" => ~finished
       /\ main \in {"stop", "join", "done"} \/ (main = "loop" /\ finished)
            => \A t \in Threads : pending[t] = {}

\* The inductive invariant.
IInv == TypeOK /\ (\A t \in Threads : ThreadOK(t)) /\ MainOK

\* Only thread t moves: what the other threads and the main thread see of
\* their own stays, and no host becomes pending again.
OnlyThread(t) ==
  /\ UNCHANGED <<opt, main, next, finished, quit, intr>>
  /\ \A u \in Threads \ {t} :
       /\ pc'[u] = pc[u] /\ queue'[u] = queue[u] /\ pending'[u] = pending[u]
       /\ phr'[u] = phr[u] /\ todo'[u] = todo[u] /\ missed'[u] = missed[u]
       /\ starting'[u] = starting[u] /\ ret'[u] = ret[u]
       /\ jobs'[u] = jobs[u] /\ wire'[u] = wire[u] /\ stranded'[u] = stranded[u]
  /\ \A h \in Asked \ Share(t) : state'[h] = state[h] /\ resps'[h] = resps[h]
  /\ pending'[t] \subseteq pending[t]
  /\ pc[t] # "none"

-----------------------------------------------------------------------------
\* The numbers of a command line.
LEMMA OptTypes ==
  ASSUME opt \in Options
  PROVE  /\ opt.threads \in Nat \ {0} /\ opt.hosts \in Nat
         /\ opt.active \in Nat \ {0} /\ opt.ratio \in 0 .. 100
         /\ opt.timeout \in BOOLEAN /\ NumPer \in Nat
<1>1. opt \in [threads : Nat \ {0}, hosts : Nat, active : Nat \ {0},
               ratio : 0 .. 100, timeout : BOOLEAN, sync : BOOLEAN,
               refused : SUBSET Nat]
  OBVIOUS
<1>2. opt.threads \in Nat \ {0} /\ opt.hosts \in Nat
  BY <1>1
<1>3. opt.hosts \div opt.threads \in Nat
  BY <1>2
<1> QED BY <1>1, <1>2, <1>3 DEF NumPer

\* Two threads never get the same host, and a host is not the mark of an empty
\* place in a queue.
LEMMA Shares ==
  ASSUME opt \in Options
  PROVE  /\ \A t \in Threads : Share(t) \subseteq Asked
         /\ \A h \in Asked : \E t \in Threads : h \in Share(t)
         /\ Asked \subseteq Nat \ {NoHost}
         /\ \A t, u \in Threads : t # u => Share(t) \intersect Share(u) = {}
<1> DEFINE lo(t) == (t - 1) * NumPer
           hi(t) == t * NumPer
<1>1. NumPer \in Nat /\ Threads \subseteq Nat \ {0}
  BY OptTypes DEF Threads
<1>2. \A t \in Threads : Share(t) = (lo(t) + 1) .. hi(t)
  BY DEF Share
<1>3. \A t \in Threads : lo(t) \in Nat /\ hi(t) \in Nat
  BY <1>1
<1>4. ASSUME NEW t \in Threads, NEW u \in Threads, t < u
      PROVE  hi(t) <= lo(u)
  <2>1. PICK d \in Nat : u - 1 = t + d
    BY <1>1, <1>4
  <2>2. (u - 1) * NumPer = t * NumPer + d * NumPer
    BY <1>1, <2>1
  <2>3. d * NumPer \in Nat /\ t * NumPer \in Nat
    BY <1>1, <2>1
  <2> QED BY <2>2, <2>3
<1> HIDE DEF lo, hi
<1>5. \A t \in Threads : Share(t) \subseteq Nat \ {0}
  BY <1>2, <1>3
<1>6. Asked \subseteq Nat \ {NoHost}
  BY <1>5 DEF Asked, NoHost
<1>7. ASSUME NEW t \in Threads, NEW u \in Threads, t < u
      PROVE  Share(t) \intersect Share(u) = {}
  BY <1>2, <1>3, <1>4, <1>7
<1>8. ASSUME NEW t \in Threads, NEW u \in Threads, t # u
      PROVE  Share(t) \intersect Share(u) = {}
  <2>1. t < u \/ u < t BY <1>1, <1>8
  <2> QED BY <1>7, <2>1
<1> QED BY <1>6, <1>8 DEF Asked

\* The step of a thread that keeps its own part of the invariant keeps it all.
LEMMA LocalStep ==
  ASSUME IInv, NEW t \in Threads, OnlyThread(t), TypeOK', ThreadOK(t)'
  PROVE  IInv'
<1>1. opt' = opt /\ Threads' = Threads /\ Asked' = Asked
  BY DEF OnlyThread, Threads, Asked, Share, NumPer
<1>2. \A u : Share(u)' = Share(u)
  BY DEF OnlyThread, Share, NumPer
<1>3. ASSUME NEW u \in Threads, u # t
      PROVE  ThreadOK(u)'
  <2>1. Share(u) \subseteq Asked \ Share(t)
    BY <1>3, Shares DEF IInv, TypeOK
  <2>2. /\ pc'[u] = pc[u] /\ queue'[u] = queue[u] /\ pending'[u] = pending[u]
        /\ phr'[u] = phr[u] /\ todo'[u] = todo[u] /\ missed'[u] = missed[u]
        /\ starting'[u] = starting[u] /\ ret'[u] = ret[u]
        /\ jobs'[u] = jobs[u] /\ wire'[u] = wire[u] /\ stranded'[u] = stranded[u]
        /\ \A h \in Share(u) : state'[h] = state[h] /\ resps'[h] = resps[h]
    BY <1>3, <2>1 DEF OnlyThread
  <2>3. ThreadOK(u) BY DEF IInv
  <2>4. QueuedOnce(queue[u], u, state)'
    BY <1>2, <2>2, <2>3 DEF ThreadOK, QueuedOnce
  <2>5. Accounted(u)'
    BY <1>2, <2>2, <2>3 DEF ThreadOK, Accounted
  <2>6. Cancelling(u)'
    BY <2>2, <2>3 DEF ThreadOK, Cancelling
  <2>7. LookedUpOnce(jobs[u], wire[u], u, state)'
    BY <1>2, <2>2, <2>3 DEF ThreadOK, LookedUpOnce
  <2>8. Starting(u)'
    BY <1>1, <1>2, <2>2, <2>3 DEF ThreadOK, Starting
  <2> QED BY <2>4, <2>5, <2>6, <2>7, <2>8 DEF ThreadOK
<1>4. \A u \in Threads : pending'[u] \subseteq pending[u]
  BY DEF OnlyThread
<1>5. MainOK'
  <2>1. main' = "start" => \A u \in Threads : u >= next => pc'[u] = "none"
    BY DEF OnlyThread, IInv, MainOK
  <2> QED BY <1>1, <1>4, <2>1 DEF OnlyThread, IInv, MainOK
<1> QED BY <1>1, <1>3, <1>5 DEF IInv

-----------------------------------------------------------------------------
\* Taking the head off a queue, whatever becomes of the host that was there.
LEMMA TailOnce ==
  ASSUME NEW q \in Seq(Nat), q # <<>>, NEW t, NEW st, NEW st2,
         QueuedOnce(q, t, st),
         \A x \in Share(t) \ {Head(q)} : st2[x] = st[x]
  PROVE  /\ Tail(q) \in Seq(Nat)
         /\ Head(q) # NoHost =>
              /\ Head(q) \in Share(t)
              /\ st[Head(q)] = "queued"
              /\ \A i \in 1 .. Len(Tail(q)) : Tail(q)[i] # Head(q)
              /\ QueuedOnce(Tail(q), t, st2)
         /\ QueuedOnce(Tail(q), t, st)
<1>1. /\ Tail(q) \in Seq(Nat) /\ Len(Tail(q)) = Len(q) - 1
      /\ \A i \in 1 .. Len(Tail(q)) : Tail(q)[i] = q[i + 1]
      /\ Head(q) = q[1] /\ Len(q) \in Nat /\ 1 \in 1 .. Len(q)
  OBVIOUS
<1>2. \A i \in 1 .. Len(Tail(q)) : i + 1 \in 1 .. Len(q) /\ i + 1 # 1
  BY <1>1
<1>3. QueuedOnce(Tail(q), t, st)
  <2> SUFFICES ASSUME NEW i \in 1 .. Len(Tail(q)), Tail(q)[i] # NoHost
               PROVE  /\ Tail(q)[i] \in Share(t)
                      /\ st[Tail(q)[i]] = "queued"
                      /\ \A j \in 1 .. Len(Tail(q)) :
                           Tail(q)[j] = Tail(q)[i] => j = i
    BY DEF QueuedOnce
  <2>1. /\ q[i + 1] \in Share(t) /\ st[q[i + 1]] = "queued"
        /\ \A j \in 1 .. Len(q) : q[j] = q[i + 1] => j = i + 1
    BY <1>1, <1>2 DEF QueuedOnce
  <2>2. ASSUME NEW j \in 1 .. Len(Tail(q)), Tail(q)[j] = Tail(q)[i]
        PROVE  j = i
    <3>1. j + 1 = i + 1 BY <1>1, <1>2, <2>1, <2>2
    <3> QED BY <3>1
  <2> QED BY <1>1, <2>1, <2>2
<1>4. ASSUME Head(q) # NoHost
      PROVE  /\ Head(q) \in Share(t) /\ st[Head(q)] = "queued"
             /\ \A i \in 1 .. Len(Tail(q)) : Tail(q)[i] # Head(q)
  <2>1. /\ q[1] \in Share(t) /\ st[q[1]] = "queued"
        /\ \A j \in 1 .. Len(q) : q[j] = q[1] => j = 1
    BY <1>1, <1>4 DEF QueuedOnce
  <2> QED BY <1>1, <1>2, <2>1
<1>5. Head(q) # NoHost => QueuedOnce(Tail(q), t, st2)
  BY <1>3, <1>4 DEF QueuedOnce
<1> QED BY <1>1, <1>3, <1>4, <1>5

\* Queueing a host that is not in the queue.
LEMMA AppendOnce ==
  ASSUME NEW q \in Seq(Nat), NEW t, NEW st, NEW st2, QueuedOnce(q, t, st),
         NEW h \in Share(t), h \in Nat,
         \A i \in 1 .. Len(q) : q[i] # h,
         st2[h] = "queued", \A x \in Share(t) \ {h} : st2[x] = st[x]
  PROVE  Append(q, h) \in Seq(Nat) /\ QueuedOnce(Append(q, h), t, st2)
<1> DEFINE r == Append(q, h)
<1>1. /\ r \in Seq(Nat) /\ Len(r) = Len(q) + 1 /\ Len(q) \in Nat
      /\ \A i \in 1 .. Len(q) : r[i] = q[i]
      /\ r[Len(q) + 1] = h
  OBVIOUS
<1> HIDE DEF r
<1>2. ASSUME NEW i \in 1 .. Len(r), r[i] # NoHost
      PROVE  /\ r[i] \in Share(t) /\ st2[r[i]] = "queued"
             /\ \A j \in 1 .. Len(r) : r[j] = r[i] => j = i
  <2>1. CASE i = Len(q) + 1
    <3>1. r[i] = h BY <1>1, <2>1
    <3>2. ASSUME NEW j \in 1 .. Len(r), r[j] = h
          PROVE  j = i
      <4>1. j \notin 1 .. Len(q) BY <1>1, <3>2
      <4> QED BY <1>1, <2>1, <4>1
    <3> QED BY <3>1, <3>2
  <2>2. CASE i \in 1 .. Len(q)
    <3>1. /\ q[i] \in Share(t) /\ st[q[i]] = "queued" /\ q[i] # h
          /\ \A j \in 1 .. Len(q) : q[j] = q[i] => j = i
      BY <1>1, <1>2, <2>2 DEF QueuedOnce
    <3>2. r[i] = q[i] BY <1>1, <2>2
    <3>3. ASSUME NEW j \in 1 .. Len(r), r[j] = r[i]
          PROVE  j = i
      <4>1. j # Len(q) + 1 BY <1>1, <3>1, <3>2, <3>3
      <4>2. j \in 1 .. Len(q) BY <1>1, <4>1
      <4> QED BY <1>1, <3>1, <3>2, <3>3, <4>2
    <3> QED BY <3>1, <3>2, <3>3
  <2> QED BY <1>1, <2>1, <2>2
<1>3. QueuedOnce(r, t, st2) BY <1>2 DEF QueuedOnce
<1> QED BY <1>1, <1>3 DEF r

-----------------------------------------------------------------------------
\* What lookup_async submits, and what it leaves in its queue.
LEMMA SubmittedOnce ==
  ASSUME NEW q \in Seq(Nat), NEW w, NEW t, NEW st, LookedUpOnce(q, w, t, st),
         NEW n \in 0 .. Len(q), NEW bad
  PROVE  LET r == SubSeq(q, n + 1, Len(q))
             v == w \union ({q[i] : i \in 1 .. n} \ bad)
         IN r \in Seq(Nat) /\ v \subseteq w \union Share(t) /\ LookedUpOnce(r, v, t, st)
<1> DEFINE r == SubSeq(q, n + 1, Len(q))
           v == w \union ({q[i] : i \in 1 .. n} \ bad)
<1> HIDE DEF v
<1>1. /\ r \in Seq(Nat) /\ Len(r) = Len(q) - n /\ Len(q) \in Nat /\ n \in Nat
      /\ \A i \in 1 .. Len(r) : r[i] = q[n + i]
  <2>1. Len(q) \in Nat /\ n \in Nat /\ n <= Len(q)
    OBVIOUS
  <2>2. r \in Seq(Nat) /\ Len(r) = Len(q) - n
    BY <2>1
  <2>3. \A i \in 1 .. Len(r) : r[i] = q[n + i]
    BY <2>1, <2>2
  <2> QED BY <2>1, <2>2, <2>3
<1> HIDE DEF r
<1> USE DEF v
<1>2. \A i \in 1 .. n : i \in 1 .. Len(q)
  BY <1>1
<1>3. \A i \in 1 .. Len(r) : n + i \in 1 .. Len(q) /\ n + i \notin 1 .. n
  BY <1>1
<1>4. ASSUME NEW i \in 1 .. Len(r)
      PROVE  /\ r[i] \in Share(t) \ v /\ st[r[i]] \in Looked
             /\ \A j \in 1 .. Len(r) : r[j] = r[i] => j = i
  <2>1. /\ q[n + i] \in Share(t) \ w /\ st[q[n + i]] \in Looked
        /\ \A j \in 1 .. Len(q) : q[j] = q[n + i] => j = n + i
    BY <1>3 DEF LookedUpOnce
  <2>2. \A j \in 1 .. n : q[j] # q[n + i]
    BY <1>2, <1>3, <2>1
  <2>3. ASSUME NEW j \in 1 .. Len(r), r[j] = r[i]
        PROVE  j = i
    <3>1. n + j = n + i BY <1>1, <1>3, <2>1, <2>3
    <3> QED BY <1>1, <3>1
  <2> QED BY <1>1, <2>1, <2>2, <2>3
<1>5. ASSUME NEW h \in v
      PROVE  h \in Share(t) /\ st[h] \in Looked
  <2>1. CASE h \in w BY <2>1 DEF LookedUpOnce
  <2>2. CASE h \in {q[i] : i \in 1 .. n} BY <1>2, <2>2 DEF LookedUpOnce
  <2> QED BY <2>1, <2>2
<1>6. v \subseteq w \union Share(t) BY <1>5
<1>7. LookedUpOnce(r, v, t, st) BY <1>4, <1>5 DEF LookedUpOnce
<1> QED BY <1>1, <1>6, <1>7 DEF r

\* A job for a host that is started joins those that wait.
LEMMA JobOnce ==
  ASSUME NEW q \in Seq(Nat), NEW w, NEW t, NEW st, NEW st2,
         LookedUpOnce(q, w, t, st),
         NEW h \in Share(t), h \in Nat, st[h] \notin Looked, st2[h] \in Looked,
         \A x \in Share(t) \ {h} : st2[x] = st[x]
  PROVE  Append(q, h) \in Seq(Nat) /\ LookedUpOnce(Append(q, h), w, t, st2)
<1> DEFINE r == Append(q, h)
<1>1. /\ r \in Seq(Nat) /\ Len(r) = Len(q) + 1 /\ Len(q) \in Nat
      /\ \A i \in 1 .. Len(q) : r[i] = q[i]
      /\ r[Len(q) + 1] = h
  OBVIOUS
<1> HIDE DEF r
<1>2. h \notin w /\ \A i \in 1 .. Len(q) : q[i] # h
  BY DEF LookedUpOnce
<1>3. ASSUME NEW i \in 1 .. Len(r)
      PROVE  /\ r[i] \in Share(t) \ w /\ st2[r[i]] \in Looked
             /\ \A j \in 1 .. Len(r) : r[j] = r[i] => j = i
  <2>1. CASE i = Len(q) + 1
    <3>1. r[i] = h BY <1>1, <2>1
    <3>2. ASSUME NEW j \in 1 .. Len(r), r[j] = h
          PROVE  j = i
      <4>1. j \notin 1 .. Len(q) BY <1>1, <1>2, <3>2
      <4> QED BY <1>1, <2>1, <4>1
    <3> QED BY <1>2, <3>1, <3>2
  <2>2. CASE i \in 1 .. Len(q)
    <3>1. /\ q[i] \in Share(t) \ w /\ st[q[i]] \in Looked /\ q[i] # h
          /\ \A j \in 1 .. Len(q) : q[j] = q[i] => j = i
      BY <1>2, <2>2 DEF LookedUpOnce
    <3>2. r[i] = q[i] BY <1>1, <2>2
    <3>3. ASSUME NEW j \in 1 .. Len(r), r[j] = r[i]
          PROVE  j = i
      <4>1. j # Len(q) + 1 BY <1>1, <3>1, <3>2, <3>3
      <4>2. j \in 1 .. Len(q) BY <1>1, <4>1
      <4> QED BY <1>1, <3>1, <3>2, <3>3, <4>2
    <3> QED BY <3>1, <3>2, <3>3
  <2> QED BY <1>1, <2>1, <2>2
<1>4. \A x \in w : x \in Share(t) /\ st2[x] \in Looked
  BY <1>2 DEF LookedUpOnce
<1>5. LookedUpOnce(r, w, t, st2) BY <1>3, <1>4 DEF LookedUpOnce
<1> QED BY <1>1, <1>5 DEF r

\* The look-ups stay in order when some end, and when subrequests that are not
\* looked up change.
LEMMA LookedUpKept ==
  ASSUME NEW q, NEW w, NEW t, NEW st, LookedUpOnce(q, w, t, st),
         NEW w2 \in SUBSET w, NEW st2,
         \A x \in Share(t) : st[x] \in Looked => st2[x] \in Looked
  PROVE  LookedUpOnce(q, w2, t, st2)
BY DEF LookedUpOnce

-----------------------------------------------------------------------------
\* Types in the step of a thread: Threads and Asked do not change.
LEMMA Fixed ==
  ASSUME UNCHANGED opt
  PROVE  /\ Threads' = Threads /\ Asked' = Asked
         /\ \A u : Share(u)' = Share(u)
BY DEF Threads, Asked, Share, NumPer

\* The end of a subrequest, with its callback: the host gets its answer, and
\* ups_cancel its copy of what is left.
LEMMA CallbackStep ==
  ASSUME IInv, NEW t \in Threads, NEW h \in Share(t), h \in pending[t],
         NEW then \in Returns, pc[t] \notin {"none", "cancel"},
         starting[t] # NoHost => then = "start",
         Callback(t, h, then),
         queue' \in [Threads -> Seq(Nat)],
         \A u \in Threads \ {t} : queue'[u] = queue[u],
         QueuedOnce(queue'[t], t, state'),
         NEW w \in SUBSET wire[t], wire' = [wire EXCEPT ![t] = w],
         UNCHANGED <<opt, main, next, finished, quit, intr, stopped, starting, jobs,
                     tick, stranded, timer, lost>>
  PROVE  IInv'
<1> DEFINE left == pending[t] \ {h}
<1>1. ThreadOK(t) /\ TypeOK /\ h \in Asked /\ then # "cancel" /\ then \in Places
  BY Shares DEF IInv, TypeOK, Returns, Places
<1>2. todo[t] = {}
  BY <1>1 DEF ThreadOK, Cancelling
<1>3. /\ state' = [state EXCEPT ![h] = "over"]
      /\ resps' = [resps EXCEPT ![h] = @ + 1]
      /\ pending' = [pending EXCEPT ![t] = left]
  BY DEF Callback
<1>4. \/ /\ phr' = [phr EXCEPT ![t] = "done"]
         /\ todo' = [todo EXCEPT ![t] = left]
         /\ missed' = [missed EXCEPT ![t] = starting[t]]
         /\ \/ left = {} /\ pc' = [pc EXCEPT ![t] = then] /\ ret' = ret
            \/ /\ left # {}
               /\ pc' = [pc EXCEPT ![t] = "cancel"]
               /\ ret' = [ret EXCEPT ![t] = then]
      \/ pc' = [pc EXCEPT ![t] = then] /\ UNCHANGED <<phr, todo, missed, ret>>
  BY DEF Callback, CallUpsCancel
<1>5. left \subseteq Asked
  BY <1>1 DEF TypeOK
<1> HIDE DEF left
<1>6. /\ pc' \in [Threads -> Places] /\ ret' \in [Threads -> Returns]
      /\ phr' \in [Threads -> {"idle", "done"}]
      /\ todo' \in [Threads -> SUBSET Asked] /\ missed' \in [Threads -> Nat]
  <2>1. "cancel" \in Places BY DEF Places
  <2> HIDE DEF Places, Returns
  <2>7. /\ pc \in [Threads -> Places] /\ ret \in [Threads -> Returns]
        /\ phr \in [Threads -> {"idle", "done"}]
        /\ todo \in [Threads -> SUBSET Asked]
        /\ missed \in [Threads -> Nat] /\ starting[t] \in Nat
    BY <1>1 DEF TypeOK
  <2>2. pc' \in [Threads -> Places]
    <3>1. \E p \in Places : pc' = [pc EXCEPT ![t] = p] BY ONLY <1>1, <1>4, <2>1
    <3> QED BY ONLY <2>7, <3>1
  <2>3. ret' \in [Threads -> Returns]
    <3>1. ret' = ret \/ ret' = [ret EXCEPT ![t] = then] BY ONLY <1>4
    <3> QED BY ONLY <2>7, <3>1, then \in Returns
  <2>4. phr' \in [Threads -> {"idle", "done"}]
    <3>1. phr' = phr \/ phr' = [phr EXCEPT ![t] = "done"] BY ONLY <1>4
    <3> QED BY ONLY <2>7, <3>1
  <2>5. todo' \in [Threads -> SUBSET Asked]
    <3>1. todo' = todo \/ todo' = [todo EXCEPT ![t] = left] BY ONLY <1>4
    <3> QED BY ONLY <1>5, <2>7, <3>1
  <2>6. missed' \in [Threads -> Nat]
    <3>1. missed' = missed \/ missed' = [missed EXCEPT ![t] = starting[t]] BY ONLY <1>4
    <3> QED BY ONLY <2>7, <3>1
  <2> QED BY <2>2, <2>3, <2>4, <2>5, <2>6
<1>7. TypeOK'
  <2>1. state' \in [Asked -> States] /\ resps' \in [Asked -> Nat]
    BY <1>1, <1>3 DEF TypeOK, States
  <2>2. pending' \in [Threads -> SUBSET Asked]
    BY <1>1, <1>3, <1>5 DEF TypeOK
  <2>3. wire' \in [Threads -> SUBSET Asked]
    BY <1>1 DEF TypeOK
  <2> QED BY <1>1, <1>6, <2>1, <2>2, <2>3, Fixed DEF TypeOK
<1>8. OnlyThread(t)
  BY <1>1, <1>3, <1>4 DEF OnlyThread, TypeOK, left
<1>9. /\ \A x \in Share(t) : state'[x] = IF x = h THEN "over" ELSE state[x]
      /\ \A x \in Share(t) : resps'[x] = IF x = h THEN resps[h] + 1 ELSE resps[x]
      /\ pending'[t] = left
  BY <1>1, <1>3, Shares DEF TypeOK
<1>10. Accounted(t)'
  BY <1>1, <1>9, Fixed, SMTT(30) DEF ThreadOK, Accounted, left
<1>11. Cancelling(t)'
  <2>1. pending'[t] \ todo[t] \subseteq pending[t] \ todo[t] BY <1>9 DEF left
  <2> QED BY <1>1, <1>2, <1>4, <1>9, <2>1 DEF ThreadOK, Cancelling, TypeOK
<1>12. Starting(t)'
  <2>1. starting[t] # NoHost => pc'[t] = "start" \/ (pc'[t] = "cancel" /\ ret'[t] = "start")
    BY <1>1, <1>4 DEF TypeOK
  <2>2. \A x \in Share(t) : state'[x] = "none" => state[x] = "none"
    BY <1>9
  <2> QED BY <1>1, <2>1, <2>2, Fixed DEF ThreadOK, Starting
<1>13. LookedUpOnce(jobs[t], wire[t], t, state)'
  <2>1. \A x \in Share(t) : state[x] \in Looked => state'[x] \in Looked
    BY <1>9 DEF Looked
  <2>2. LookedUpOnce(jobs[t], w, t, state')
    BY <1>1, <2>1, LookedUpKept DEF ThreadOK
  <2>3. jobs'[t] = jobs[t] /\ wire'[t] = w BY <1>1 DEF TypeOK
  <2> QED BY <2>2, <2>3, Fixed DEF LookedUpOnce
<1>14. QueuedOnce(queue[t], t, state)'
  BY Fixed DEF QueuedOnce
<1> QED BY <1>7, <1>8, <1>10, <1>11, <1>12, <1>13, <1>14, LocalStep DEF ThreadOK

\* A turn of the loop of ups_cancel.
LEMMA UpsCancelStep ==
  ASSUME IInv, NEW t \in Threads, UpsCancel(t)
  PROVE  IInv'
<1>1. PICK h \in todo[t] :
        /\ SubrCancel(t, h)
        /\ todo' = [todo EXCEPT ![t] = @ \ {h}]
        /\ IF todo[t] = {h}
           THEN /\ pc' = [pc EXCEPT ![t] = ret[t]]
                /\ ret' = [ret EXCEPT ![t] = "deq"]
           ELSE UNCHANGED <<pc, ret>>
  BY DEF UpsCancel
<1>2. /\ pc[t] = "cancel"
      /\ UNCHANGED <<opt, main, next, finished, quit, intr, phr, missed, stopped,
                     starting, jobs, wire, tick, stranded, timer, lost>>
  BY DEF UpsCancel, mainVars, dnsVars
<1>3. ThreadOK(t) /\ TypeOK /\ \A x \in Share(t) : x \in Asked
  BY Shares DEF IInv, TypeOK
<1>4. /\ phr[t] = "done" /\ missed[t] = starting[t]
      /\ todo[t] \subseteq pending[t]
      /\ pending[t] \ todo[t] \subseteq {missed[t]} \union stranded[t]
  BY <1>3 DEF ThreadOK, Cancelling
<1>5. /\ pc' \in [Threads -> Places] /\ ret' \in [Threads -> Returns]
      /\ todo' \in [Threads -> SUBSET Asked]
      /\ todo'[t] = todo[t] \ {h}
      /\ pc'[t] = "cancel" <=> todo'[t] # {}
      /\ starting[t] # NoHost =>
           pc'[t] = "start" \/ (pc'[t] = "cancel" /\ ret'[t] = "start")
  <2>1. /\ pc \in [Threads -> Places] /\ ret \in [Threads -> Returns]
        /\ todo \in [Threads -> SUBSET Asked]
    BY <1>3 DEF TypeOK
  <2>2. "deq" \in Returns /\ Returns \subseteq Places /\ "cancel" \notin Returns
    BY DEF Returns, Places
  <2>3. starting[t] # NoHost => ret[t] = "start"
    BY <1>2, <1>3 DEF ThreadOK, Starting
  <2>4. todo' \in [Threads -> SUBSET Asked] /\ todo'[t] = todo[t] \ {h}
    BY <1>1, <2>1
  <2>5. CASE todo[t] = {h}
    <3>1. pc' = [pc EXCEPT ![t] = ret[t]] /\ ret' = [ret EXCEPT ![t] = "deq"]
      BY <1>1, <2>5
    <3>2. pc' \in [Threads -> Places] /\ ret' \in [Threads -> Returns] /\ pc'[t] = ret[t]
      BY <2>1, <2>2, <3>1
    <3> QED BY <2>1, <2>2, <2>3, <2>4, <2>5, <3>2
  <2>6. CASE todo[t] # {h}
    <3>1. pc' = pc /\ ret' = ret BY <1>1, <2>6
    <3> QED BY <1>2, <2>1, <2>3, <2>4, <2>6, <3>1
  <2> QED BY <2>5, <2>6
<1>6. CASE state[h] = "none"
  <2>1. UNCHANGED <<queue, state, pending, resps>>
    BY <1>1, <1>6 DEF SubrCancel
  <2>2. TypeOK'
    BY <1>2, <1>3, <1>5, <2>1, Fixed DEF TypeOK
  <2>3. OnlyThread(t)
    BY <1>1, <1>2, <1>3, <2>1 DEF OnlyThread, TypeOK
  <2>4. h \in pending[t] => h \in {missed[t]} \union stranded[t]
    <3>1. pending[t] \subseteq Share(t) BY <1>3 DEF ThreadOK, Accounted
    <3> QED BY <1>3, <1>4, <1>6, <3>1 DEF ThreadOK, Starting
  <2>5. Cancelling(t)'
    <3>1. pending[t] \ (todo[t] \ {h}) \subseteq {missed[t]} \union stranded[t]
      BY <1>4, <2>4
    <3> QED BY <1>2, <1>4, <1>5, <2>1, <3>1 DEF Cancelling
  <2>6. Starting(t)'
    BY <1>2, <1>3, <1>5, <2>1, Fixed DEF ThreadOK, Starting
  <2>7. Accounted(t)' /\ QueuedOnce(queue[t], t, state)'
    BY <1>2, <1>3, <2>1, Fixed DEF ThreadOK, Accounted, QueuedOnce
  <2>8. LookedUpOnce(jobs[t], wire[t], t, state)'
    BY <1>2, <1>3, <2>1, Fixed DEF ThreadOK, LookedUpOnce
  <2> QED BY <2>2, <2>3, <2>5, <2>6, <2>7, <2>8, LocalStep DEF ThreadOK
<1>7. CASE state[h] # "none"
  <2> DEFINE r == [i \in DOMAIN queue[t] |->
                     IF queue[t][i] = h THEN NoHost ELSE queue[t][i]]
  <2>1. /\ state' = [state EXCEPT ![h] = "over"]
        /\ queue' = [queue EXCEPT ![t] = r]
        /\ resps' = [resps EXCEPT ![h] = @ + 1]
        /\ pending' = [pending EXCEPT ![t] = @ \ {h}]
    BY <1>1, <1>3, <1>7 DEF SubrCancel, TypeOK
  <2>2. h \in pending[t] /\ h \in Share(t) /\ h \in Asked
    <3>1. todo[t] \subseteq pending[t] /\ pending[t] \subseteq Share(t)
      BY <1>3 DEF ThreadOK, Cancelling, Accounted
    <3> QED BY <1>3, <3>1
  <2>3. /\ \A x \in Share(t) : state'[x] = IF x = h THEN "over" ELSE state[x]
        /\ \A x \in Share(t) : resps'[x] = IF x = h THEN resps[h] + 1 ELSE resps[x]
        /\ pending'[t] = pending[t] \ {h}
    BY <1>3, <2>1, Shares DEF TypeOK
  <2>4. r \in Seq(Nat) /\ QueuedOnce(r, t, state')
    <3>1. queue[t] \in Seq(Nat) BY <1>3 DEF TypeOK
    <3>2. QueuedOnce(queue[t], t, state) BY <1>3 DEF ThreadOK
    <3>3. \A x \in Share(t) \ {h} : state'[x] = state[x] BY <2>3
    <3>4. /\ DOMAIN queue[t] = 1 .. Len(queue[t]) /\ Len(queue[t]) \in Nat
          /\ \A i \in 1 .. Len(queue[t]) : queue[t][i] \in Nat
      BY <3>1
    <3>5. /\ r \in [1 .. Len(queue[t]) -> Nat]
          /\ \A i \in 1 .. Len(queue[t]) :
               r[i] = IF queue[t][i] = h THEN NoHost ELSE queue[t][i]
      BY <3>4 DEF NoHost
    <3> HIDE DEF r
    <3>6. r \in Seq(Nat) /\ Len(r) = Len(queue[t])
      BY <3>4, <3>5
    <3>7. QueuedOnce(r, t, state')
      BY <3>2, <3>3, <3>5, <3>6 DEF QueuedOnce
    <3> QED BY <3>6, <3>7
  <2> HIDE DEF r
  <2>5. TypeOK'
    <3>1. state' \in [Asked -> States] /\ resps' \in [Asked -> Nat]
      BY <1>3, <2>1, <2>2 DEF TypeOK, States
    <3>2. pending' \in [Threads -> SUBSET Asked]
      BY <1>3, <2>1 DEF TypeOK
    <3>3. queue' \in [Threads -> Seq(Nat)]
      BY <1>3, <2>1, <2>4 DEF TypeOK
    <3> QED BY <1>2, <1>3, <1>5, <3>1, <3>2, <3>3, Fixed DEF TypeOK
  <2>6. OnlyThread(t)
    BY <1>1, <1>2, <1>3, <2>1, <2>2 DEF OnlyThread, TypeOK
  <2>7. Accounted(t)'
    BY <1>2, <1>3, <2>2, <2>3, Fixed DEF ThreadOK, Accounted
  <2>8. Cancelling(t)'
    <3>1. pending'[t] \ todo'[t] \subseteq pending[t] \ todo[t]
      BY <1>5, <2>3
    <3>2. todo'[t] \subseteq pending'[t]
      BY <1>4, <1>5, <2>3
    <3>3. pending'[t] \ todo'[t] \subseteq {missed'[t]} \union stranded'[t]
      BY ONLY <1>2, <1>4, <3>1
    <3>4. phr'[t] = "done" /\ missed'[t] = starting'[t]
      BY ONLY <1>2, <1>4
    <3>5. pc'[t] = "cancel" <=> todo'[t] # {}
      BY ONLY <1>5
    <3> QED BY ONLY <3>2, <3>3, <3>4, <3>5 DEF Cancelling
  <2>9. Starting(t)'
    <3>1. \A x \in Share(t) : state'[x] = "none" => state[x] = "none"
      BY <2>3
    <3> QED BY <1>2, <1>3, <1>5, <3>1, Fixed DEF ThreadOK, Starting
  <2>10. QueuedOnce(queue[t], t, state)'
    <3>1. queue'[t] = r BY <1>3, <2>1 DEF TypeOK
    <3>2. Share(t)' = Share(t) BY <1>2, Fixed
    <3> QED BY ONLY <2>4, <3>1, <3>2 DEF QueuedOnce
  <2>11. LookedUpOnce(jobs[t], wire[t], t, state)'
    <3>1. \A x \in Share(t) : state[x] \in Looked => state'[x] \in Looked
      BY <2>3 DEF Looked
    <3>2. LookedUpOnce(jobs[t], wire[t], t, state')
      BY <1>3, <3>1, LookedUpKept DEF ThreadOK
    <3> QED BY <1>2, <3>2, Fixed DEF LookedUpOnce
  <2> QED BY <2>5, <2>6, <2>7, <2>8, <2>9, <2>10, <2>11, LocalStep DEF ThreadOK
<1> QED BY <1>6, <1>7

\* A step of a thread that touches neither its hosts nor its look-ups.
LEMMA QuietStep ==
  ASSUME IInv, NEW t \in Threads, pc[t] \notin {"none", "cancel", "start"},
         NEW p \in Places \ {"cancel"}, pc' = [pc EXCEPT ![t] = p],
         stopped' \in [Threads -> BOOLEAN], tick' \in [Threads -> BOOLEAN],
         timer' \in [Threads -> BOOLEAN], lost' \in BOOLEAN,
         UNCHANGED <<opt, main, next, finished, quit, intr, ret, queue, state,
                     pending, resps, phr, todo, missed, starting, jobs, wire, stranded>>
  PROVE  IInv'
<1>1. ThreadOK(t) /\ TypeOK
  BY DEF IInv
<1>2. TypeOK'
  <2>1. pc' \in [Threads -> Places] BY <1>1 DEF TypeOK
  <2> QED BY <1>1, <2>1, Fixed DEF TypeOK
<1>3. OnlyThread(t)
  BY <1>1 DEF OnlyThread, TypeOK
<1>4. starting[t] = NoHost /\ pc'[t] = p
  BY <1>1 DEF ThreadOK, Starting, TypeOK
<1>5. Accounted(t)' /\ Cancelling(t)' /\ Starting(t)'
  BY <1>1, <1>4, Fixed DEF ThreadOK, Accounted, Cancelling, Starting
<1>6. QueuedOnce(queue[t], t, state)' /\ LookedUpOnce(jobs[t], wire[t], t, state)'
  BY <1>1, Fixed DEF ThreadOK, QueuedOnce, LookedUpOnce
<1> QED BY <1>2, <1>3, <1>5, <1>6, LocalStep DEF ThreadOK

\* s_timeout_cb.
LEMMA TimeoutStep ==
  ASSUME IInv, NEW t \in Threads, Timeout(t)
  PROVE  IInv'
<1>1. /\ pc[t] = "wait" /\ timer' = [timer EXCEPT ![t] = FALSE]
      /\ UNCHANGED <<opt, main, next, finished, quit, intr, stopped, lost, queue,
                     state, pending, resps, starting, jobs, wire, tick, stranded>>
  BY DEF Timeout, mainVars, phrVars, dnsVars
<1>2. ThreadOK(t) /\ TypeOK
  BY DEF IInv
<1>3. timer' \in [Threads -> BOOLEAN]
  BY <1>1, <1>2 DEF TypeOK
<1>4. CASE phr[t] = "done"
  <2>1. pc' = [pc EXCEPT ![t] = "deq"] /\ UNCHANGED <<ret, phr, todo, missed>>
    BY <1>4 DEF Timeout, phrVars
  <2>2. "deq" \in Places \ {"cancel"} BY DEF Places, Returns
  <2>3. /\ stopped' \in [Threads -> BOOLEAN] /\ tick' \in [Threads -> BOOLEAN]
        /\ lost' \in BOOLEAN
    BY <1>1, <1>2 DEF TypeOK
  <2> QED BY <1>1, <1>3, <2>1, <2>2, <2>3, QuietStep
<1>5. CASE phr[t] # "done"
  <2>1. /\ phr' = [phr EXCEPT ![t] = "done"]
        /\ todo' = [todo EXCEPT ![t] = pending[t]]
        /\ missed' = [missed EXCEPT ![t] = starting[t]]
        /\ \/ pending[t] = {} /\ pc' = [pc EXCEPT ![t] = "deq"] /\ ret' = ret
           \/ /\ pending[t] # {}
              /\ pc' = [pc EXCEPT ![t] = "cancel"]
              /\ ret' = [ret EXCEPT ![t] = "deq"]
    BY <1>5 DEF Timeout, CallUpsCancel
  <2>2. pc' \in [Threads -> Places] /\ ret' \in [Threads -> Returns]
    BY <1>2, <2>1 DEF TypeOK, Places, Returns
  <2>3. /\ phr' \in [Threads -> {"idle", "done"}] /\ todo' \in [Threads -> SUBSET Asked]
        /\ missed' \in [Threads -> Nat]
    <3>1. /\ phr \in [Threads -> {"idle", "done"}] /\ todo \in [Threads -> SUBSET Asked]
          /\ missed \in [Threads -> Nat] /\ starting[t] \in Nat
          /\ pending[t] \subseteq Asked
      BY <1>2 DEF TypeOK
    <3> QED BY <2>1, <3>1
  <2>4. TypeOK'
    BY <1>1, <1>2, <1>3, <2>2, <2>3, Fixed DEF TypeOK
  <2>5. OnlyThread(t)
    BY <1>1, <1>2, <2>1 DEF OnlyThread, TypeOK
  <2>6. /\ phr'[t] = "done" /\ todo'[t] = pending'[t] /\ missed'[t] = starting'[t]
        /\ pc'[t] = "cancel" <=> todo'[t] # {}
    BY <1>1, <1>2, <2>1 DEF TypeOK
  <2>7. Cancelling(t)'
    BY <2>6 DEF Cancelling
  <2>8. Starting(t)'
    <3>1. starting[t] = NoHost BY <1>1, <1>2 DEF ThreadOK, Starting
    <3> QED BY <1>1, <1>2, <3>1, Fixed DEF ThreadOK, Starting
  <2>9. Accounted(t)' /\ QueuedOnce(queue[t], t, state)'
    BY <1>1, <1>2, Fixed DEF ThreadOK, QueuedOnce, Accounted
  <2>10. LookedUpOnce(jobs[t], wire[t], t, state)'
    BY <1>1, <1>2, Fixed DEF ThreadOK, LookedUpOnce
  <2> QED BY <2>4, <2>5, <2>7, <2>8, <2>9, <2>10, LocalStep DEF ThreadOK
<1> QED BY <1>4, <1>5

\* A subrequest that is not queued leaves the queue in order when it ends.
LEMMA EndKeepsQueue ==
  ASSUME IInv, NEW t \in Threads, NEW h \in Share(t), state[h] # "queued",
         state' = [state EXCEPT ![h] = "over"], queue' = queue
  PROVE  queue' \in [Threads -> Seq(Nat)] /\ QueuedOnce(queue'[t], t, state')
<1>1. ThreadOK(t) /\ TypeOK
  BY DEF IInv
<1>2. \A x \in Share(t) \ {h} : state'[x] = state[x]
  BY <1>1, Shares DEF TypeOK
<1>3. QueuedOnce(queue[t], t, state')
  BY <1>1, <1>2 DEF ThreadOK, QueuedOnce
<1> QED BY <1>1, <1>3 DEF TypeOK

\* The end of a subrequest by an event.
LEMMA EndedStep ==
  ASSUME IInv, NEW t \in Threads, NEW h \in Share(t), Ended(t, h)
  PROVE  IInv'
<1>1. /\ pc[t] \in {"wait", "events"} /\ state[h] = "active"
      /\ Callback(t, h, "events") /\ state' = [state EXCEPT ![h] = "over"]
      /\ UNCHANGED <<opt, main, next, finished, quit, intr, stopped, queue, starting,
                     jobs, wire, tick, stranded, timer, lost>>
  BY DEF Ended, Active, Callback, mainVars, dnsVars
<1>2. ThreadOK(t) /\ TypeOK
  BY DEF IInv
<1>3. h \in pending[t]
  BY <1>1, <1>2 DEF ThreadOK, Accounted
<1>4. starting[t] = NoHost
  BY <1>1, <1>2 DEF ThreadOK, Starting
<1>5. wire' = [wire EXCEPT ![t] = wire[t]] /\ "events" \in Returns
  BY <1>1, <1>2 DEF TypeOK, Returns
<1>6. queue' \in [Threads -> Seq(Nat)] /\ QueuedOnce(queue'[t], t, state')
  BY <1>1, EndKeepsQueue
<1> QED BY <1>1, <1>3, <1>4, <1>5, <1>6, CallbackStep

\* udns ends a look-up without an answer.
LEMMA LookupFailsStep ==
  ASSUME IInv, NEW t \in Threads, NEW h \in Share(t), LookupFails(t, h)
  PROVE  IInv'
<1>1. /\ pc[t] \in {"start", "answers", "read", "tick"}
      /\ wire' = [wire EXCEPT ![t] = wire[t] \ {h}]
      /\ UNCHANGED <<opt, main, next, finished, quit, intr, stopped, queue, starting,
                     jobs, tick, stranded, timer, lost>>
  BY DEF LookupFails, mainVars
<1>2. ThreadOK(t) /\ TypeOK
  BY DEF IInv
<1>3. CASE state[h] \in {"none", "lookup"}
  <2>1. Callback(t, h, pc[t]) /\ state' = [state EXCEPT ![h] = "over"]
    BY <1>3 DEF LookupFails, Callback
  <2>2. h \in pending[t]
    BY <1>2, <1>3 DEF ThreadOK, Accounted
  <2>3. starting[t] # NoHost => pc[t] = "start"
    BY <1>1, <1>2 DEF ThreadOK, Starting
  <2>4. pc[t] \in Returns
    BY <1>1 DEF Returns
  <2>5. queue' \in [Threads -> Seq(Nat)] /\ QueuedOnce(queue'[t], t, state')
    BY <1>1, <1>3, <2>1, EndKeepsQueue
  <2> DEFINE w == wire[t] \ {h}
  <2>6. w \in SUBSET wire[t] /\ wire' = [wire EXCEPT ![t] = w]
    BY <1>1
  <2> HIDE DEF w
  <2> QED BY <1>1, <2>1, <2>2, <2>3, <2>4, <2>5, <2>6, CallbackStep
<1>4. CASE state[h] \notin {"none", "lookup"}
  <2>1. UNCHANGED <<pc, ret, state, pending, resps, phr, todo, missed>>
    BY <1>4 DEF LookupFails, phrVars
  <2>2. TypeOK'
    <3>1. wire' \in [Threads -> SUBSET Asked] BY <1>1, <1>2 DEF TypeOK
    <3> QED BY <1>1, <1>2, <2>1, <3>1, Fixed DEF TypeOK
  <2>3. OnlyThread(t)
    BY <1>1, <1>2, <2>1 DEF OnlyThread, TypeOK
  <2>4. Accounted(t)' /\ QueuedOnce(queue[t], t, state)'
    BY <1>1, <1>2, <2>1, Fixed DEF ThreadOK, Accounted, QueuedOnce
  <2>5. Cancelling(t)' /\ Starting(t)'
    BY <1>1, <1>2, <2>1, Fixed DEF ThreadOK, Cancelling, Starting
  <2>6. LookedUpOnce(jobs[t], wire[t], t, state)'
    <3>1. LookedUpOnce(jobs[t], wire[t] \ {h}, t, state)
      BY <1>2, LookedUpKept DEF ThreadOK
    <3>2. wire'[t] = wire[t] \ {h} BY <1>1, <1>2 DEF TypeOK
    <3> QED BY <1>1, <2>1, <3>1, <3>2, Fixed DEF LookedUpOnce
  <2> QED BY <2>2, <2>3, <2>4, <2>5, <2>6, LocalStep DEF ThreadOK
<1> QED BY <1>3, <1>4

\* lookup_async returns: the subrequest that was started has a state.
LEMMA LookupDoneStep ==
  ASSUME IInv, NEW t \in Threads, LookupDone(t)
  PROVE  IInv'
<1>1. /\ pc[t] \in {"start", "read", "tick"}
      /\ tick' = [tick EXCEPT ![t] = @ \/ wire[t] # {}]
      /\ state' = [h \in Asked |-> IF h = starting[t] /\ state[h] = "none"
                                   THEN "lookup" ELSE state[h]]
      /\ starting' = [starting EXCEPT ![t] = NoHost]
      /\ UNCHANGED <<opt, main, next, finished, quit, intr, ret, stopped, queue,
                     pending, resps, phr, todo, missed, jobs, wire, stranded, timer,
                     lost>>
  BY DEF LookupDone, TimerSet, mainVars, phrVars
<1>2. PICK p \in {"events", "deq"} : pc' = [pc EXCEPT ![t] = p]
  BY DEF LookupDone
<1>3. ThreadOK(t) /\ TypeOK /\ \A x \in Share(t) : x \in Asked
  BY Shares DEF IInv, TypeOK
<1>4. starting[t] # NoHost => starting[t] \in Share(t)
  BY <1>3 DEF ThreadOK, Starting
<1>5. TypeOK'
  <2>1. pc' \in [Threads -> Places] BY <1>2, <1>3 DEF TypeOK, Places, Returns
  <2>2. state' \in [Asked -> States] BY <1>1, <1>3 DEF TypeOK, States
  <2>3. tick' \in [Threads -> BOOLEAN]
    <3>1. tick \in [Threads -> BOOLEAN] /\ (tick[t] \/ wire[t] # {}) \in BOOLEAN
      BY <1>3 DEF TypeOK
    <3> QED BY <1>1, <3>1
  <2>4. starting' \in [Threads -> Nat] BY <1>1, <1>3 DEF TypeOK, NoHost
  <2> QED BY <1>1, <1>3, <2>1, <2>2, <2>3, <2>4, Fixed DEF TypeOK
<1>6. \A h \in Asked \ Share(t) : state'[h] = state[h]
  BY <1>1, <1>3, <1>4, Shares DEF TypeOK
<1>7. OnlyThread(t)
  BY <1>1, <1>2, <1>3, <1>6 DEF OnlyThread, TypeOK
<1>8. /\ \A x \in Share(t) : \/ state'[x] = state[x]
                             \/ state[x] = "none" /\ state'[x] = "lookup"
      /\ \A x \in Share(t) : state'[x] = "none" => state[x] = "none" /\ x # starting[t]
  BY <1>1, <1>3
<1>9. starting'[t] = NoHost /\ pc'[t] = p
  BY <1>1, <1>2, <1>3 DEF TypeOK
<1>10. todo[t] = {} /\ p # "cancel"
  BY <1>1, <1>3 DEF ThreadOK, Cancelling
<1>11. Accounted(t)'
  <2>1. \A x \in Share(t) : state'[x] = "over" <=> state[x] = "over"
    BY <1>8
  <2> QED BY <1>1, <1>3, <2>1, Fixed DEF ThreadOK, Accounted
<1>12. Cancelling(t)'
  BY <1>1, <1>3, <1>9, <1>10 DEF ThreadOK, Cancelling
<1>13. Starting(t)'
  BY <1>1, <1>3, <1>8, <1>9, Fixed DEF ThreadOK, Starting
<1>14. QueuedOnce(queue[t], t, state)'
  <2>1. \A x \in Share(t) : state[x] = "queued" => state'[x] = "queued"
    BY <1>8
  <2> QED BY <1>1, <1>3, <2>1, Fixed DEF ThreadOK, QueuedOnce
<1>15. LookedUpOnce(jobs[t], wire[t], t, state)'
  <2>1. \A x \in Share(t) : state[x] \in Looked => state'[x] \in Looked
    BY <1>8 DEF Looked
  <2>2. LookedUpOnce(jobs[t], wire[t], t, state')
    BY <1>3, <2>1, LookedUpKept DEF ThreadOK
  <2> QED BY <1>1, <2>2, Fixed DEF LookedUpOnce
<1> QED BY <1>5, <1>7, <1>11, <1>12, <1>13, <1>14, <1>15, LocalStep DEF ThreadOK

\* adns_resolved_cb.
LEMMA ResolvedStep ==
  ASSUME IInv, NEW t \in Threads, NEW h \in Share(t), Resolved(t, h)
  PROVE  IInv'
<1>1. /\ pc[t] = "answers" /\ h \in wire[t]
      /\ wire' = [wire EXCEPT ![t] = wire[t] \ {h}]
      /\ UNCHANGED <<opt, main, next, finished, quit, intr, pc, ret, stopped, pending,
                     resps, phr, todo, missed, starting, jobs, tick, stranded, timer,
                     lost>>
  BY DEF Resolved, mainVars, phrVars
<1>2. ThreadOK(t) /\ TypeOK /\ h \in Asked /\ h \in Nat
      /\ \A x \in Share(t) : x \in Asked
  BY Shares DEF IInv, TypeOK
<1>3. wire' \in [Threads -> SUBSET Asked] /\ wire'[t] = wire[t] \ {h}
  BY <1>1, <1>2 DEF TypeOK
<1>4. Cancelling(t)'
  BY <1>1, <1>2 DEF ThreadOK, Cancelling
<1>5. CASE state[h] \notin {"none", "lookup"}
  <2>1. UNCHANGED <<state, queue>>
    BY <1>5 DEF Resolved
  <2>2. TypeOK'
    BY <1>1, <1>2, <1>3, <2>1, Fixed DEF TypeOK
  <2>3. OnlyThread(t)
    BY <1>1, <1>2, <2>1 DEF OnlyThread, TypeOK
  <2>4. Accounted(t)' /\ Starting(t)'
    BY <1>1, <1>2, <2>1, Fixed DEF ThreadOK, Accounted, Starting
  <2>6. QueuedOnce(queue[t], t, state)'
    <3>1. QueuedOnce(queue[t], t, state) BY <1>2 DEF ThreadOK
    <3> QED BY <1>1, <2>1, <3>1, Fixed DEF QueuedOnce
  <2>5. LookedUpOnce(jobs[t], wire[t], t, state)'
    <3>1. LookedUpOnce(jobs[t], wire[t] \ {h}, t, state)
      BY <1>2, LookedUpKept DEF ThreadOK
    <3> QED BY <1>1, <1>3, <2>1, <3>1, Fixed DEF LookedUpOnce
  <2> QED BY <1>4, <2>2, <2>3, <2>4, <2>5, <2>6, LocalStep DEF ThreadOK
<1>6. CASE state[h] \in {"none", "lookup"}
  <2>1. /\ state' = [state EXCEPT ![h] = "queued"]
        /\ queue' = [queue EXCEPT ![t] = Append(@, h)]
    BY <1>6 DEF Resolved
  <2>2. \A x \in Share(t) : state'[x] = IF x = h THEN "queued" ELSE state[x]
    BY <1>2, <2>1 DEF TypeOK
  <2>3. /\ queue[t] \in Seq(Nat) /\ queue'[t] = Append(queue[t], h)
        /\ QueuedOnce(queue[t], t, state)
    BY <1>2, <2>1 DEF TypeOK, ThreadOK
  <2>4. \A i \in 1 .. Len(queue[t]) : queue[t][i] # h
    <3>1. h # NoHost BY <1>2, Shares DEF TypeOK
    <3> QED BY <1>6, <2>3, <3>1 DEF QueuedOnce
  <2>5. queue'[t] \in Seq(Nat) /\ QueuedOnce(queue'[t], t, state')
    BY <1>2, <2>2, <2>3, <2>4, AppendOnce
  <2>6. TypeOK'
    <3>1. state' \in [Asked -> States] BY <1>2, <2>1 DEF TypeOK, States
    <3>2. queue' \in [Threads -> Seq(Nat)] BY <1>2, <2>1, <2>3, <2>5 DEF TypeOK
    <3> QED BY <1>1, <1>2, <1>3, <3>1, <3>2, Fixed DEF TypeOK
  <2>7. OnlyThread(t)
    BY <1>1, <1>2, <2>1 DEF OnlyThread, TypeOK
  <2>8. Accounted(t)'
    <3>1. \A x \in Share(t) : state'[x] = "over" <=> state[x] = "over"
      BY <1>6, <2>2
    <3> QED BY <1>1, <1>2, <3>1, Fixed DEF ThreadOK, Accounted
  <2>9. Starting(t)'
    <3>1. \A x \in Share(t) : state'[x] = "none" => state[x] = "none"
      BY <2>2
    <3> QED BY <1>1, <1>2, <3>1, Fixed DEF ThreadOK, Starting
  <2>10. LookedUpOnce(jobs[t], wire[t], t, state)'
    <3>1. /\ \A i \in 1 .. Len(jobs[t]) :
               /\ jobs[t][i] \in Share(t) \ wire[t] /\ state[jobs[t][i]] \in Looked
               /\ \A j \in 1 .. Len(jobs[t]) : jobs[t][j] = jobs[t][i] => j = i
          /\ \A x \in wire[t] : x \in Share(t) /\ state[x] \in Looked
      BY <1>2 DEF ThreadOK, LookedUpOnce
    <3>2. \A i \in 1 .. Len(jobs[t]) : jobs[t][i] # h
      BY <1>1, <3>1
    <3>3. LookedUpOnce(jobs[t], wire[t] \ {h}, t, state')
      BY <2>2, <3>1, <3>2 DEF LookedUpOnce
    <3> QED BY <1>1, <1>3, <3>3, Fixed DEF LookedUpOnce
  <2>11. QueuedOnce(queue[t], t, state)'
    BY <1>1, <2>5, Fixed DEF QueuedOnce
  <2> QED BY <1>4, <2>6, <2>7, <2>8, <2>9, <2>10, <2>11, LocalStep DEF ThreadOK
<1> QED BY <1>5, <1>6

\* What lookup_async does to the jobs q of a thread.
LEMMA Submits ==
  ASSUME TypeOK, NEW t \in Threads, NEW q \in Seq(Nat), NEW st,
         LookedUpOnce(q, wire[t], t, st),
         NEW then, NEW refused, Submit(t, q, then, refused)
  PROVE  /\ jobs' \in [Threads -> Seq(Nat)] /\ wire' \in [Threads -> SUBSET Asked]
         /\ \A u \in Threads \ {t} : jobs'[u] = jobs[u] /\ wire'[u] = wire[u]
         /\ LookedUpOnce(jobs'[t], wire'[t], t, st)
         /\ \/ pc' = [pc EXCEPT ![t] = then]
            \/ pc' = [pc EXCEPT ![t] = refused] /\ opt.refused # {}
<1>1. PICK n \in 0 .. Len(q) :
        /\ jobs' = [jobs EXCEPT ![t] = SubSeq(q, n + 1, Len(q))]
        /\ wire' = [wire EXCEPT ![t] = @ \union ({q[i] : i \in 1 .. n} \ opt.refused)]
        /\ pc' = [pc EXCEPT ![t] = IF n > 0 /\ q[n] \in opt.refused
                                   THEN refused ELSE then]
  BY DEF Submit
<1> DEFINE r == SubSeq(q, n + 1, Len(q))
           v == wire[t] \union ({q[i] : i \in 1 .. n} \ opt.refused)
<1>2. r \in Seq(Nat) /\ v \subseteq wire[t] \union Share(t) /\ LookedUpOnce(r, v, t, st)
  BY SubmittedOnce
<1>3. /\ jobs \in [Threads -> Seq(Nat)] /\ wire \in [Threads -> SUBSET Asked]
      /\ Share(t) \subseteq Asked
  BY Shares DEF TypeOK
<1>4. jobs' = [jobs EXCEPT ![t] = r] /\ wire' = [wire EXCEPT ![t] = v]
  BY <1>1
<1>5. \/ pc' = [pc EXCEPT ![t] = then]
      \/ pc' = [pc EXCEPT ![t] = refused] /\ opt.refused # {}
  BY <1>1
<1> HIDE DEF r, v
<1>6. v \in SUBSET Asked BY <1>2, <1>3
<1> QED BY <1>2, <1>3, <1>4, <1>5, <1>6

\* lookup_async is called by the timer, or because udns has answers.
LEMMA SubmitStep ==
  ASSUME IInv, NEW t \in Threads, AnswersDone(t) \/ DnsTimer(t)
  PROVE  IInv'
<1>1. /\ pc[t] \in {"answers", "wait"}
      /\ UNCHANGED <<opt, main, next, finished, quit, intr, ret, stopped, queue, state,
                     pending, resps, phr, todo, missed, starting, stranded, timer,
                     lost>>
  BY DEF AnswersDone, DnsTimer, mainVars, phrVars
<1>2. ThreadOK(t) /\ TypeOK
  BY DEF IInv
<1>3. PICK then \in {"read", "tick"}, refused \in {"events", "deq"} :
        Submit(t, jobs[t], then, refused)
  BY DEF AnswersDone, DnsTimer
<1>4. /\ jobs' \in [Threads -> Seq(Nat)] /\ wire' \in [Threads -> SUBSET Asked]
      /\ \A u \in Threads \ {t} : jobs'[u] = jobs[u] /\ wire'[u] = wire[u]
      /\ LookedUpOnce(jobs'[t], wire'[t], t, state)
      /\ \/ pc' = [pc EXCEPT ![t] = then]
         \/ pc' = [pc EXCEPT ![t] = refused] /\ opt.refused # {}
  <2>1. jobs[t] \in Seq(Nat) /\ LookedUpOnce(jobs[t], wire[t], t, state)
    BY <1>2 DEF TypeOK, ThreadOK
  <2> QED BY <1>2, <1>3, <2>1, Submits
<1>5. PICK p \in {"read", "tick", "events", "deq"} : pc' = [pc EXCEPT ![t] = p]
  BY <1>4
<1>6. TypeOK'
  <2>1. pc' \in [Threads -> Places] BY <1>2, <1>5 DEF TypeOK, Places, Returns
  <2>2. tick' \in [Threads -> BOOLEAN] BY <1>2 DEF AnswersDone, DnsTimer, TypeOK
  <2> QED BY <1>1, <1>2, <1>4, <2>1, <2>2, Fixed DEF TypeOK
<1>7. OnlyThread(t)
  BY <1>1, <1>2, <1>4, <1>5 DEF OnlyThread, TypeOK
<1>8. starting[t] = NoHost /\ pc'[t] = p
  BY <1>1, <1>2, <1>5 DEF ThreadOK, Starting, TypeOK
<1>9. Accounted(t)' /\ Cancelling(t)' /\ Starting(t)'
  BY <1>1, <1>2, <1>8, Fixed DEF ThreadOK, Accounted, Cancelling, Starting
<1>10. QueuedOnce(queue[t], t, state)'
  BY <1>1, <1>2, Fixed DEF ThreadOK, QueuedOnce
<1>11. LookedUpOnce(jobs[t], wire[t], t, state)'
  BY <1>1, <1>4, Fixed DEF LookedUpOnce
<1> QED BY <1>6, <1>7, <1>9, <1>10, <1>11, LocalStep DEF ThreadOK

-----------------------------------------------------------------------------
\* What subr_try_deq takes from the queue: an empty place, or a host that is
\* queued nowhere else, pending, and not looked up.
LEMMA Dequeued ==
  ASSUME IInv, NEW t \in Threads, Dequeues(t)
  PROVE  /\ pc[t] = "deq" /\ starting[t] = NoHost /\ todo[t] = {}
         /\ Tail(queue[t]) \in Seq(Nat) /\ QueuedOnce(Tail(queue[t]), t, state)
         /\ First(t) # NoHost =>
              /\ First(t) \in Share(t) /\ First(t) \in Asked /\ First(t) \in Nat
              /\ state[First(t)] = "queued" /\ First(t) \in pending[t]
              /\ \A i \in 1 .. Len(Tail(queue[t])) : Tail(queue[t])[i] # First(t)
              /\ \A st : (\A x \in Share(t) \ {First(t)} : st[x] = state[x])
                           => QueuedOnce(Tail(queue[t]), t, st)
<1> DEFINE q == queue[t]
<1>1. ThreadOK(t) /\ TypeOK /\ q \in Seq(Nat) /\ q # <<>> /\ QueuedOnce(q, t, state)
  BY DEF IInv, TypeOK, ThreadOK, Dequeues
<1>2. pc[t] = "deq" /\ starting[t] = NoHost /\ todo[t] = {}
  BY <1>1 DEF Dequeues, ThreadOK, Starting, Cancelling
<1> HIDE DEF q
<1>3. Tail(q) \in Seq(Nat) /\ QueuedOnce(Tail(q), t, state)
  <2>1. \A x \in Share(t) \ {Head(q)} : state[x] = state[x] OBVIOUS
  <2> QED BY <1>1, <2>1, TailOnce
<1>4. ASSUME Head(q) # NoHost
      PROVE  /\ Head(q) \in Share(t) /\ state[Head(q)] = "queued"
             /\ \A i \in 1 .. Len(Tail(q)) : Tail(q)[i] # Head(q)
  <2>1. \A x \in Share(t) \ {Head(q)} : state[x] = state[x] OBVIOUS
  <2> QED BY <1>1, <1>4, <2>1, TailOnce
<1>5. ASSUME Head(q) # NoHost, NEW st,
             \A x \in Share(t) \ {Head(q)} : st[x] = state[x]
      PROVE  QueuedOnce(Tail(q), t, st)
  BY <1>1, <1>5, TailOnce
<1>6. ASSUME Head(q) # NoHost
      PROVE  Head(q) \in Asked /\ Head(q) \in Nat /\ Head(q) \in pending[t]
  BY <1>1, <1>4, <1>6, Shares DEF TypeOK, ThreadOK, Accounted
<1> QED BY <1>2, <1>3, <1>4, <1>5, <1>6 DEF q, First

\* An empty place, or no free connection: only the queue and the place of the
\* thread change.
LEMMA PassStep ==
  ASSUME IInv, NEW t \in Threads, Skip(t) \/ Again(t)
  PROVE  IInv'
<1>1. /\ Dequeues(t)
      /\ UNCHANGED <<opt, main, next, finished, quit, intr, ret, stopped, state,
                     pending, resps, phr, todo, missed, starting, jobs, wire, tick,
                     stranded, timer, lost>>
  BY DEF Skip, Again, mainVars, phrVars, dnsVars
<1>2. ThreadOK(t) /\ TypeOK
  BY DEF IInv
<1>3. PICK p \in {"deq", "wait", "ended"} : pc' = [pc EXCEPT ![t] = p]
  <2>1. CASE Skip(t)
    <3>1. pc' = [pc EXCEPT ![t] = "deq"] BY <1>2, <2>1 DEF Skip, Dequeues, TypeOK
    <3> QED BY <3>1
  <2>2. CASE Again(t) BY <2>2 DEF Again, Loop
  <2> QED BY <2>1, <2>2
<1>4. PICK r \in Seq(Nat) : queue' = [queue EXCEPT ![t] = r] /\ QueuedOnce(r, t, state)
  <2>1. CASE Skip(t)
    BY <1>1, <2>1, Dequeued DEF Skip
  <2>2. CASE Again(t)
    <3>1. First(t) # NoHost BY <2>2 DEF Again
    <3>2. \A x \in Share(t) \ {First(t)} : state[x] = state[x] OBVIOUS
    <3> DEFINE r == Append(Tail(queue[t]), First(t))
    <3>3. r \in Seq(Nat) /\ QueuedOnce(r, t, state)
      BY <1>1, <3>1, <3>2, Dequeued, AppendOnce
    <3>4. queue' = [queue EXCEPT ![t] = r] BY <2>2 DEF Again
    <3> HIDE DEF r
    <3> QED BY <3>3, <3>4
  <2> QED BY <2>1, <2>2
<1>5. pc[t] = "deq" /\ starting[t] = NoHost
  BY <1>1, Dequeued
<1>6. queue' \in [Threads -> Seq(Nat)] /\ queue'[t] = r /\ pc'[t] = p
  BY <1>2, <1>3, <1>4 DEF TypeOK
<1>7. TypeOK'
  <2>1. pc' \in [Threads -> Places] BY <1>2, <1>3 DEF TypeOK, Places, Returns
  <2> QED BY <1>1, <1>2, <1>6, <2>1, Fixed DEF TypeOK
<1>8. OnlyThread(t)
  BY <1>1, <1>2, <1>3, <1>4, <1>5 DEF OnlyThread, TypeOK
<1>9. Accounted(t)' /\ Cancelling(t)' /\ Starting(t)'
  BY <1>1, <1>2, <1>5, <1>6, Fixed DEF ThreadOK, Accounted, Cancelling, Starting
<1>10. LookedUpOnce(jobs[t], wire[t], t, state)'
  BY <1>1, <1>2, Fixed DEF ThreadOK, LookedUpOnce
<1>11. QueuedOnce(queue[t], t, state)'
  BY <1>1, <1>4, <1>6, Fixed DEF QueuedOnce
<1> QED BY <1>7, <1>8, <1>9, <1>10, <1>11, LocalStep DEF ThreadOK

\* The queue when a subrequest is started, and its state becomes v.
LEMMA Started ==
  ASSUME IInv, NEW t \in Threads, Starts(t), NEW v \in States,
         state' = [state EXCEPT ![First(t)] = v]
  PROVE  /\ queue' \in [Threads -> Seq(Nat)]
         /\ \A u \in Threads \ {t} : queue'[u] = queue[u]
         /\ QueuedOnce(queue'[t], t, state')
         /\ state' \in [Asked -> States]
         /\ \A x \in Asked : state'[x] = IF x = First(t) THEN v ELSE state[x]
<1>1. TypeOK /\ Dequeues(t) /\ First(t) # NoHost
  BY DEF IInv, Starts
<1>2. queue' = [queue EXCEPT ![t] = Tail(queue[t])]
  BY <1>1 DEF Starts, TypeOK
<1>3. First(t) \in Asked /\ Tail(queue[t]) \in Seq(Nat)
  BY <1>1, Dequeued
<1>4. /\ state' \in [Asked -> States]
      /\ \A x \in Asked : state'[x] = IF x = First(t) THEN v ELSE state[x]
  BY <1>1, <1>3 DEF TypeOK
<1>5. queue' \in [Threads -> Seq(Nat)] /\ queue'[t] = Tail(queue[t])
  BY <1>1, <1>2, <1>3 DEF TypeOK
<1>6. \A x \in Share(t) : x \in Asked
  BY Shares DEF IInv, TypeOK
<1>7. QueuedOnce(Tail(queue[t]), t, state')
  <2>1. \A st : (\A x \in Share(t) \ {First(t)} : st[x] = state[x])
                 => QueuedOnce(Tail(queue[t]), t, st)
    BY <1>1, Dequeued
  <2>2. \A x \in Share(t) \ {First(t)} : state'[x] = state[x]
    BY ONLY <1>4, <1>6
  <2> QED BY ONLY <2>1, <2>2
<1> QED BY <1>2, <1>4, <1>5, <1>7

\* A subrequest gets a connection.
LEMMA LaunchStep ==
  ASSUME IInv, NEW t \in Threads, Launch(t)
  PROVE  IInv'
<1> DEFINE h == First(t)
<1>1. /\ Starts(t) /\ state' = [state EXCEPT ![h] = "active"]
      /\ UNCHANGED <<opt, main, next, finished, quit, intr, pc, ret, stopped, pending,
                     resps, phr, todo, missed, starting, jobs, wire, tick, stranded,
                     timer, lost>>
  BY DEF Launch, Starts, mainVars, phrVars, dnsVars
<1>2. ThreadOK(t) /\ TypeOK /\ \A x \in Share(t) : x \in Asked
  BY Shares DEF IInv, TypeOK
<1>3. h \in Share(t) /\ state[h] = "queued" /\ pc[t] = "deq"
  BY <1>1, Dequeued DEF Starts
<1>4. /\ queue' \in [Threads -> Seq(Nat)]
      /\ \A u \in Threads \ {t} : queue'[u] = queue[u]
      /\ QueuedOnce(queue'[t], t, state')
      /\ state' \in [Asked -> States]
      /\ \A x \in Asked : state'[x] = IF x = h THEN "active" ELSE state[x]
  BY <1>1, Started DEF States
<1> HIDE DEF h
<1>5. TypeOK'
  BY <1>1, <1>2, <1>4, Fixed DEF TypeOK
<1>6. OnlyThread(t)
  BY <1>1, <1>2, <1>3, <1>4 DEF OnlyThread
<1>7. Accounted(t)'
  <2>1. \A x \in Share(t) : state'[x] = "over" <=> state[x] = "over"
    BY <1>2, <1>3, <1>4
  <2> QED BY <1>1, <1>2, <2>1, Fixed DEF ThreadOK, Accounted
<1>8. Cancelling(t)'
  BY <1>1, <1>2 DEF ThreadOK, Cancelling
<1>9. Starting(t)'
  <2>1. \A x \in Share(t) : state'[x] = "none" => state[x] = "none"
    BY <1>2, <1>4
  <2> QED BY <1>1, <1>2, <2>1, Fixed DEF ThreadOK, Starting
<1>10. LookedUpOnce(jobs[t], wire[t], t, state)'
  <2>1. \A x \in Share(t) : state[x] \in Looked => state'[x] \in Looked
    BY <1>2, <1>3, <1>4 DEF Looked
  <2>2. LookedUpOnce(jobs[t], wire[t], t, state')
    BY <1>2, <2>1, LookedUpKept DEF ThreadOK
  <2> QED BY <1>1, <2>2, Fixed DEF LookedUpOnce
<1>11. QueuedOnce(queue[t], t, state)'
  BY <1>1, <1>4, Fixed DEF QueuedOnce
<1> QED BY <1>5, <1>6, <1>7, <1>8, <1>9, <1>10, <1>11, LocalStep DEF ThreadOK

\* A subrequest cannot be sent.
LEMMA LaunchFailsStep ==
  ASSUME IInv, NEW t \in Threads, LaunchFails(t)
  PROVE  IInv'
<1> DEFINE h == First(t)
<1>1. /\ Starts(t) /\ Callback(t, h, "deq") /\ state' = [state EXCEPT ![h] = "over"]
      /\ UNCHANGED <<opt, main, next, finished, quit, intr, stopped, starting, jobs,
                     wire, tick, stranded, timer, lost>>
  BY DEF LaunchFails, Callback, Starts, mainVars, dnsVars
<1>2. /\ h \in Share(t) /\ h \in pending[t]
      /\ pc[t] = "deq" /\ starting[t] = NoHost
  BY <1>1, Dequeued DEF Starts
<1>3. /\ queue' \in [Threads -> Seq(Nat)]
      /\ \A u \in Threads \ {t} : queue'[u] = queue[u]
      /\ QueuedOnce(queue'[t], t, state')
  BY <1>1, Started DEF States
<1>4. wire' = [wire EXCEPT ![t] = wire[t]] /\ "deq" \in Returns
  BY <1>1 DEF IInv, TypeOK, Returns
<1> HIDE DEF h
<1> QED BY <1>1, <1>2, <1>3, <1>4, CallbackStep

\* The name of a subrequest has to be looked up.
LEMMA StartLookupStep ==
  ASSUME IInv, NEW t \in Threads, StartLookup(t)
  PROVE  IInv'
<1> DEFINE h == First(t)
<1>1. /\ Starts(t) /\ state' = [state EXCEPT ![h] = "none"]
      /\ Submit(t, Append(jobs[t], h), "start", "deq")
      /\ \/ /\ pc'[t] = "start"
            /\ starting' = [starting EXCEPT ![t] = h] /\ UNCHANGED stranded
         \/ /\ pc'[t] # "start"
            /\ stranded' = [stranded EXCEPT ![t] = @ \union {h}]
            /\ UNCHANGED starting
      /\ UNCHANGED <<opt, main, next, finished, quit, intr, ret, stopped, pending,
                     resps, phr, todo, missed, tick, timer, lost>>
  BY DEF StartLookup, Starts, mainVars, phrVars
<1>2. ThreadOK(t) /\ TypeOK /\ \A x \in Share(t) : x \in Asked
  BY Shares DEF IInv, TypeOK
<1>3. /\ h \in Share(t) /\ h \in Asked /\ h \in Nat
      /\ state[h] = "queued" /\ pc[t] = "deq" /\ starting[t] = NoHost /\ todo[t] = {}
  BY <1>1, Dequeued DEF Starts
<1>4. /\ queue' \in [Threads -> Seq(Nat)]
      /\ \A u \in Threads \ {t} : queue'[u] = queue[u]
      /\ QueuedOnce(queue'[t], t, state')
      /\ state' \in [Asked -> States]
      /\ \A x \in Asked : state'[x] = IF x = h THEN "none" ELSE state[x]
  BY <1>1, Started DEF States
<1> HIDE DEF h
<1>5. /\ Append(jobs[t], h) \in Seq(Nat)
      /\ LookedUpOnce(Append(jobs[t], h), wire[t], t, state')
  <2>1. jobs[t] \in Seq(Nat) /\ LookedUpOnce(jobs[t], wire[t], t, state)
    BY <1>2 DEF TypeOK, ThreadOK
  <2>2. state[h] \notin Looked /\ state'[h] \in Looked
    BY <1>3, <1>4 DEF Looked
  <2>3. \A x \in Share(t) \ {h} : state'[x] = state[x]
    BY <1>2, <1>4
  <2> QED BY <1>3, <2>1, <2>2, <2>3, JobOnce
<1>6. /\ jobs' \in [Threads -> Seq(Nat)] /\ wire' \in [Threads -> SUBSET Asked]
      /\ \A u \in Threads \ {t} : jobs'[u] = jobs[u] /\ wire'[u] = wire[u]
      /\ LookedUpOnce(jobs'[t], wire'[t], t, state')
      /\ \/ pc' = [pc EXCEPT ![t] = "start"]
         \/ pc' = [pc EXCEPT ![t] = "deq"] /\ opt.refused # {}
  BY <1>1, <1>2, <1>5, Submits
<1>7. /\ pc' \in [Threads -> Places] /\ pc'[t] \in {"start", "deq"}
      /\ pc'[t] = "deq" => opt.refused # {}
      /\ \A u \in Threads \ {t} : pc'[u] = pc[u]
  BY <1>2, <1>6 DEF TypeOK, Places, Returns
<1>8. /\ starting' \in [Threads -> Nat] /\ stranded' \in [Threads -> SUBSET Asked]
      /\ \A u \in Threads \ {t} : starting'[u] = starting[u] /\ stranded'[u] = stranded[u]
      /\ stranded[t] \subseteq stranded'[t]
      /\ starting'[t] # NoHost => starting'[t] = h /\ pc'[t] = "start"
      /\ h \in {starting'[t]} \union stranded'[t]
      /\ stranded'[t] # {} => stranded[t] # {} \/ pc'[t] = "deq"
  <2>1. starting \in [Threads -> Nat] /\ stranded \in [Threads -> SUBSET Asked]
    BY <1>2 DEF TypeOK
  <2>2. CASE /\ pc'[t] = "start"
             /\ starting' = [starting EXCEPT ![t] = h] /\ UNCHANGED stranded
    BY <1>3, <2>1, <2>2
  <2>3. CASE /\ pc'[t] # "start"
             /\ stranded' = [stranded EXCEPT ![t] = @ \union {h}]
             /\ UNCHANGED starting
    BY <1>3, <1>7, <2>1, <2>3
  <2> QED BY <1>1, <2>2, <2>3
<1>9. TypeOK'
  BY <1>1, <1>2, <1>4, <1>6, <1>7, <1>8, Fixed DEF TypeOK
<1>10. OnlyThread(t)
  BY <1>1, <1>2, <1>3, <1>4, <1>6, <1>7, <1>8 DEF OnlyThread
<1>11. Accounted(t)'
  <2>1. \A x \in Share(t) : state'[x] = "over" <=> state[x] = "over"
    BY <1>2, <1>3, <1>4
  <2> QED BY <1>1, <1>2, <2>1, Fixed DEF ThreadOK, Accounted
<1>12. Cancelling(t)'
  BY <1>1, <1>2, <1>3, <1>7, <1>8 DEF ThreadOK, Cancelling
<1>13. Starting(t)'
  <2>1. \A x \in Share(t) : state'[x] = "none" => x = h \/ state[x] = "none"
    BY <1>2, <1>4
  <2>2. \A x \in Share(t) : state'[x] = "none" => x \in {starting'[t]} \union stranded'[t]
    <3>1. \A x \in Share(t) : x # NoHost BY <1>2, Shares DEF TypeOK
    <3>2. \A x \in Share(t) : state[x] = "none" => x \in stranded[t]
      BY <1>2, <1>3, <3>1 DEF ThreadOK, Starting
    <3> QED BY <1>8, <2>1, <3>2
  <2>3. stranded'[t] # {} => opt.refused # {}
    BY <1>2, <1>7, <1>8 DEF ThreadOK, Starting
  <2>4. starting'[t] # NoHost => starting'[t] \in Share(t) /\ pc'[t] = "start"
    BY <1>3, <1>8
  <2> QED BY <1>1, <2>2, <2>3, <2>4, Fixed DEF Starting
<1>14. QueuedOnce(queue[t], t, state)' /\ LookedUpOnce(jobs[t], wire[t], t, state)'
  <2>1. Share(t)' = Share(t)
    BY <1>1, Fixed
  <2>2. QueuedOnce(queue[t], t, state)'
    BY ONLY <1>4, <2>1 DEF QueuedOnce
  <2>3. LookedUpOnce(jobs[t], wire[t], t, state)'
    BY ONLY <1>6, <2>1 DEF LookedUpOnce
  <2> QED BY <2>2, <2>3
<1> QED BY <1>9, <1>10, <1>11, <1>12, <1>13, <1>14, LocalStep DEF ThreadOK

\* The other steps of a thread touch neither its hosts nor its look-ups.
LEMMA PlainStep ==
  ASSUME IInv, NEW t \in Threads,
         Run(t) \/ DeqEnds(t) \/ Wake(t) \/ Turned(t) \/ Answers(t)
  PROVE  IInv'
<1>1. PICK p \in {"deq", "ended", "wait", "answers"} : pc' = [pc EXCEPT ![t] = p]
  BY DEF Run, DeqEnds, Loop, Wake, Turned, Answers
<1>2. /\ pc[t] \in {"new", "deq", "wait", "events"}
      /\ UNCHANGED <<opt, main, next, finished, quit, intr, ret, queue, state, pending,
                     resps, phr, todo, missed, starting, jobs, wire, tick, stranded,
                     timer>>
  BY DEF Run, DeqEnds, Wake, Turned, Answers, mainVars, threadVars, phrVars, dnsVars
<1>3. TypeOK
  BY DEF IInv
<1>4. stopped' \in [Threads -> BOOLEAN] /\ lost' \in BOOLEAN
  BY <1>3 DEF Run, DeqEnds, Wake, Turned, Answers, TypeOK
<1>5. tick' \in [Threads -> BOOLEAN] /\ timer' \in [Threads -> BOOLEAN]
  BY <1>2, <1>3 DEF TypeOK
<1>6. p \in Places \ {"cancel"}
  BY DEF Places, Returns
<1> QED BY <1>1, <1>2, <1>4, <1>5, <1>6, QuietStep

-----------------------------------------------------------------------------
\* A step that leaves the threads' hosts, queues, maps and look-ups alone keeps
\* what ThreadOK says, if all it does to a thread is to make it.
LEMMA ThreadsKept ==
  ASSUME IInv, UNCHANGED <<opt, queue, state, pending, resps, phr, todo>>,
         UNCHANGED <<missed, starting, jobs, wire, stranded>>,
         \A t \in Threads : (pc'[t] = pc[t] /\ ret'[t] = ret[t])
                           \/ (pc[t] = "none" /\ pc'[t] = "new")
  PROVE  (\A t \in Threads : ThreadOK(t))'
<1> SUFFICES ASSUME NEW t \in Threads PROVE ThreadOK(t)'
  BY Fixed
<1>1. ThreadOK(t) BY DEF IInv
<1>2. QueuedOnce(queue[t], t, state)' /\ Accounted(t)'
  BY <1>1, Fixed DEF ThreadOK, QueuedOnce, Accounted
<1>3. Cancelling(t)'
  BY <1>1 DEF ThreadOK, Cancelling
<1>4. Starting(t)'
  BY <1>1, Fixed DEF ThreadOK, Starting
<1>5. LookedUpOnce(jobs[t], wire[t], t, state)'
  BY <1>1, Fixed DEF ThreadOK, LookedUpOnce
<1> QED BY <1>2, <1>3, <1>4, <1>5 DEF ThreadOK

\* srvr::run starts the next thread.
LEMMA StartStep == IInv /\ Start => IInv'
<1> SUFFICES ASSUME IInv, Start PROVE IInv' OBVIOUS
<1>1. /\ main = "start" /\ next <= opt.threads
      /\ pc' = [pc EXCEPT ![next] = "new"] /\ next' = next + 1
      /\ UNCHANGED <<opt, main, finished, quit, intr, ret, stopped, queue, state,
                     pending, resps, phr, todo, missed, starting, jobs, wire, tick,
                     stranded, timer, lost>>
  BY DEF Start, threadVars, phrVars, dnsVars
<1>2. opt.threads \in Nat /\ next \in Threads /\ Threads \subseteq Nat
  BY <1>1, OptTypes DEF IInv, TypeOK, Threads
<1>3. pc[next] = "none"
  BY <1>1, <1>2 DEF IInv, MainOK
<1>4. pc' \in [Threads -> Places]
  BY <1>1, <1>2 DEF IInv, TypeOK, Places
<1>5. TypeOK'
  <2>1. next' \in 1 .. opt.threads + 1 BY <1>1, <1>2 DEF Threads
  <2> QED BY <1>1, <1>4, <2>1, Fixed DEF IInv, TypeOK
<1>6. \A t \in Threads : pc'[t] = IF t = next THEN "new" ELSE pc[t]
  BY <1>1, <1>2 DEF IInv, TypeOK
<1>7. \A t \in Threads : (pc'[t] = pc[t] /\ ret'[t] = ret[t])
                        \/ (pc[t] = "none" /\ pc'[t] = "new")
  <2>1. ret' = ret BY <1>1
  <2> QED BY <1>3, <1>6, <2>1
<1>10. (\A t \in Threads : ThreadOK(t))'
  BY <1>1, <1>7, ThreadsKept
<1>8. \A t \in Threads : t >= next' => pc'[t] = "none"
  <2> SUFFICES ASSUME NEW t \in Threads, t >= next + 1 PROVE pc'[t] = "none"
    BY <1>1
  <2>1. t # next /\ t >= next BY <1>2
  <2> QED BY <1>1, <1>6, <2>1 DEF IInv, MainOK
<1>9. MainOK'
  BY <1>1, <1>8, Fixed DEF IInv, MainOK
<1> QED BY <1>5, <1>9, <1>10 DEF IInv

\* The other steps of the main thread, and the handler of SIGINT.
LEMMA MainStep ==
  ASSUME IInv,
         Go \/ Check \/ StopNext \/ Mark \/ Scan \/ Join \/ Interrupt \/ InterruptStop
  PROVE  IInv'
<1>1. UNCHANGED <<opt, pc, ret, queue, state, pending, resps, phr, todo, missed,
                  starting, jobs, wire, tick, stranded, timer>>
  BY DEF Go, Check, StopNext, Mark, Scan, Join, Interrupt, InterruptStop, mainVars,
         threadVars, phrVars, dnsVars
<1>2. opt.threads \in Nat \ {0} /\ Threads = 1 .. opt.threads
  BY OptTypes DEF IInv, TypeOK, Threads
<1>3. TypeOK'
  <2>1. stopped' \in [Threads -> BOOLEAN]
    BY <1>2 DEF Go, Check, StopNext, Mark, Scan, Join, Interrupt, InterruptStop, Stop,
                IInv, TypeOK
  <2>2. next' \in 1 .. opt.threads + 1
    BY <1>2 DEF Go, Check, StopNext, Mark, Scan, Join, Interrupt, InterruptStop,
                mainVars, IInv, TypeOK
  <2>3. intr' \in 0 .. opt.threads + 1
    BY <1>2 DEF Go, Check, StopNext, Mark, Scan, Join, Interrupt, InterruptStop,
                mainVars, IInv, TypeOK
  <2>4. main' \in Mains
    BY DEF Go, Check, StopNext, Mark, Scan, Join, Interrupt, InterruptStop, mainVars,
           IInv, TypeOK, Mains
  <2>5. finished' \in BOOLEAN /\ quit' \in BOOLEAN /\ lost' \in BOOLEAN
    BY DEF Go, Check, StopNext, Mark, Scan, Join, Interrupt, InterruptStop, mainVars,
           IInv, TypeOK
  <2> QED BY <1>1, <2>1, <2>2, <2>3, <2>4, <2>5, Fixed DEF IInv, TypeOK
<1>4. main' # "start" \/ (main' = main /\ next' = next)
  BY DEF Go, Check, StopNext, Mark, Scan, Join, Interrupt, InterruptStop, mainVars
<1>5. main' = "start" => \A t \in Threads : t >= next' => pc'[t] = "none"
  BY <1>1, <1>4 DEF IInv, MainOK
<1>6. ~quit' /\ intr' = 0 =>
        /\ ~quit /\ intr = 0
        /\ main' # "quit"
        /\ main' = "mark" => ~finished'
        /\ main' \in {"stop", "join", "done"} \/ (main' = "loop" /\ finished')
             => \/ main \in {"stop", "join", "done"} \/ (main = "loop" /\ finished)
                \/ \A t \in Threads : pending[t] = {}
  BY <1>2 DEF Go, Check, StopNext, Mark, Scan, Join, Interrupt, InterruptStop,
              mainVars, IInv, MainOK, TypeOK
<1>7. MainOK'
  BY <1>1, <1>5, <1>6, Fixed DEF IInv, MainOK
<1>8. (\A t \in Threads : ThreadOK(t))'
  <2>1. \A t \in Threads : pc'[t] = pc[t] /\ ret'[t] = ret[t] BY <1>1
  <2> QED BY <1>1, <2>1, ThreadsKept
<1> QED BY <1>3, <1>7, <1>8 DEF IInv

\* Every step keeps the invariant.
LEMMA NextIInv == IInv /\ [Next]_vars => IInv'
<1> SUFFICES ASSUME IInv, [Next]_vars PROVE IInv' OBVIOUS
<1>1. CASE Start BY <1>1, StartStep
<1>2. CASE Go \/ Check \/ StopNext \/ Mark \/ Scan \/ Join \/ Interrupt \/ InterruptStop
  BY <1>2, MainStep
<1>3. ASSUME NEW t \in Threads,
             Run(t) \/ DeqEnds(t) \/ Wake(t) \/ Turned(t) \/ Answers(t)
      PROVE  IInv'
  BY <1>3, PlainStep
<1>4. ASSUME NEW t \in Threads,
             Skip(t) \/ Again(t) \/ Launch(t) \/ LaunchFails(t) \/ StartLookup(t)
      PROVE  IInv'
  BY <1>4, PassStep, LaunchStep, LaunchFailsStep, StartLookupStep
<1>5. ASSUME NEW t \in Threads, UpsCancel(t) \/ Timeout(t) \/ LookupDone(t)
      PROVE  IInv'
  BY <1>5, UpsCancelStep, TimeoutStep, LookupDoneStep
<1>6. ASSUME NEW t \in Threads, AnswersDone(t) \/ DnsTimer(t) PROVE IInv'
  BY <1>6, SubmitStep
<1>7. ASSUME NEW t \in Threads, NEW h \in Share(t),
             Ended(t, h) \/ LookupFails(t, h) \/ Resolved(t, h)
      PROVE  IInv'
  BY <1>7, EndedStep, LookupFailsStep, ResolvedStep
<1>8. CASE UNCHANGED vars
  <2>1. UNCHANGED <<opt, main, next, finished, quit, intr, pc, ret, stopped, queue,
                    state, pending, resps, phr, todo, missed, starting, jobs, wire,
                    tick, stranded, timer, lost>>
    BY <1>8 DEF vars, mainVars, phrVars, dnsVars
  <2>2. TypeOK' BY <2>1, Fixed DEF IInv, TypeOK
  <2>3. MainOK' BY <2>1, Fixed DEF IInv, MainOK
  <2>4. (\A t \in Threads : ThreadOK(t))'
    <3>1. \A t \in Threads : pc'[t] = pc[t] /\ ret'[t] = ret[t] BY <2>1
    <3> QED BY <2>1, <3>1, ThreadsKept
  <2> QED BY <2>2, <2>3, <2>4 DEF IInv
<1> QED
  BY <1>1, <1>2, <1>3, <1>4, <1>5, <1>6, <1>7, <1>8 DEF Next, Main, Thread

\* The initial states: every thread has its share queued and pending.
LEMMA InitIInv == Init => IInv
<1> SUFFICES ASSUME Init PROVE IInv OBVIOUS
<1> USE DEF Init
<1>1. opt.threads \in Nat \ {0} /\ NumPer \in Nat /\ opt.timeout \in BOOLEAN
  BY OptTypes
<1>2. \A t \in Threads : t \in Nat /\ (t - 1) * NumPer \in Nat
                         /\ t * NumPer = (t - 1) * NumPer + NumPer
  BY <1>1 DEF Threads
<1> DEFINE lo(t) == (t - 1) * NumPer
           hi(t) == t * NumPer
<1>3. \A t \in Threads : /\ lo(t) \in Nat /\ hi(t) = lo(t) + NumPer
                         /\ Share(t) = (lo(t) + 1) .. hi(t)
  BY <1>2 DEF Share
<1>4. \A t \in Threads : queue[t] = [i \in 1 .. NumPer |-> lo(t) + i]
  OBVIOUS
<1>5. queue = [t \in Threads |-> queue[t]]
  OBVIOUS
<1> HIDE DEF lo, hi
<1>6. \A t \in Threads : Share(t) \subseteq Asked
  BY Shares
<1>7. ASSUME NEW t \in Threads
      PROVE  queue[t] \in Seq(Nat) /\ QueuedOnce(queue[t], t, state)
  <2>1. \A i \in 1 .. NumPer : lo(t) + i \in Nat /\ lo(t) + i \in Share(t)
    BY <1>1, <1>3
  <2>2. queue[t] \in [1 .. NumPer -> Nat]
    BY <1>4, <2>1
  <2>3. queue[t] \in Seq(Nat) /\ Len(queue[t]) = NumPer
    BY <1>1, <2>2
  <2>4. \A i \in 1 .. NumPer : queue[t][i] = lo(t) + i
    BY <1>4
  <2>5. \A i, j \in 1 .. NumPer : lo(t) + i = lo(t) + j => i = j
    BY <1>1, <1>3
  <2>6. \A x \in Share(t) : state[x] = "queued"
    BY <1>6
  <2> HIDE DEF Init
  <2>7. QueuedOnce(queue[t], t, state)
    BY <2>1, <2>3, <2>4, <2>5, <2>6 DEF QueuedOnce
  <2> QED BY <2>3, <2>7
<1>8. queue \in [Threads -> Seq(Nat)]
  BY <1>5, <1>7
<1>9. TypeOK
  <2>1. /\ main \in Mains /\ next \in 1 .. opt.threads + 1
        /\ intr \in 0 .. opt.threads + 1
    BY <1>1 DEF Mains
  <2>2. /\ pc \in [Threads -> Places] /\ state \in [Asked -> States]
        /\ resps \in [Asked -> Nat]
    BY DEF Places, States
  <2>3. /\ ret \in [Threads -> Returns]
        /\ phr \in [Threads -> {"idle", "done"}]
        /\ pending \in [Threads -> SUBSET Asked]
        /\ todo \in [Threads -> SUBSET Asked]
    BY <1>6 DEF Returns
  <2>6. /\ starting \in [Threads -> Nat] /\ missed \in [Threads -> Nat]
        /\ jobs \in [Threads -> Seq(Nat)] /\ wire \in [Threads -> SUBSET Asked]
        /\ stranded \in [Threads -> SUBSET Asked] /\ tick \in [Threads -> BOOLEAN]
    BY DEF NoHost
  <2>4. /\ timer \in [Threads -> BOOLEAN] /\ stopped \in [Threads -> BOOLEAN]
    BY <1>1
  <2>5. /\ opt \in Options /\ finished \in BOOLEAN /\ quit \in BOOLEAN
        /\ lost \in BOOLEAN
    OBVIOUS
  <2> HIDE DEF Init
  <2> QED BY <1>8, <2>1, <2>2, <2>3, <2>4, <2>5, <2>6 DEF TypeOK
<1>10. ASSUME NEW t \in Threads
       PROVE  /\ Accounted(t) /\ Cancelling(t) /\ Starting(t)
              /\ LookedUpOnce(jobs[t], wire[t], t, state)
  BY <1>6 DEF Accounted, Cancelling, Starting, LookedUpOnce
<1>11. MainOK BY DEF MainOK
<1> QED BY <1>7, <1>9, <1>10, <1>11 DEF IInv, ThreadOK

\* The invariant of the parallel client: every thread's queue, the jobs of its
\* resolver, its map of pending hosts and the list of answers agree in every
\* reachable state, also while a look-up that is given up calls back in the
\* middle of a start, and the main thread does not go on while a host is
\* pending.
THEOREM Invariance == Spec => []IInv
BY InitIInv, NextIInv, PTL DEF Spec

\* Every host that was asked has exactly one answer once it is not pending any
\* more, whichever of its answer, its error, the time-out and the cancellation
\* of ups_cancel came first, for every command line; ups_cancel leaves nothing
\* pending but the host whose start called it back, and those whose start a
\* refused name made fail; and a program that ends of its own accord has heard
\* of all hosts.
THEOREM AskedAnsweredOnce == Spec => []AnsweredOnce
<1>1. IInv => AnsweredOnce
  <2> SUFFICES ASSUME IInv PROVE AnsweredOnce OBVIOUS
  <2>1. \A t \in Threads : \A h \in Share(t) :
          resps[h] = IF h \in pending[t] THEN 0 ELSE 1
    BY DEF IInv, ThreadOK, Accounted
  <2>2. \A t \in Threads :
          /\ phr[t] = "done" => pending[t] \ todo[t] \subseteq {missed[t]} \union stranded[t]
          /\ \A h \in Share(t) : state[h] = "none" => h \in {starting[t]} \union stranded[t]
          /\ stranded[t] # {} => opt.refused # {}
    BY DEF IInv, ThreadOK, Cancelling, Starting
  <2>3. ASSUME main \in {"stop", "join", "done"}, ~quit, intr = 0, NEW h \in Asked
        PROVE  resps[h] = 1
    <3>1. PICK t \in Threads : h \in Share(t)
      BY Shares DEF IInv, TypeOK
    <3>2. pending[t] = {}
      BY <2>3 DEF IInv, MainOK
    <3> QED BY <2>1, <3>1, <3>2
  <2> QED BY <2>1, <2>2, <2>3 DEF AnsweredOnce
<1> QED BY <1>1, Invariance, PTL
=============================================================================
