# hlx in TLA+

hlx is a library for event-driven HTTP servers and clients in C++, with three
programs on top of it (hurl, a load generator; phurl, a parallel client; fsurv,
a file server).  This directory holds models of its core, the TLC runs that
check them, and proofs about them.  `PROJECT.json` says, for every definition
that models code, which lines it models.

## The system

A server (`srvr`) starts a number of threads (`t_srvr`).  Each thread owns
everything it works with, so most of the system is sequential code driven by
callbacks: what is hard is the order in which events, timers, cancellations and
answers reach it.  Shared between threads are only the name cache, the
subrequest ids, the statistics that are copied under a lock, the stop flag,
and, in the programs, their counters and lists of pending hosts.

    kernel -> evr_loop -> lsnr / clnt_session / ups_srvr_session -> nconn -> nbq
                |                 |                  |
              timers           handlers  -> subr -> t_srvr queue -> nconn_pool -> nlru
                              (proxy, file, phurl)       |
                                                     nresolver / ai_cache

| component | state | operations | what makes it correct |
|---|---|---|---|
| `nlru` | list of idle connections by age, three indexes by id and label | insert, get by label, remove by id, evict | the indexes agree; it is an LRU cache of bounded size |
| `obj_pool` | all objects, used and free indexes | get_free, add, release | an object has one user |
| `nconn_pool` | active connections by label and their number, the idle cache, the objects | get_new_active, get_idle, add_idle, release, evict_all_idle | each connection is in one place; the number of connections is bounded |
| `evr_loop`, `evr_epoll` | queue of timers, kernel queue | add/cancel timer, add/mod fd, run, signal | a timer fires once, not after it was cancelled; the wait ends in time; no pointer to a deleted timer is used |
| `nbq` | blocks, a write place, a read place | write, read, seek, rewind, reset, shrink, filling from and draining to descriptors | it is a byte queue; the counters agree with the pointers |
| `nconn` (tcp, tls) | connection state, descriptor, events it waits for | connect, accept, handshake, read, write, cleanup | the event a connection needs can still come; everything queued is sent; a close is noticed |
| `clnt_session` | connection, request, queues, upstream object, timer | accept, read, write, time-out, teardown | one response per request, its own; a connection is kept only when the response was sent |
| `ups_srvr_session` | connection, response, subrequest, queues, timer | start, read, write, time-out, completion, error, idle | a subrequest ends once; its queues have one user |
| `subr` | state, counts asked for / requested / completed | queue, start, cancel, complete | no callback after cancel; what is queued is started |
| `t_srvr` | subrequest queue, output queue, pools | run, subr_add, try_deq, queue_output, cleanups | no subrequest and no client is forgotten |
| `nresolver`, `ai_cache` | cache shared by threads, look-up jobs | tryfast, inline, sync, async, callbacks | a cached address is not used after it is deleted; each look-up ends |
| `hmsg`, `rqst`, `resp`, `cb` | where in the queue the parts of a message are, flags | the callbacks of `http_parser`, init, getters | what is noted is what was sent, however it was cut into pieces; a message is taken when its last byte is there |
| `proxy_h`, `file_h`, `phurl_h` | upstream objects of a client session | do_get, ups_read, ups_cancel, error and completion callbacks | the response is passed on whole, and cancelled once |
| `url_router` | trie of routes | add_route, find_route | the route found is one that was added and matches |
| `srvr` | threads, listeners | run, stop, wait_till_stopped | all threads stop |
| hurl | counters of requests and paths | callbacks of subrequests | the requests asked for are made |
| phurl | hosts pending and answered, by thread | command_exec, callbacks, signal handler | each host is answered once; the program ends |

Hard behaviours, in the order in which they matter: reuse of objects whose old
users still hold pointers or have events, queue entries or timers pending;
completion, error, time-out and cancellation of one request in any order;
edge-triggered descriptors (what is not read or written at once waits for another
edge); counters at block and pool boundaries; the few things threads share.
`PROJECT.json` lists each as a hazard at its line, with the properties that
cover it or the reason why none does.

## Modules

| module | models | state and actions |
|---|---|---|
| `LruOps` | what a call of `nlru` returns and leaves, on a function from ids to entries | operators |
| `LruSpec` | specification of a bounded LRU cache | one action per call |
| `Nlru` | `nlru.h`: the list, its size and its indexes | refines `LruSpec` |
| `ConnLedger` | specification of the pool: a place (unused, in use, idle, lost) for each connection | one action per call |
| `NconnPool` | `nconn_pool.cc` with `obj_pool.h` and the cache as in `LruOps` | its variables are the members of the pool; one action per public function; refines `ConnLedger` |
| `Evr` | `evr.cc`: the queue of timers and the steps of `run()` | `queue` is `m_timer_pq`, `pc` the place in `run()` and `t_run()` |
| `IdleTimers` | `Evr` with what sessions do to their timers | `st`, `timerObj`, `idleFor` per connection; one action per callback |
| `ByteQueue` | specification of a byte queue with a place that moves back | one action per kind of call |
| `Nbq` | `nbq.cc` with `nc_read` and `nc_write` of `nconn.cc` | the record `q` has the members; one action per public function, whose loop is a turn and the number of turns that are enough for it; refines `ByteQueue` |
| `SubrQueue` | `subr.cc`, the queue of `t_srvr`, the look-ups of `nresolver.cc`, what sessions and clients do to subrequests, hurl's counters | the record `t` is the thread (its fields are the members of `t_srvr`, and by subrequest those of `subr`); operators map thread to thread, one for each function called from a handler; one action per handler |
| `ClntSession` | `clnt_session.cc`, `ups_srvr_session.cc`, `proxy_h.cc`, `file_h.cc`, and of `t_srvr.cc` the output queue and the cleanups: how responses get to clients | as `SubrQueue`; the content of a block queue is a sequence of items, each a piece of the response to one request |
| `Nconn` | `nconn.cc`, `nconn_tcp.cc`, `nconn_tls.cc`, `evr_epoll.cc` and what the two kinds of session do with a connection: its state, its descriptor in an edge-triggered queue, its handshake | the record `x` is the connection with its socket and its peer; one action per step of the batch, of the rest of `t_run`, of the kernel and of the peer |
| `Resolver` | `nresolver.cc` and `ai_cache.cc` as all threads use them: the lock, the map, the addresses in memory | `at[t]` is where a thread is; one action between two accesses of what is shared |
| `HttpMsg` | `cb.cc`, `hmsg.cc`, `rqst.cc`, `resp.cc`, `nc_read`, what `http_parser` keeps between pieces, and what sessions do when something was read | the record `h` is the message, `inside` the part that the parser was in, `read` a place in the queue; one action per turn of the loop of `nc_read`, per look of the session at the message, and per step of the peer |
| `UrlRouter` | `url_router.cc`: text to pattern, pattern arithmetic, the trie | pure operators, one per function; `add_route` is the action |
| `Phurl` | `phurl.cc`, `phurl_h.cc`, `srvr.cc`, of `t_srvr.cc` run, stop and the queue, and of `nresolver.cc` the look-ups of a thread with their timer: a main thread, server threads, a signal handler | one action per place where another thread or the handler may get in between, or a callback may come: a start that calls `lookup_async`, and `ups_cancel`, are steps in whose middle others come |
| `NconnPoolProofs`, `IdleTimersProofs`, `SubrQueueProofs`, `ClntSessionProofs`, `NconnProofs`, `PhurlProofs` | | the theorems about the module of that name |
| `CacheProofs` | | the theorems about the two caches, `Nlru` and `Resolver` |
| `MessageProofs` | | the theorems about the way of a message, `Nbq` and `HttpMsg` |
| `MC*` | | constants, symmetry and views of the runs |

The modules meet at the objects they share.  A subrequest in `ClntSession` is
queued, active or over, which is the life that `SubrQueue` has in full; in `Phurl` it
is looked up as well, with what `SubrQueue` has of the resolver, because a look-up
that is given up in the middle of the start of another subrequest may end all of
them; an end of a session in `SubrQueue` may come at any time, which is what
`Nconn`, `ClntSession` and `IdleTimers` have in full.  What is one step there, that a
request or a response was read, is `HttpMsg`.  `Nconn` sends what is queued
whole, as all callers queue it, so that the stop of `nc_write` at an exhausted
block, which `Nbq` has, does not come up.

Operators named as mutants in their comments are plausible mistakes in the
definition that follows them; each property has one that violates it, which
shows that the property depends on the code.

## What the runs show

* `nlru`: with capacity 2 and every sequence of calls, the three indexes, the
  list and its counter agree (`IndexesAgree`), and the cache is the one of
  `LruSpec` (`ImplementsLru`).  Two is the least capacity with an oldest and a
  newest entry; three items and two labels fill it with one more to insert.
* `pool`: every sequence of pool calls on two labels of different schemes, up to
  5 objects and 3 cache ids, capacities 2 and 2.  A connection is never in the
  hands of two clients or idle while in use (`NoAliasing`, `ActiveIsHeld`); the
  pool holds at most what `PoolBound` says.  It implements `ConnLedger`
  (`ImplementsLedger`), where each call moves connections between places and only
  `release` may lose one, once.  5 objects let both pools be full with one more
  to create; ids 0 to 2 let the cache of two evict its oldest.
* `idle_timers`: one client and two upstream connections, four timers, time-outs
  of 2 and 1 ms.  The timers that may fire are exactly those of the sessions
  that exist, one each, although addresses are reused (`OneTimerEach`); each
  fires before or when its session has been idle long enough
  (`CheckedInTime`), the loop is awake by then (`WaitCoversTimers`), and a
  session is active again and again or goes away (`IdleKilled`).  Four
  timers are one for each session and a cancelled one that is still queued.
* `nbq`: blocks of two bytes, up to three of them, calls of up to three bytes,
  so that every call may start, end or cross at a block boundary.  The queue is
  the one of `ByteQueue`: bytes come out once and in order through `read`,
  `read_from` and `nc_write`, rewinding finds the beginning, `shrink` drops
  only what was read, and a position asked for is found as long as the read
  offset is right, which it is until a read goes on to another block.
  `CountersAgree` ties the room and what is available to the pointers.
* `subr_queue`: two settings of a thread.  In one, two clients of a proxy make up to
  three requests in all, for two servers, over one connection at a time and one
  look-up at a time; they may go away in any state of their subrequest, whose
  address is then used again.  Two clients are one that is being served and one
  that waits; the third request has the address of a subrequest that is gone
  while its look-up is still on the way.  In the other, hurl has one subrequest, to
  be requested four times over two connections, with look-ups that block.  The
  state in a subrequest, by which `cancel` decides what to undo, is always the truth
  (`QueuedIsListed`, `CancelFindsIt`); no request is forgotten between the queue, the
  resolver and a connection, and look-ups on the wire have a timer
  (`NothingIsLost`); every request comes to its end, answered or not
  (`EveryRequestEnds`), unless its look-up is starved (below).  hurl's subrequest is
  in the queue once, as long as there is something to request (`DupeStaysQueued`),
  although it is put back from three places, and the loop over the queue ends
  although failures put the subrequest back into it (`DeqTerminates`).
* `http_msg`: requests without a body, with one, with a chunked one, and with one that
  is kept until 100 Continue; responses with and without a length, chunked, to HEAD,
  after an interim one, saved or not; two of them on each connection.  Blocks have
  five bytes and the peer sends as many bytes as it likes at a time, so that every
  message is cut everywhere.  A handler is given what was sent (`AsSent`); a message is
  taken at its last byte and a request is not lost (`TakenWhole`); who waits for 100
  Continue gets it (`ContinueIsSent`); and what was sent is taken (`SentIsTaken`).
  The exceptions are listed below.
* `clnt_session`: two clients, two upstream sessions, a proxy, files, and
  responses made at once, connections that are kept or not, clients that leave,
  time out or whose socket is full at any moment.  The output queue holds
  connections, not requests: one may be closed, and accepted for another client,
  before its turn.  Still, what is sent to a client answers its own request
  (`OwnResponse`), no block queue has two users although sessions go back to
  their pool with theirs (`OneUserPerQueue`), a session in flight works for a
  client that waits for it (`WorksForClient`), a connection is kept only when
  the last piece was sent (`KeptWhenAnswered`), and a client that waits is in
  somebody's care (`InCare`), but for the two cases below and for queues that a
  session brought along (`brought`, below): upstream connections are kept here,
  so that a session may go back to its pool with the queue of a client.  Two
  requests let one response meet what the one before left; files of two parts
  and a queue of one item make a response come in pieces; eight queues are never
  used up.
* `nconn`: one connection object, accepted or opened, TCP or TLS, over and over,
  with a send buffer of two units, messages of up to three and handshakes of up
  to three, so that everything may block in the middle.  When the descriptor
  sleeps, what the connection needs is not there (`NoLostWakeup`); a
  descriptor is open exactly while it is registered and has a user
  (`OpenIsRegistered`); the server closes on a client only with reason
  (`NotClosedUnasked`); what is to be sent is sent (`EverythingIsSent`), and the
  end of a connection is noticed (`CloseIsNoticed`).  The exceptions that the
  properties name are listed below.
* `resolver`: two threads, a name and a literal address, four places of memory,
  every setting of `m_dns_use_sync` and `m_use_cache`.  Two threads are in
  the cache at once only if one of them enters it without the lock
  (`ClashIsInline`: nresolver.cc:396); what a thread copies after the unlock is
  an address of its own host, not deleted, unless its time was over meanwhile
  (`CopyIsOwn`); the cache holds no address that is deleted, foreign, or about to
  be deleted, and none is forgotten (`CacheIsSound`); and a look-up ends
  (`LookupEnds`).  Four places are one cached and one fresh address for each
  thread.
* `url_router`: every sequence of four additions out of fourteen routes, which
  share prefixes, repeat each other, and have names and stars in all places, also
  where they are refused; twelve urls.  A look-up finds only what trying every
  route would find, with the values that its names stand for (`FoundIsAdded`), the
  nodes stay a tree, so that what is deleted with its edge is deleted once, and plain
  routes are kept as they were added (`PlainIsKept`).  Four routes cut
  an edge, cut one of its halves, and go on below it.
* `url_found` (a violation of `AddedIsFound`): see `PROJECT.json`, findings.
* `phurl`: one thread with three hosts, two connections and a ratio of 60 percent;
  one with two hosts, one connection and a time-out; one with three hosts, of which
  udns refuses the third, and a time-out; two threads that look names up on the spot
  (`-n`), and a host that nobody asks.  A thread has two look-ups on the wire, so that
  three hosts are one that waits while the others are given up.  The user may quit and
  the signal may come at any point.  Each host is answered once (`AnsweredOnce`),
  although the answer, an error, a failed look-up, the time-out and the cancellation
  of the others compete for it.  When `ups_cancel` has returned, nothing is pending but
  the host in whose start it was called (`missed`) and hosts whose start failed
  (`stranded`).  The program ends (`Ends`) unless a stop or an interrupt was
  overwritten (`lost`), or a host is never heard of, which takes a refused name, or
  more hosts than may be looked up at a time.

## Where the code departs from what one would expect

Met while modelling; each model has them as the code does, and a property that
they would break names them as its exception.  Only the first is a run of its own.

* `url_router.cc:1011` takes the length of the common prefix from the last edge,
  not the best (`url_found`).  Also: `connect` finds an equal edge and forgets the
  new node; `pattern_sub` loses a star at the offset; routes with the same name
  at a place where one of them goes on are cut apart in the wrong place
  (`Misaligned`, the exception of `FoundIsAdded`); a refused addition has already
  cut edges.
* `nconn_pool.cc:143`: `get_active_available` is an unsigned difference, and
  `get_idle` does not look at the maximum, so the result may be near 2^64 just
  when there is none available.  `PoolBound` is therefore more than the maximum.
* `nconn_pool.cc:377`: a connection that was never idle carries cache id 0, the id
  of the first that was; releasing it loses that one (`ConnLedger` allows it, and
  `PoolAtMostOneOrphan` proves that it happens once).
* `nconn.cc:373`: `nc_write` takes an exhausted block for the end of the queue.
* `nbq.cc:471`: a read that goes on to another block advances the offset twice, so
  that `read_seek` then misses.
* `nconn_tcp.cc:366`: when a write would block, the descriptor waits for WRITE, and
  an upstream connection is never set back to READ (the exception of
  `NoLostWakeup`); over TLS it does not wait for the close of the peer either
  (nconn_tls.cc:722, the exception of `CloseIsNoticed`).
* A TLS handshake that is completed by a write callback is followed by the part of
  the client session that closes after a response (the exception of
  `NotClosedUnasked`).
* `ups_srvr_session.cc:473`: a response that ends with its connection leaves the
  client waiting for its idle timer when its last piece had been sent before,
  and so does an empty file (`file_h.cc:343`): the exceptions of `InCare`.
  base_u.h:59 says "Signal upstream was shutdown" of a flag that is only looked at
  when the client is written to (clnt_session.cc:610), for which nothing queues it.
* `ups_srvr_session.cc:399`, "Give back rqst + in q": an input queue that the proxy has
  passed on to a client is not given back, and when the connection is kept, its
  session goes to its pool (`ups_srvr_session.cc:500`) still pointing to it.  The
  next request that gets this session resets that queue and reads its response into
  it (`t_srvr.cc:821`), whoever has it by then: two clients may get the response of
  one.  These queues (`brought` in `ClntSession`) are the exceptions of
  `OneUserPerQueue`, `OwnResponse` and `KeptWhenAnswered`.  The flag `m_in_q_detached`
  is never reset, so that a later queue of the session may be given to nobody.
* `ups_srvr_session.cc:470`: a complete response on a connection that cannot be
  kept completes its subrequest twice.  hurl counts both (hurl.cc:452), so that
  `-f` ends before the number of fetches; phurl is not affected, because it
  detaches the response (phurl.cc:1044).
* `nresolver.cc:656`: when an older look-up is refused, the error goes to the
  subrequest being started, whose own job waits on and later calls back a
  subrequest that may be deleted.  `SubrQueue` has it with SubmitFails = TRUE,
  where `CancelRemoves` fails.  udns refuses names with an empty or a long label
  (`a..b`, or more than 63 bytes between two dots; udns_dn.c:84).  `SubrQueue` is
  instantiated for hurl, which does not use udns (hurl.cc:1071), and for a proxy, which
  asks for the hosts of its configuration; phurl's user may give any, and `Phurl` has them (`refused`): no callback tells of
  the failed start, so that phurl waits for ever, with `-Q` too, because
  `subr::cancel` passes over a subrequest without a state (subr.cc:1450).  These
  hosts are the exception of `AnsweredOnce` and `Ends`.
* `nresolver.cc:682`: `lookup_async` gives up old look-ups, which call back at once,
  in the middle of the start of a subrequest that has left the queue and has no
  state.  If that leads to `ups_cancel`, the subrequest is not cancelled, and is
  looked up, and asked, after all: the other exception of `AnsweredOnce`.
* `nresolver.cc:701`: the timer of the resolver is set by the look-ups on the wire;
  when all of these are given up in one call, nothing submits those that wait
  until another subrequest needs a look-up (`Starved` in `SubrQueue`, an exception
  of `EveryRequestEnds`, and of `Ends`).
* `t_srvr.cc:642`: a name that was resolved is looked for in the cache again.  Without
  the cache (`-k`, and not `-n`) it is never found there, so that phurl looks it
  up for ever.  `LookupEnds` is about one pass of a look-up, and does not follow
  this; `Phurl` is about phurl with its cache.
* `t_srvr.cc:966`: a thread clears the stop flag when it starts, and a stop that
  came before is lost; `wait_till_stopped` then does not return.  `phurl.cc:750`:
  an interrupt between 736 and 750 is overwritten (the handler says "Kill program",
  phurl.cc:573).  Both are exceptions of `Ends` (`lost`).
* `phurl.cc:644`: hosts that remain when the list is divided by the number of
  threads are never asked.  The completion timer is never cancelled, because
  the object has no thread set, and fires as a no-op.  `phurl_h::do_default`
  fails when it got its subrequest (`phurl_h.cc:132`, the test is inverted).
* A read that ends in a url, or in the name or value of a header (or right after it),
  makes two pieces of it: `http_parser` calls back with each, `hp_on_url` keeps the
  last one (cb.cc:114), and `hp_on_header_field` and `hp_on_header_value` make a header
  of each (cb.cc:156, 191), so that `get_headers` (hmsg.cc:203) pairs the names and
  values that follow wrongly.  If the last piece of the url is empty the request is
  refused and the connection closed (clnt_session.cc:740).  Where the name Expect
  is cut no 100 Continue is sent (cb.cc:162), the exception of `ContinueIsSent`.  Nor is
  it when the name is not spelled with a capital E (same line, where `strncasecmp`
  follows): `HttpMsg` has such a name as an ordinary one.  It is sent also when the
  request is complete already (clnt_session.cc:542), and goes out with the byte that
  ends its string literal (clnt_session.cc:546, `sizeof`).
* The slice of a chunked body begins with its first byte and has as many as the body,
  but includes the heads of the chunks (cb.cc:236), so that its end is missing.
* `nconn.cc:300`: when a read filled the block to its end and the next finds the
  connection closed by the client, the session is told of the close only, and
  a complete request is not handled (an exception of `TakenWhole`).
* A response to HEAD that is not saved (`resp.cc:98`) waits for its time-out or the end
  of its connection, because only `hp_on_headers_complete`, which is then not
  registered, tells `http_parser` that no body comes.  An interim response
  completes the subrequest.  Both are exceptions of `TakenWhole` and `SentIsTaken`.
  After an interim response the connection is kept (ups_srvr_session.cc:358, 495) and
  may be used for another subrequest, which then gets the final response of the one
  before.  `HttpMsg` leaves this out: `NextSubr` waits until the response was read to
  its end, so what is shown of the next response holds if none was interim.
* `hurl.cc:860`: `random() * size / RAND_MAX` is `size` when `random()` is `RAND_MAX`.
* `nresolver.cc:688`: the loop that deletes old jobs has its condition inverted.

## Bounds and fairness

All unbounded things have a bound named in the module: objects, ids and widths in
`NconnPool`; timers (addresses) in `IdleTimers`, where a session is opened only if
one is left over for arming again, because memory is not what is being modelled;
blocks, bytes per call and the read offset in `Nbq`; connections, nodes of the
queue, look-up jobs, requests and names that expire in `SubrQueue` (the first three
are as many as the requests allowed can use, so that the guards never decide in the
runs; the theorems hold also where they do, because a step that needs an object when
none is left is not taken); block queues, items of a queue and requests in
`ClntSession` (where no step is taken that needs a queue when none is left,
`QueuesLeft`); units of data in `Nconn` and bytes of a block in `HttpMsg`; places of
memory in `Resolver`; additions in `UrlRouter`.  `Phurl` has no bounds: the command
lines it is given are finite, and `MaxParallel`, the look-ups a thread has at a time, is
100 in the code (`S_MAX_PARALLEL_LOOKUPS`) and 2 in the run.  Times in `Evr` are relative, so that no clock has to be bounded.
`ClntSession` is checked up to exchanging clients and sessions, which nothing tells
apart, and up to what is left in free queues that nobody brought along, which is reset
when a queue is taken.

`SubrQueue`, `ClntSession` and `Resolver` make some assumptions.  A client waits for
its response before it sends the next request (src/TODO: "c. rqst splitting (test
with pipelined requests)" is still to be done there).  Where the code reads a
subrequest that a callback has just deleted, at the end of a turn of
`subr_try_deq`, its memory still holds the values it had.  Where `SubmitFails` is
FALSE, udns accepts every name that is asked for.  Two threads in the map of `Resolver` at a time are
undefined behaviour, which is recorded (`clash`) and not followed; `ClashIsInline`
says when it can come to that, and the other properties what holds until then.

What fairness is assumed, and why:

* `IdleTimers`: weak fairness of the steps of the loop and of the clock: the thread
  is scheduled, `epoll_wait` returns at its time-out, a batch is worked off.  None of
  events, accepts, new subrequests or `signal()`: a liveness property may not
  depend on somebody connecting.
* `SubrQueue`: weak fairness of the thread's own steps, and strong fairness of a
  session's end and of the resolver's timer, because rounds of `evr_loop::run`
  alternate with `subr_try_deq`, so that what is due is possible again and again
  but not all the time.  A session ends at the latest by its timer
  (`IdleKilled`), a look-up when udns gives it up.  Servers and name servers
  need not answer, clients need not leave.
* `Nconn`: the loop turns, and the peer takes what is sent to it.  No peer has to
  send or to close, and no timer to fire.
* `HttpMsg`: weak fairness of the session: what is in the socket is read and looked at.
  The peer need not send or close.
* `Resolver`: a thread goes on, and gets the mutex when it is free again and again.
* `Phurl`: the main thread, the threads, and a signal handler that has begun go on; a
  thread does not wait longer than half a second, which is when phurl has its
  statistics updated.  The resolver's timer runs if it is set, and its ticks use up
  the tries of the look-ups on the wire; a host with a connection ends in some way, at
  the latest by its idle timer; a name that is looked up again and again is at last
  found in the cache, which keeps it for ten seconds.  Each of the last three is
  assumed of all hosts together, so that none of them is taken to end while others
  do; no look-up is taken to end that no timer watches.  The user need not type, nor a
  signal come.

## What is proved

All proofs are checked by TLAPS for every value of the constants that satisfies
the named assumptions.

`NconnPoolProofs`: `PoolInvariant` proves an inductive invariant of `NconnPool`, and
`PoolTypeOK`, `PoolActiveIsHeld`, `PoolNoAliasing`, `PoolAtMostOneOrphan` and
`PoolStaysBounded` follow.  None of these is inductive by itself.  The invariant adds
where the ids of idle connections come from: an idle connection carries the id
it is filed under, so that removing it by id removes it and nothing else, except
for id 0.  Whether a connection has been lost is therefore tied to entry 0, which is
issued once, and that is why there can be only one.  The size of the cache is
bounded by the eviction, and the number of active connections by the ones the
cache can hand back.  Assumptions: the sizes are positive, and ids are below the
width of `id_t` (`IdWidthAssumption`).

`PoolImplementsLedger` maps each object to the one place where the members of the pool
show it, and each call to a step of `ConnLedger`.  A call changes
several members; the lemma `Seen` says what each of them tells of a place, so that what
is left is to follow the objects that move: the one that is handed out, the
one that is parked, and the one that is evicted to make room for it.  That only
one object is ever lost, and only while id 0 may be, comes from the invariant.

`CacheProofs`, of `Nlru`: the members of `nlru.h` are one record, and `Sound` says what a call finds
and leaves.  What the code relies on, and nowhere says, is that ids descend along the
list (`ListOK`): they come from a counter and are pushed on the front.  So no two nodes
have the same id, the iterator kept for an id is one node (`NodesOK`), and the back of
the list is the least id, which is what makes "the back" and "the oldest" the same.
`NlruIndexesAgree` follows, with the cardinalities of the three indexes, and
`NlruImplementsLru` maps the list to the function from ids to entries of `LruSpec`.
That ids stay below the bound of the model (`MaxId`) stands for a counter that does not
wrap; for a cache of ids that are used again the proof would not go through.

`IdleTimersProofs`: `IdleTimersInvariant` proves an inductive invariant of
`IdleTimers`, and `IdleTimersTypeOK`, `IdleTimersOneEach`, `IdleTimersCheckedInTime`
and `IdleTimersWait` follow.  That a session has one timer is not inductive by itself,
because a timer's owner is found through the address it carries (`data`): the
invariant says for every active timer whose it is, that no session is idle
beyond its time-out, and that a session's timer ends no later than that.  A
tick of the clock makes every timer due that is less than a millisecond away, in an
order that is left open; `AgedTimer` says what that leaves of the delay.  There
is a lemma for each action, and the wait is added at the end: whoever adds a timer
before the one the loop sleeps for wakes the loop.

`CacheProofs`, of `Resolver`: for any number of threads, names and addresses, with and
without a cache, `ResolverClashIsInline`, `ResolverCopyIsOwn` and `ResolverCacheIsSound`.
The invariant `ResolverInv` behind them has, besides the types: who may be in the map
(`LockDiscipline`), that until a clash one thread is (`Exclusion`), what a thread has
in its hands at each place (`HandsFit`), that an address it made is its own until it
is cached (`FreshIsOwn`), that the map leads to living addresses under their own names
(`MapIsSound`), that the entry a thread was given is still the cached one unless its
time was over by then (`PtrIsGood`), and where every address is (`Accounted`).
`PtrIsGood` is what makes the copy after the unlock sound: an entry is deleted only
by a look-up that finds its time over, so whoever has a pointer whose time is not
over has the cached one.  `CopyIsOwn` needs `FreshIsOwn` of the other threads as well,
because a loser of a race deletes the address it made (`InvLeave`, the largest
step).  Assumptions: literals are names, and the constants that stand for nothing are
not among the threads, names and places.

`PhurlProofs`: `AskedAnsweredOnce` for every command line (`OptionsAssumption`), that is for
any number of threads, hosts and connections, any ratio, with and without a time-out,
any names that are refused, and any number of look-ups at a time
(`ParallelAssumption`: at least one).  The invariant is by thread: a host is in the queue
of its thread at most once, and only while its subrequest waits (`QueuedOnce`); it has at
most one look-up, that waits or is on the wire, and nothing but a look-up that was
cancelled outlives its subrequest (`LookedUpOnce`), so that a callback comes once; it is
pending or was answered once (`Accounted`); `ups_cancel`, whose loop the callbacks of
what it cancels come back to, has in the map what it has left to cancel and what it
cannot cancel (`Cancelling`); and a subrequest without a state is the one whose start
waits for `lookup_async`, or one whose start failed (`Starting`).  The callbacks
that come in the middle of a start go through the same lemmas as all others
(`CallbackStep`), because they keep `Starting`.  Threads do not
disturb each other because their shares of the hosts are disjoint (`Shares`, which
is the arithmetic of phurl.cc:644), and one lemma, `LocalStep`, carries the other threads
through every step.  `MainOK` says when the main thread may stop the threads: as long
as neither the user nor a signal interferes, not before nothing is pending.

`SubrQueueProofs`: `IteratorIsItsNode`, `CancelIsRight`, `RequestsAreKept` and
`HurlKeepsAsking`, for any number of subrequests, connections and look-ups.  A handler
calls functions that call others, and in the middle a subrequest has a
connection and no state yet, or has been taken from the queue while its state
still says that it is there.  So the parts of the invariant are predicates on the
members they relate, and `OK(u, state, job, w)` takes the states and jobs that
subrequests are going to have, and the one that is being worked on, as parameters;
`Sound` is `OK` with what they have.  The parts are: the queue and the iterators
(`Listed`), room for every subrequest that may be queued yet (`Room`), look-ups and the
subrequests that wait for them in pairs (`Paired`), sessions and active subrequests in
pairs (`Flying`), what is in no state (`Known`), hurl's counts (`Repeated`) and the
bound of the resolver (`OnWire`).  The theorems assume that udns refuses no look-up
(`~SubmitFails`), which is so for the hosts of a proxy's configuration, and for hurl, which does not use
udns; if it may, they are false, because a look-up that was given up may
call back a subrequest that is gone (`nresolver.cc:656`, above).  That a thread has one
subrequest of hurl, and looks its names up while it waits (`HurlAssumption`), is how
hurl starts its threads (hurl.cc:1071).

`ClntSessionProofs`: `ClientsAreInCare`, `QueuesHaveOneUser`, `ResponsesAreOwn`,
`SessionsHaveTheirClient` and `ResponsesAreSentInFull`, for any number of clients, sessions
and queues.  None of them is inductive.  That a client gets only its own response
needs to know who may write to its queue, which needs to know that queues have one
user (`Single`), also those that nobody uses, which have to be empty (`Filled`); who
writes is a session, which has to know its client (`SessionOK`), and the client its
session and what it waits for (`ClientOK`).  That a connection is kept only when all
was sent needs to know where the last piece of a complete response is: in the queue, or
sent (`HasLast`).  A callback works on one client and on its session and breaks these
relations before it restores them: `OK(u, B, O, X)` is the invariant of a thread in
the middle of one, for the sessions in `B`, the queues of the sessions in `O` and
the clients outside `X`.  Each function called from a handler has a lemma that
says which of them it leaves out and which it takes in again; between callbacks it is
`Whole`, that is, nobody is left out.  `Care` is kept apart, because the output
queue is the only thing it shares with the rest.  The queues in `brought` are
exempt throughout: what the code guarantees for the others is what is
proved.  Assumptions: sizes are positive, and `Null` is not a client.

`NconnProofs`: `WakeupsAreKept`, `OpenAreRegistered` and, as an action property,
`ClientsAreKept`, for any size of the send buffer, of messages and of the server's
handshake.  `NoLostWakeup` speaks of a thread that waits, but the event that is lost is
lost earlier, by a callback that leaves the descriptor with the wrong events, or with
the right ones after what it waits for has come.  So the invariant says three
things, of all states.  `Settled` is the table of the states of a connection (being
accepted, being connected, serving, in flight or idle; with and without TLS) with the
events its descriptor waits for in each.  `Covered` says that what the connection wants
next, and is there, is on the ready list or has its callback in this batch; it is
kept because `ModFd` reports what is there at once (`ModFdIs`, `ListeningCovers`) and an
edge reports what comes (`WokenIsGood`).  `Fitting` excludes the callbacks that a
connection could not take: a read while a TLS connection waits for room, which would set
it back to reading with data unsent, and a write for a client to whom nothing is to be
sent, which would close it; both follow from the events that were waited for when the
batch was fetched.  `EventIsGood`, with a lemma for each function of the sessions, shows
that a callback leaves a connection that is settled again or closed.  Assumption: sizes
are positive (`SizesAssumption`); a buffer without room would never become writable.

`MessageProofs`, of `Nbq`: `CountersAlwaysAgree`, and `QueueImplementsBytes`, the
refinement of `ByteQueue`, for every size of a block and of a call.  The blocks are a
row of places, `Place(k, j)`, and `Written(q)` is the sequence of the bytes in it up to
the write place.  `QueueOK` says that the pointers are places of the row, that the
bytes before the write place were written, and that the counters are what the pointers
say: what a block has left, what can be read, and the write offset.  Of the read
offset it says only that it is not behind, because a read that goes on to another
block counts twice (above).  A loop is a function of its turns (`WriteTurns` and the
others); after each turn, what has been done and what is left make up what was
asked for (`WritesOn`, `ReadsOn`, `Sends`), and less is left, so that the turns the
model takes are enough for the loop to end.  `nc_write` drops what it sent from the
front (`shrink`), which moves all places down by whole blocks: `Sends` says by how
much.  Assumption: the size of a block is positive (`SizesAssumption`).

`MessageProofs`, of `HttpMsg`: `PartsAreAsSent` and `MessagesAreTakenWhole`, for all
messages of the grammar that the module states (`Message`, `Request`, `Response`), any
number of them on a connection, every size of a block and however the peer sends
them.  `AsSent` speaks of a message that is taken; the invariant (`MsgInv`) says the same
of every prefix, in `Noted`: the pieces of each part that are noted are those that began
before the open one, in order, and are closed (`Lists`); the url noted is the last
of its pieces (`IsLatest`); the body is the bytes so far (`BodyIs`); the part that is
open began where the parser's mark is, which is the beginning of a piece of the message
or of what was read (`Opened`); and the message is complete when a symbol that ends it
was read.  One symbol keeps this (`SymbolNoted`), hence a piece does, by induction
over its symbols; the callbacks at the end of a piece make a cut there, which changes no
piece before it (`PieceIsCut`, `CutAtEnd`).  That a request is not lost needs, besides,
that what is complete while the loop of `nc_read` goes on ends with a block
(`TakenInTurn`).  Assumptions: the messages have the grammar (`ExchangesAssumption`:
http_parser refuses others), and sizes are positive (`LengthsAssumption`).

Only model-checked: `UrlRouter`, whose functions recur into the trie and into one
another, so that what they compute takes induction over data, which is out of reach (its
operators are RECURSIVE, which excludes the provers from the module); and liveness in all
modules, as TLAPS does not do liveness under fairness or `ENABLED`.

## Not modelled

* The kernel and OpenSSL, but for the states that `Nconn` gives them: their events are
  any of the possible ones.
* `evr_select`, `evr_kqueue`: on Linux the loop is made with epoll.
* Messages that are not well-formed, upgrades, status lines, the parts of a url, and
  the text of responses (`api_resp`).
* Options, statistics, access logs, and output of the programs; fsurv is nothing else.
* Failing system calls on valid descriptors and failing allocation; so a client
  connection whose options cannot be set (t_srvr.cc:428) is not there.
* hurl with several threads: its counters are kept under a mutex, but for the
  comparison with the number to make (hurl.cc:452).
* phurl's command line after the first run of its list, and `phurl_h` as a handler of
  requests, which its inverted test keeps from answering.
* Connect-only subrequests, pipelined requests, and vendored code, but for
  `http_parser_execute`, whose pieces the callbacks depend on.

The map covers about a tenth of all lines of the repository: half of the rest is
vendored (`src/ext`), and most of what is left are tests, options and output.

## Plan

1. hurl with several threads, and the start of the threads of `srvr` with statistics.
2. Pipelined requests in `ClntSession`, once the repository says what they should do.
3. `UrlRouter` with loops over the text in place of its recursion, as in `Nbq`, to prove
   `PlainIsKept`.
