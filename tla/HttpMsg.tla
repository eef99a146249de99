------------------------------ MODULE HttpMsg ------------------------------
(***************************************************************************)
(* Requests and responses as they are read: the connection reads into the  *)
(* blocks of the session's queue (nconn::nc_read), every piece that was    *)
(* read goes through http_parser, whose callbacks (cb.cc) note in the      *)
(* message (hmsg, rqst, resp) where in the queue its parts are, and the    *)
(* session looks at the message when nothing is left to be read.           *)
(*                                                                         *)
(* The client session of a server reads requests, and answers each before  *)
(* the client sends the next.  The upstream session reads responses, one   *)
(* for each subrequest of the connection.  The peer's message is a         *)
(* sequence of symbols, one for each class of bytes that http_parser tells *)
(* apart; where a piece ends is up to the network.                         *)
(*                                                                         *)
(*   "m" method, status or version: the first line but for the url         *)
(*   "u" a byte of the url                                                 *)
(*   "k" a byte of a header's name, "x" one of the name Expect             *)
(*   "c" the colon, "v" a byte of the value, "n" the end of the line,      *)
(*   "w" the end of a line that has no value                               *)
(*   "e" the end of the headers, a body follows                            *)
(*   "f" the end of the headers and of the message                         *)
(*   "s" the end of the headers and of a response to HEAD that gives the   *)
(*       length of the body it does not have                               *)
(*   "b" a byte of the body, "t" its last one, which its length tells      *)
(*   "h" the head of a chunk, "d" its end, "z" the chunk that ends the body *)
(*   "i" the end of an interim response (100 Continue)                     *)
(***************************************************************************)
EXTENDS Integers, Sequences, FiniteSets

CONSTANTS
  Exchanges,  \* what a connection is used for: records of the fields below
  BlockBytes, \* bytes of a block of the queue, m_bsize
  ExpectLen   \* bytes of the name Expect, spelled with a capital E (cb.cc:162)

HeadEnd == {"e", "f", "s", "i"}
MsgEnd == {"t", "f", "s", "z"}
Last(q) == q[Len(q)]

\* A message: it begins with its first line, its headers end, a value
\* that is empty follows the colon, and what ends it is its last symbol.
Message(wire) ==
  /\ wire \in Seq(STRING) /\ wire # <<>> /\ wire[1] = "m"
  /\ \E i \in DOMAIN wire : wire[i] \in HeadEnd
  /\ \A i \in DOMAIN wire :
       /\ wire[i] = "w" => i > 1 /\ wire[i - 1] = "c"
       /\ wire[i] \in MsgEnd => i = Len(wire)
\* A request has a url and says where it ends.
Request(wire) ==
  /\ Message(wire) /\ Last(wire) \in MsgEnd \ {"s"}
  /\ \E i \in DOMAIN wire : wire[i] = "u"
  /\ \A i \in DOMAIN wire : wire[i] # "i"
\* A response ends with an interim one, or with the connection, as well.
Response(wire) == Message(wire) /\ Last(wire) \in MsgEnd \union {"b", "i"}

ASSUME ExchangesAssumption == \A x \in Exchanges :
  /\ x \in [side : {"rqst", "resp"},  \* which of the two is read
            save : BOOLEAN,            \* m_save, TRUE for requests
            patient : BOOLEAN,         \* the client waits for 100 Continue
            wires : Seq(Seq(STRING))]  \* the messages of the peer
  /\ x.wires # <<>>
  /\ \A i \in DOMAIN x.wires :
       IF x.side = "rqst" THEN x.save /\ Request(x.wires[i]) ELSE Response(x.wires[i])
ASSUME LengthsAssumption == {BlockBytes, ExpectLen} \subseteq Nat \ {0}

VARIABLES
  x,      \* the exchange
  pc,     \* "wait", "read": in nc_read, "check": in the session, "idle",
          \* "closed"
  nth,    \* the message that is being sent
  sent,   \* symbols of it that have been sent
  read,   \* symbols of it that have been read
  fin,    \* the peer has closed its side
  h,      \* the rqst or resp of the session
  inside, \* the part that http_parser was in at the end of the last piece
  continued,  \* 100 Continue was sent for this message
  got,    \* history: what the session has seen of each message
  cut     \* history: where pieces of this message ended in a url or header

netVars == <<nth, sent, fin>>
msgVars == <<h, inside, cut>>
exchangeVars == <<x, pc, netVars, read, msgVars, continued, got>>

Wire == x.wires[nth]

\* hmsg::init.
NoPart == [off |-> 0, len |-> 0]
Fresh == [url |-> NoPart, keys |-> <<>>, vals |-> <<>>, body |-> NoPart,
          complete |-> FALSE, expect |-> FALSE]

MsgInit ==
  /\ x \in Exchanges
  /\ pc = "wait"
  /\ nth = 1 /\ sent = 0 /\ read = 0 /\ fin = FALSE
  /\ h = Fresh /\ inside = "none" /\ continued = FALSE
  /\ got = <<>> /\ cut = {}

-----------------------------------------------------------------------------
(* The callbacks.                                                          *)

\* The part of the message that a symbol belongs to.
PartOf(sym) ==
  CASE sym = "u" -> "url"
    [] sym \in {"k", "x"} -> "key"
    [] sym = "v" -> "val"
    [] sym \in {"b", "t"} -> "body"
    [] OTHER -> "none"

\* hp_on_url: of the url the last piece is kept.
OnUrl(msg, at) == IF x.side = "rqst" THEN [msg EXCEPT !.url = at] ELSE msg

\* Mutant of OnHeaderField: the flag is that of the last header.
OnHeaderFieldLast(msg, at) ==
  [msg EXCEPT !.keys = Append(@, at),
              !.expect = /\ x.side = "rqst"
                         /\ at.len = ExpectLen
                         /\ Wire[at.off + 1] = "x"]

\* hp_on_header_field.  The name Expect is found when it is one piece.
OnHeaderField(msg, at) ==
  [msg EXCEPT !.keys = Append(@, at),
              !.expect = @ \/ /\ x.side = "rqst"
                              /\ at.len = ExpectLen
                              /\ Wire[at.off + 1] = "x"]

OnHeaderValue(msg, at) == [msg EXCEPT !.vals = Append(@, at)]

\* Mutant of OnBody: a second piece replaces the first.
OnBodyLast(msg, at) == [msg EXCEPT !.body = at]

\* hp_on_body: the pieces are added up.
Joined(at1, at2) ==
  IF at1.off = 0 THEN at2 ELSE [off |-> at1.off, len |-> at1.len + at2.len]
OnBody(msg, at) == [msg EXCEPT !.body = Joined(@, at)]

\* The data callback for the part that is open in f, up to off.
Called(f, off) ==
  LET at == [off |-> f.mark, len |-> off - f.mark]
      msg == CASE f.part = "url"  -> OnUrl(f.msg, at)
               [] f.part = "key"  -> OnHeaderField(f.msg, at)
               [] f.part = "val"  -> OnHeaderValue(f.msg, at)
               [] f.part = "body" -> OnBody(f.msg, at)
               [] f.part = "none" -> f.msg
  IN  [part |-> "none", mark |-> 0,
       msg |-> IF x.save THEN msg ELSE f.msg]

\* hp_on_message_complete.
OnMessageComplete(f) == [f EXCEPT !.msg.complete = TRUE]

-----------------------------------------------------------------------------
(* http_parser_execute.                                                    *)

\* A symbol of another part than the open one ends that, which is then called
\* back; a part is marked where it begins.
Marked(f, sym, off) ==
  LET g == IF PartOf(sym) = f.part THEN f ELSE Called(f, off)
  IN  IF PartOf(sym) # "none" /\ g.part = "none"
      THEN [g EXCEPT !.part = PartOf(sym), !.mark = off] ELSE g

\* hp_on_headers_complete tells it that the response has no body; but without
\* m_save this is not called back.
SkipsBody == x.save

\* One symbol, at off in the queue.  An empty value has no place of its own: the
\* code marks it a byte later.
Parsed(f, sym, off) ==
  LET g == Marked(f, sym, off) IN
  CASE sym = "w" -> Called([g EXCEPT !.part = "val", !.mark = off], off)
    [] sym = "t" -> OnMessageComplete(Called(g, off + 1))
    [] sym \in {"f", "z", "i"} -> OnMessageComplete(g)
    [] sym = "s" -> IF SkipsBody THEN OnMessageComplete(g) ELSE g
    [] OTHER -> g

\* What n symbols from the place on that was read make of the state that a
\* piece begins with: a part that was open when the last piece ended is marked
\* from the first byte on, which may be the first after it.  (The singleton set
\* makes TLC evaluate each turn once.)
Scanned(n) ==
  LET f[i \in 0 .. n] ==
        IF i = 0 THEN [part |-> inside, mark |-> read, msg |-> h]
        ELSE CHOOSE g \in {Parsed(e, Wire[read + i], read + i - 1) :
                             e \in {f[i - 1]}} : TRUE
  IN  f[n]

\* Mutant of Execute: a part that is open at the end is not called back.
ExecuteForgets(n) ==
  LET f == Scanned(n)
  IN  [f EXCEPT !.part = IF @ = "body" THEN "none" ELSE @]

\* A piece of n symbols: a part that is open at the end is called back.  The
\* body is not marked before a byte of it is seen.
Execute(n) ==
  LET f == CHOOSE g \in {Scanned(n)} : TRUE
  IN  [part |-> IF f.part = "body" THEN "none" ELSE f.part,
       mark |-> 0, msg |-> Called(f, read + n).msg]

-----------------------------------------------------------------------------
(* The connection.                                                         *)

\* The room in the block that is written to; a full one is followed by a new
\* one.
BlockRoom == BlockBytes - (read % BlockBytes)

\* What is in the socket.
Unread == sent - read

\* One turn of the loop of nc_read with something to be read; a short read
\* ends the loop.
ReadPiece ==
  /\ pc = "read" /\ Unread > 0
  /\ LET n == IF Unread < BlockRoom THEN Unread ELSE BlockRoom
         f == Execute(n)
     IN  /\ read' = read + n
         /\ h' = f.msg
         /\ inside' = f.part
         /\ cut' = IF f.part = "none" THEN cut ELSE cut \union {read + n}
         /\ pc' = IF n < BlockRoom THEN "check" ELSE "read"
  /\ UNCHANGED <<x, netVars, continued, got>>

\* Mutant of ReadAgain: the session is not told that something was read before.
ReadAgainWaits ==
  /\ pc = "read" /\ Unread = 0 /\ ~fin
  /\ pc' = "wait"
  /\ UNCHANGED <<x, netVars, read, msgVars, continued, got>>

\* NC_STATUS_AGAIN.
ReadAgain ==
  /\ pc = "read" /\ Unread = 0 /\ ~fin
  /\ pc' = "check"
  /\ UNCHANGED <<x, netVars, read, msgVars, continued, got>>

\* What a handler or a callback is given.
Seen == [url |-> h.url, keys |-> h.keys, vals |-> h.vals, body |-> h.body,
         cut |-> cut, read |-> read]

\* NC_STATUS_EOF: a client session is torn down without looking at its
\* request; an upstream session completes its subrequest.
ReadEof ==
  /\ pc = "read" /\ Unread = 0 /\ fin
  /\ pc' = "closed"
  /\ got' = IF x.side = "rqst" THEN got ELSE Append(got, Seen)
  /\ UNCHANGED <<x, netVars, read, msgVars, continued>>

Readable ==
  /\ pc = "wait" /\ (Unread > 0 \/ fin)
  /\ pc' = "read"
  /\ UNCHANGED <<x, netVars, read, msgVars, continued, got>>

-----------------------------------------------------------------------------
(* The sessions.                                                           *)

\* Mutant of NextMessage: a message stays complete.
NextMessageStale ==
  /\ h' = [Fresh EXCEPT !.complete = h.complete] /\ inside' = "none" /\ cut' = {}
  /\ read' = 0 /\ continued' = FALSE
  /\ nth' = nth + 1 /\ sent' = 0
  /\ UNCHANGED fin

\* The message is made ready for the next one, and the queue written from its
\* beginning.
NextMessage ==
  /\ h' = Fresh /\ inside' = "none" /\ cut' = {}
  /\ read' = 0 /\ continued' = FALSE
  /\ nth' = nth + 1 /\ sent' = 0
  /\ UNCHANGED fin

\* rqst::get_url, of which parse_uri copies nothing if it is empty.
UrlEmpty == h.url.off = 0 \/ h.url.len = 0

\* clnt_session: the request is handled when it is complete.  100 Continue is
\* sent before, also when the request is complete: nobody waits for it then.
CheckRqst ==
  /\ pc = "check" /\ x.side = "rqst"
  /\ \/ /\ ~h.complete
        /\ pc' = "wait"
        /\ continued' = (continued \/ h.expect)
        /\ h' = [h EXCEPT !.expect = FALSE]
        /\ UNCHANGED <<netVars, read, inside, cut, got>>
     \/ /\ h.complete /\ UrlEmpty
        /\ pc' = "closed"
        /\ UNCHANGED <<netVars, read, msgVars, continued, got>>
     \/ /\ h.complete /\ ~UrlEmpty
        /\ pc' = "wait"
        /\ got' = Append(got, Seen)
        /\ NextMessage
  /\ UNCHANGED x

\* ups_srvr_session: the subrequest is completed when the response is, and the
\* connection is kept or not.
CheckResp ==
  /\ pc = "check" /\ x.side = "resp"
  /\ IF h.complete
     THEN pc' \in {"idle", "closed"} /\ got' = Append(got, Seen)
     ELSE pc' = "wait" /\ UNCHANGED got
  /\ UNCHANGED <<x, netVars, read, msgVars, continued>>

\* subr_try_start with the idle connection, also when the server has closed it
\* and nobody has noticed.  The rest of a response that was taken too early is
\* not followed.
NextSubr ==
  /\ pc = "idle" /\ nth < Len(x.wires) /\ read = Len(Wire)
  /\ pc' = "wait"
  /\ NextMessage
  /\ UNCHANGED <<x, got>>

\* A connection without a session is closed when something comes.
IdleReadable ==
  /\ pc = "idle" /\ (Unread > 0 \/ fin)
  /\ pc' = "closed"
  /\ UNCHANGED <<x, netVars, read, msgVars, continued, got>>

-----------------------------------------------------------------------------
(* The peer.                                                               *)

HeadLen == CHOOSE i \in DOMAIN Wire : Wire[i] \in HeadEnd
Expects == x.side = "rqst" /\ \E i \in DOMAIN Wire : Wire[i] = "x"

\* How much of the message it sends now: a patient client that expects
\* 100 Continue keeps the body until then.
MaySend == IF x.patient /\ Expects /\ ~continued THEN HeadLen ELSE Len(Wire)

PeerSends ==
  /\ pc # "closed" /\ ~fin /\ nth <= Len(x.wires)
  /\ \E n \in sent + 1 .. MaySend : sent' = n
  /\ UNCHANGED <<x, pc, nth, fin, read, msgVars, continued, got>>

PeerCloses ==
  /\ pc # "closed" /\ ~fin
  /\ fin' = TRUE
  /\ UNCHANGED <<x, pc, nth, sent, read, msgVars, continued, got>>

Session ==
  Readable \/ ReadPiece \/ ReadAgain \/ ReadEof \/ CheckRqst \/ CheckResp

MsgNext == Session \/ NextSubr \/ IdleReadable \/ PeerSends \/ PeerCloses

\* The thread serves what is there.  The peer need not send or close.
MsgSpec == MsgInit /\ [][MsgNext]_exchangeVars /\ WF_exchangeVars(Session)

-----------------------------------------------------------------------------
(* Properties.                                                             *)

\* Where the pieces of a part of a message begin: at its first symbol, at an
\* empty value, and wherever a piece that was read ended in the part or right
\* after it; in that case the piece may be empty.
Starts(wire, part, cuts) ==
  {p \in 0 .. Len(wire) - 1 :
     \/ PartOf(wire[p + 1]) = part /\ (p = 0 \/ PartOf(wire[p]) # part)
     \/ part = "val" /\ wire[p + 1] = "w"
     \/ p \in cuts /\ PartOf(wire[p]) = part}

\* A piece goes on to the next cut or to the end of its part.
IsPiece(at, wire, part, cuts) ==
  LET p == at.off
      q == p + at.len
  IN  /\ p \in Starts(wire, part, cuts)
      /\ q \in p .. Len(wire)
      /\ \A r \in p + 1 .. q : PartOf(wire[r]) = part /\ (r = q \/ r \notin cuts)
      /\ q = Len(wire) \/ q \in cuts \ {p} \/ PartOf(wire[q + 1]) # part

\* All the pieces of a part, in their order.
ArePieces(ats, wire, part, cuts) ==
  /\ {ats[i].off : i \in DOMAIN ats} = Starts(wire, part, cuts)
  /\ \A i \in DOMAIN ats : IsPiece(ats[i], wire, part, cuts)
  /\ \A i, j \in DOMAIN ats : i < j => ats[i].off < ats[j].off

IsLastPiece(at, wire, part, cuts) ==
  /\ IsPiece(at, wire, part, cuts)
  /\ \A p \in Starts(wire, part, cuts) : p <= at.off

BodyOf(wire) ==
  LET at == {p \in DOMAIN wire : PartOf(wire[p]) = "body"}
  IN  IF at = {} THEN NoPart
      ELSE [off |-> (CHOOSE p \in at : \A q \in at : p <= q) - 1,
            len |-> Cardinality(at)]

(***************************************************************************)
(* AsSent: what a handler is given of a request, or a subrequest of a      *)
(* response that is saved, is what was sent, however it was cut            *)
(* into pieces, but for this: names and values of headers are cut          *)
(* where a piece ended, and of a url the last piece is given.  The length  *)
(* of a body is the number of its bytes, and it begins with the first.     *)
(***************************************************************************)
AsSent ==
  \A i \in DOMAIN got :
    LET g == got[i]
        wire == SubSeq(x.wires[i], 1, g.read)
    IN  IF ~x.save THEN g.keys = <<>> /\ g.vals = <<>> /\ g.body = NoPart
        ELSE /\ ArePieces(g.keys, wire, "key", g.cut)
             /\ ArePieces(g.vals, wire, "val", g.cut)
             /\ g.body = BodyOf(wire)
             /\ x.side = "rqst" => IsLastPiece(g.url, wire, "url", g.cut)

Interim(wire) == \E i \in DOMAIN wire : wire[i] = "i"

\* No symbol of the message ends it for the parser: its end is that of the
\* connection, or it answers HEAD and http_parser is not told.
EndsWithConn(wire) == Last(wire) \in {"b"} \union (IF x.save THEN {} ELSE {"s"})

(***************************************************************************)
(* TakenWhole: a message is taken by the session when its last byte was    *)
(* read, no earlier and no later, and a request is not lost.  Exceptions:  *)
(* a response is taken when an interim one has come, or when the           *)
(* connection has ended; and a request is lost if its url is cut at its    *)
(* end, or if it ends with a block of the queue and the client has closed  *)
(* its side.                                                               *)
(***************************************************************************)
TakenWhole ==
  /\ \A i \in DOMAIN got :
       got[i].read = Len(x.wires[i]) \/ (x.side = "resp" /\ (fin \/ Interim(x.wires[i])))
  /\ pc = "wait" /\ read > 0 /\ read = Len(Wire) => EndsWithConn(Wire)
  /\ pc = "closed" /\ x.side = "rqst" /\ read > 0 /\ read = Len(Wire) =>
       \/ \E c \in cut : PartOf(Wire[c]) = "url" /\ PartOf(Wire[c + 1]) # "url"
       \/ fin /\ read % BlockBytes = 0

ClientWaits ==
  pc # "closed" /\ x.patient /\ Expects /\ ~continued /\ sent = HeadLen

(***************************************************************************)
(* ContinueIsSent: a client that waits for 100 Continue gets it, unless    *)
(* the name Expect was not read in one piece.  It is the name "x" only     *)
(* with a capital E: with another one cb.cc:162 has an ordinary name ("k") *)
(* and the client is not known to wait.                                    *)
(***************************************************************************)
ContinueIsSent ==
  nth <= Len(x.wires) /\ ClientWaits
    ~> \/ nth > Len(x.wires) \/ ~ClientWaits
       \/ \E c \in cut : Wire[c] = "x" /\ Wire[c + 1] = "x"

(***************************************************************************)
(* SentIsTaken: a message that was sent to its end is taken, or the        *)
(* connection is closed, unless only that would end the message.           *)
(***************************************************************************)
SentIsTaken ==
  nth <= Len(x.wires) /\ sent = Len(Wire) /\ ~EndsWithConn(Wire)
    ~> pc \in {"idle", "closed"} \/ sent = 0
=============================================================================
