-------------------------------- MODULE Nbq ---------------------------------
(***************************************************************************)
(* The block queue (class nbq) every message is received into and sent     *)
(* from: a list of blocks of BlockSize bytes with a place to write and a   *)
(* place to read, and the two loops of class nconn that fill and drain it  *)
(* through a socket, nc_read and nc_write.                                 *)
(*                                                                         *)
(* A queue is a record of its members; the pointers into blocks are the    *)
(* number of a block of m_q and an offset in it (wBlk = 0: no block).      *)
(* A loop of the code is a turn of it, which maps the loop's state to the  *)
(* next one or to itself when the loop has ended, and enough turns.        *)
(* `out', `asked' and `status' show what the last call returned, `crossed' *)
(* that a read has gone on to another block since reset_read.              *)
(***************************************************************************)
EXTENDS Integers, Sequences

CONSTANTS
  Byte,       \* bytes that are written
  BlockSize,  \* m_bsize
  MaxChunk,   \* bound: bytes in one call
  MaxBlocks,  \* bound: blocks in the queue
  MaxOffset   \* bound: m_cur_read_offset, which may run ahead

ASSUME SizesAssumption ==
  BlockSize \in Nat \ {0} /\ MaxBlocks \in Nat \ {0} /\ MaxChunk \in Nat

VARIABLES q, out, asked, status, crossed

vars == <<q, out, asked, status, crossed>>

NoByte == "none"   \* an uninitialised byte of a block
SmallerOf(m, n) == IF m < n THEN m ELSE n
EmptyBlock == [i \in 1 .. BlockSize |-> NoByte]

EmptyQueue ==
  [blocks |-> <<>>, wBlk |-> 0, wPos |-> 0, wAvail |-> 0, wOff |-> 0,
   rBlk |-> 0, rPos |-> 0, rOff |-> 0, total |-> 0]

\* The state of a loop that begins in t, after n turns.
Turns(Turn(_), t, n) ==
  LET f[i \in 0 .. n] == IF i = 0 THEN t ELSE Turn(f[i - 1]) IN f[n]

Init ==
  /\ q = EmptyQueue
  /\ out = <<>> /\ asked = 0 /\ status = "none" /\ crossed = FALSE

-----------------------------------------------------------------------------
(* Writing.                                                                *)

\* b_write_add_avail(): one more block, which becomes the current one if
\* there was none or the current one is full.
WriteAddAvail(b) ==
  LET k == Len(b.blocks) + 1
      grown == [b EXCEPT !.blocks = Append(@, EmptyBlock),
                         !.wAvail = @ + BlockSize]
  IN  IF k = 1 THEN [grown EXCEPT !.wBlk = 1, !.wPos = 0, !.rBlk = 1, !.rPos = 0]
      ELSE IF b.wAvail = 0 /\ b.wBlk # k
      THEN [grown EXCEPT !.wBlk = @ + 1, !.wPos = 0]
      ELSE grown

Room(b) == IF b.wAvail = 0 THEN WriteAddAvail(b) ELSE b

\* The bytes s are copied to b_write_ptr(), and b_write_incr().
WriteIncr(b, s) ==
  LET w == [b EXCEPT !.blocks[b.wBlk] = [i \in 1 .. BlockSize |->
              IF i \in b.wPos + 1 .. b.wPos + Len(s) THEN s[i - b.wPos] ELSE @[i]],
            !.wPos = @ + Len(s), !.wAvail = @ - Len(s),
            !.wOff = @ + Len(s), !.total = @ + Len(s)]
  IN  IF w.wAvail = 0 /\ w.wBlk # Len(w.blocks)
      THEN [w EXCEPT !.wBlk = @ + 1, !.wPos = 0, !.wAvail = BlockSize]
      ELSE w

\* write(): what is left of s goes into the current block and the next ones.
WriteTurn(t) ==
  LET r == Room(t.q)
      n == SmallerOf(Len(t.left), r.wAvail)
  IN  IF t.left = <<>> THEN t
      ELSE [q |-> WriteIncr(r, SubSeq(t.left, 1, n)),
            left |-> SubSeq(t.left, n + 1, Len(t.left))]
WriteAll(b, s) == Turns(WriteTurn, [q |-> b, left |-> s], Len(s)).q

-----------------------------------------------------------------------------
(* Reading.                                                                *)

\* b_read_avail(): what can be read at b_read_ptr().
BlockReadAvail(b) == IF b.rBlk = b.wBlk THEN b.total ELSE BlockSize - b.rPos

\* b_read_incr(): the offset is advanced a second time when the read goes on
\* to the next block.
ReadIncr(b, n) ==
  LET r == [b EXCEPT !.total = @ - n, !.rPos = @ + n, !.rOff = @ + n]
  IN  IF BlockReadAvail(b) = n /\ r.total > 0
      THEN [r EXCEPT !.rBlk = @ + 1, !.rPos = 0, !.rOff = @ + n]
      ELSE r

\* The n bytes at b_read_ptr(), which are in one block.
BytesAt(b, n) == SubSeq(b.blocks[b.rBlk], b.rPos + 1, b.rPos + n)

\* read() of n <= total bytes: the queue after it and the bytes.  A turn may
\* only go on to the next block.
ReadTurn(t) ==
  LET n == SmallerOf(t.left, BlockReadAvail(t.q))
  IN  IF t.left = 0 THEN t
      ELSE [q |-> ReadIncr(t.q, n), left |-> t.left - n,
            out |-> t.out \o BytesAt(t.q, n)]
ReadAll(b, n) == Turns(ReadTurn, [q |-> b, left |-> n, out |-> <<>>], n + 1)

ReadSome(b, n) == ReadAll(b, SmallerOf(n, b.total))

\* reset_read()
Rewound(b) ==
  IF b.blocks = <<>> THEN [b EXCEPT !.rOff = 0, !.rBlk = 0, !.rPos = 0, !.total = 0]
  ELSE [b EXCEPT !.rOff = 0, !.rBlk = 1, !.rPos = 0,
                 !.total = b.wBlk * BlockSize - b.wAvail]

\* Mutant of Emptied: the write pointer is moved, what it has left is not.
EmptiedKeepsAvail(b) ==
  IF b.blocks = <<>> THEN b
  ELSE Rewound([b EXCEPT !.blocks = [k \in 1 .. Len(@) |-> EmptyBlock],
                         !.wOff = 0, !.wBlk = 1, !.wPos = 0])

\* reset_write(): the blocks are kept, what is in them does not matter.
Emptied(b) ==
  IF b.blocks = <<>> THEN b
  ELSE Rewound([b EXCEPT !.blocks = [k \in 1 .. Len(@) |-> EmptyBlock],
                         !.wOff = 0, !.wBlk = 1, !.wPos = 0, !.wAvail = BlockSize])

\* shrink(): the blocks before the one that is read are freed.
Shrunk(b) ==
  LET k == b.rBlk - 1
  IN  [b EXCEPT !.blocks = SubSeq(@, k + 1, Len(@)),
                !.rBlk = 1, !.wBlk = @ - k,
                !.wOff = @ - k * BlockSize, !.rOff = @ - k * BlockSize]

\* Mutant of Sought: it reads on from where it is.
SoughtFromHere(b, off) ==
  IF off >= b.rOff THEN ReadSome(b, off - b.rOff).q ELSE ReadSome(b, off).q

\* read_seek()
Sought(b, off) ==
  IF off >= b.rOff THEN ReadSome(b, off - b.rOff).q
  ELSE ReadSome(Rewound(b), off).q

-----------------------------------------------------------------------------
(* Through a socket or a file.                                             *)

\* nconn::nc_read() when s can be read: blocks are made before they are
\* known to be needed, and a short read ends it.
NcReadTurn(t) ==
  LET r == Room(t.q)
      n == SmallerOf(Len(t.left), r.wAvail)
  IN  IF t.ended THEN t
      ELSE [q |-> WriteIncr(r, SubSeq(t.left, 1, n)),
            left |-> SubSeq(t.left, n + 1, Len(t.left)), ended |-> n < r.wAvail]
NcRead(b, s) ==
  Turns(NcReadTurn, [q |-> b, left |-> s, ended |-> FALSE], Len(s) + 1).q

\* A turn of write_fd(): b_write_incr() and b_read_incr(0).
FdStep(b, s) == ReadIncr(WriteIncr(b, s), 0)

\* write_fd() of a file that has s left, as far as it was asked.
WriteFdTurn(t) ==
  LET r == Room(t.q)
      n == SmallerOf(Len(t.left), r.wAvail)
  IN  IF t.left = <<>> THEN t
      ELSE [q |-> FdStep(r, SubSeq(t.left, 1, n)),
            left |-> SubSeq(t.left, n + 1, Len(t.left))]
WriteFd(b, s) == Turns(WriteFdTurn, [q |-> b, left |-> s], Len(s)).q

\* nconn::nc_write() while the socket takes `space' more bytes: the queue
\* after it, the bytes sent, and the status ("full" is NC_STATUS_OK too, with
\* no space left).  A send of nothing returns 0 and ends it.
NcWriteTurn(t) ==
  LET want == BlockReadAvail(t.q)
      n == SmallerOf(want, t.space)
      r == Shrunk(ReadIncr(t.q, n))
  IN  IF t.status # "sending" THEN t
      ELSE IF want > 0 /\ t.space = 0 THEN [t EXCEPT !.status = "again"]
      ELSE [q |-> r, space |-> t.space - n, out |-> t.out \o BytesAt(t.q, n),
            status |-> IF n > 0 /\ r.total > 0 THEN "sending"
                       ELSE IF n = t.space THEN "full" ELSE "ok"]
NcWrite(b, space) ==
  Turns(NcWriteTurn, [q |-> b, space |-> space, out |-> <<>>, status |-> "sending"],
        space + 1)

-----------------------------------------------------------------------------
Chunks == UNION {[1 .. n -> Byte] : n \in 0 .. MaxChunk}

\* The bytes that were written, whatever was read of them.
Written(b) ==
  LET n == IF b.wBlk = 0 THEN 0 ELSE (b.wBlk - 1) * BlockSize + b.wPos
  IN  [i \in 1 .. n |->
         b.blocks[((i - 1) \div BlockSize) + 1][((i - 1) % BlockSize) + 1]]
ReadPlace(b) == IF b.rBlk = 0 THEN 0 ELSE (b.rBlk - 1) * BlockSize + b.rPos

\* What a call leaves behind, and what it shows of itself.
Becomes(b, o, a, s) ==
  /\ Len(b.blocks) <= MaxBlocks /\ b.rOff <= MaxOffset
  /\ q' = b /\ out' = o /\ asked' = a /\ status' = s

Write ==
  /\ \E s \in Chunks : Becomes(WriteAll(q, s), <<>>, 0, "none")
  /\ UNCHANGED crossed

ReceiveIn ==
  /\ \E s \in Chunks : Becomes(NcRead(q, s), <<>>, 0, "received")
  /\ UNCHANGED crossed

LoadFile ==
  /\ \E s \in Chunks \ {<<>>} : Becomes(WriteFd(q, s), <<>>, 0, "loaded")
  /\ UNCHANGED crossed

Read ==
  \E n \in 1 .. MaxChunk :
    LET r == ReadSome(q, n)
    IN  /\ Becomes(r.q, r.out, 0, "none")
        /\ crossed' = (crossed \/ r.q.rBlk # q.rBlk)

ReadFrom ==
  \E off \in 0 .. Len(Written(q)), n \in 1 .. MaxChunk :
    LET r == ReadSome(Sought(q, off), n)
    IN  /\ Becomes(r.q, r.out, off, "none")
        /\ crossed' = IF off >= q.rOff THEN crossed \/ r.q.rBlk # q.rBlk
                      ELSE r.q.rBlk > 1

Send ==
  /\ q.total > 0
  /\ \E space \in 0 .. MaxChunk :
       LET r == NcWrite(q, space)
       IN  /\ Becomes(r.q, r.out, 0, r.status)
           /\ crossed' = (crossed \/ r.q.blocks # q.blocks)

ResetRead ==
  /\ Becomes(Rewound(q), <<>>, 0, "none")
  /\ crossed' = FALSE

ResetWrite ==
  /\ Becomes(Emptied(q), <<>>, 0, "none")
  /\ crossed' = (q.blocks = <<>> /\ crossed)

Reset == Becomes(EmptyQueue, <<>>, 0, "none") /\ crossed' = FALSE

Next ==
  \/ Write \/ ReceiveIn \/ LoadFile \/ Read \/ ReadFrom \/ Send
  \/ ResetRead \/ ResetWrite \/ Reset

Spec == Init /\ [][Next]_vars

-----------------------------------------------------------------------------
Offsets == 0 .. MaxBlocks * BlockSize

\* Every member has the type of its declaration.
TypeOK ==
  /\ Len(q.blocks) <= MaxBlocks
  /\ \A k \in 1 .. Len(q.blocks) : q.blocks[k] \in [1 .. BlockSize -> Byte \union {NoByte}]
  /\ q.wBlk \in 0 .. Len(q.blocks) /\ q.rBlk \in 0 .. q.wBlk
  /\ q.wPos \in 0 .. BlockSize /\ q.rPos \in 0 .. BlockSize
  /\ q.wOff \in Offsets /\ q.total \in Offsets /\ q.rOff \in Nat
  /\ out \in Seq(Byte) /\ asked \in Nat /\ crossed \in BOOLEAN

\* The read offset is the read place until a read goes on to another block.
OffsetUntilCrossing == ~crossed => q.rOff = ReadPlace(q)

\* A file's bytes can be sent as soon as they are loaded: nc_write never
\* finds an empty block before them.
LoadedIsSendable == status = "loaded" => BlockReadAvail(q) > 0

\* The counters agree with the pointers, however writes, reads, seeks, shrinks
\* and resets follow each other: what can be read is what was written less
\* what was read, a full block has no successor, the offset is the place
\* until a read crosses into another block, and what was loaded can be sent.
CountersAgree ==
  /\ TypeOK /\ OffsetUntilCrossing /\ LoadedIsSendable
  /\ q.total = Len(Written(q)) - ReadPlace(q)
  /\ q.wOff = Len(Written(q))
  /\ q.blocks # <<>> => q.wAvail = BlockSize - q.wPos
  /\ q.wAvail = 0 => q.wBlk = Len(q.blocks)

\* The queue is the byte queue of ByteQueue.
Abstract == INSTANCE ByteQueue WITH
  bytes <- Written(q), pos <- ReadPlace(q), exact <- q.rOff = ReadPlace(q)
ImplementsByteQueue == Abstract!Spec
=============================================================================
