----------------------------- MODULE ByteQueue ------------------------------
(***************************************************************************)
(* What the block queue (class nbq) promises: a sequence of bytes that is  *)
(* appended to at its end and read from a place in it, which may be moved  *)
(* back; the bytes before that place may be dropped.                       *)
(***************************************************************************)
EXTENDS Integers, Sequences

CONSTANTS
  Byte,      \* the bytes
  MaxChunk   \* bound: bytes written or asked for in one call

VARIABLES
  bytes,     \* the bytes in the queue, read or not
  pos,       \* how many of them were read
  out,       \* what the last call returned
  asked,     \* the position it was asked for, if any
  exact      \* the queue knows pos: a position can be looked up

vars == <<bytes, pos, out, asked, exact>>

Init == bytes = <<>> /\ pos = 0 /\ out = <<>> /\ asked = 0 /\ exact = TRUE

Slice(from, n) == SubSeq(bytes, from + 1, from + n)
SmallerOf(m, n) == IF m < n THEN m ELSE n
Chunks == UNION {[1 .. n -> Byte] : n \in 0 .. MaxChunk}

Extend ==
  /\ \E s \in Chunks : bytes' = bytes \o s
  /\ out' = <<>> /\ asked' = 0
  /\ UNCHANGED <<pos, exact>>

\* Reading may lose the place; moving back finds it again.
Read ==
  /\ \E n \in 0 .. Len(bytes) :
       LET got == SmallerOf(n, Len(bytes) - pos)
       IN  out' = Slice(pos, got) /\ pos' = pos + got
  /\ exact' \in BOOLEAN /\ asked' = 0
  /\ UNCHANGED bytes

\* Bytes are read, and some of those that were read are dropped.
Take ==
  /\ \E n \in pos .. Len(bytes) : \E d \in 0 .. n :
       /\ out' = Slice(pos, n - pos)
       /\ bytes' = SubSeq(bytes, d + 1, Len(bytes))
       /\ pos' = n - d
  /\ asked' = 0
  /\ exact' \in BOOLEAN

\* Bytes are returned from a position on, which is right as long as the
\* queue knows its place.
ReadFrom ==
  /\ asked' \in 0 .. Len(bytes)
  /\ \E from \in 0 .. Len(bytes), n \in 0 .. MaxChunk :
       LET got == SmallerOf(n, Len(bytes) - from)
       IN  /\ exact => from = asked'
           /\ out' = Slice(from, got)
           /\ pos' = from + got
  /\ exact' \in BOOLEAN
  /\ UNCHANGED bytes

Rewind ==
  /\ pos' = 0
  /\ exact' = TRUE
  /\ out' = <<>> /\ asked' = 0
  /\ UNCHANGED bytes

Clear ==
  /\ bytes' = <<>> /\ pos' = 0 /\ exact' = TRUE
  /\ out' = <<>> /\ asked' = 0

Next == Extend \/ Read \/ Take \/ ReadFrom \/ Rewind \/ Clear

Spec == Init /\ [][Next]_vars
=============================================================================
