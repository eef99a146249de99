-------------------------- MODULE MessageProofs ---------------------------
(***************************************************************************)
(* Proofs about the way of a message: the block queue it is received into  *)
(* and sent from (Nbq), and what is noted of it as it is read (HttpMsg).   *)
(*                                                                         *)
(* The block queue: its counters agree with its pointers (CountersAgree),  *)
(* and it implements the byte queue of module ByteQueue.  A queue is a row *)
(* of places, BlockSize to a block: Place(k, j) is the number of bytes     *)
(* before byte j + 1 of block k, and ByteAt(b, i) is the i-th byte, in     *)
(* whatever block it is.  QueueOK(b) says that the pointers are places in  *)
(* the row and that the counters are the distances between them.  Each     *)
(* function has a lemma of what it makes of a queue that is QueueOK, in    *)
(* terms of the bytes: WritesOn, ReadsOn, Sends.                           *)
(*                                                                         *)
(* Messages: what a session sees of one is what was sent (AsSent), and it  *)
(* is taken when it is whole (TakenWhole).  Noted(f, w, cuts, base, off)   *)
(* says what the parser's state f has of the first off symbols of w, when  *)
(* the piece that is parsed begins at base: of every part the pieces that  *)
(* are closed (Lists), the last one (IsLatest) or the bytes (BodyIs), and  *)
(* what is open (Opened).  It is kept by a symbol (SymbolNoted), hence by  *)
(* a piece (PieceNoted), which is cut where it ends.                       *)
(*                                                                         *)
(* The loops of both are proved by induction over their turns (UpTo).      *)
(***************************************************************************)
EXTENDS Nbq, HttpMsg, FiniteSetTheorems, SequenceTheorems, WellFoundedInduction, TLAPS

-----------------------------------------------------------------------------
(* Induction over the turns of a loop.                                     *)

\* A set of naturals that is not empty has a least element.
LEMMA LeastNatural ==
  ASSUME NEW S \in SUBSET Nat, S # {}
  PROVE  \E m \in S : \A n \in S : m <= n
<1> DEFINE R == {ss \in Nat \X Nat : ss[1] < ss[2]}
<1>1. OpToRel(<, Nat) = R
  BY DEF OpToRel
<1>2. IsWellFoundedOn(R, Nat)
  BY <1>1, NatLessThanWellFounded
<1> HIDE DEF R
<1>3. PICK m \in S : \A n \in S : ~(<<n, m>> \in R)
  BY <1>2, WFMin
<1>4. ASSUME NEW n \in S
      PROVE  ~(n < m)
  BY <1>3 DEF R
<1> QED
  BY <1>4

\* A set that holds 0, and n + 1 with every n below m, holds 0 .. m.
LEMMA UpTo ==
  ASSUME NEW m \in Nat, NEW S, 0 \in S,
         \A n \in 0 .. m - 1 : n \in S => n + 1 \in S
  PROVE  0 .. m \subseteq S
<1> DEFINE Out == (0 .. m) \ S
<1>1. CASE Out # {}
  <2>1. Out \in SUBSET Nat
    OBVIOUS
  <2>0. PICK n \in Out : \A k \in Out : n <= k
    <3> HIDE DEF Out
    <3> QED BY <1>1, <2>1, LeastNatural
  <2>2. n \in 1 .. m /\ n - 1 \in 0 .. m - 1 /\ n - 1 \notin Out
    BY <2>0
  <2>3. n - 1 \in S /\ (n - 1) + 1 = n
    BY <2>2
  <2> QED
    BY <2>0, <2>2, <2>3
<1> QED
  BY <1>1

\* f is what comes of t when the function step is applied up to n times.
Iterates(f, X, step, t, n) ==
  f \in [0 .. n -> X] /\ f[0] = t /\ \A i \in 1 .. n : f[i] = step[f[i - 1]]

\* A function on a set can be applied again and again.
LEMMA Iterated ==
  ASSUME NEW X, NEW step \in [X -> X], NEW t \in X, NEW n \in Nat
  PROVE  \E f : Iterates(f, X, step, t, n)
<1> DEFINE Begins(f, k) == Iterates(f, X, step, t, k)
           S == {k \in 0 .. n : \E f : Begins(f, k)}
<1>1. 0 \in S
  <2>1. Begins([i \in 0 .. 0 |-> t], 0)
    BY DEF Iterates
  <2> HIDE DEF Begins
  <2> QED
    BY <2>1
<1>2. ASSUME NEW k \in 0 .. n - 1, k \in S
      PROVE  k + 1 \in S
  <2>1. PICK f : Begins(f, k)
    BY <1>2
  <2> DEFINE g == [i \in 0 .. k + 1 |-> IF i <= k THEN f[i] ELSE step[f[k]]]
  <2>2. g \in [0 .. k + 1 -> X] /\ g[0] = t
    BY <2>1 DEF Iterates
  <2>3. \A i \in 1 .. k + 1 : g[i] = step[g[i - 1]]
    BY <2>1 DEF Iterates
  <2>4. Begins(g, k + 1)
    BY <2>2, <2>3 DEF Iterates
  <2> HIDE DEF g, Begins
  <2> QED
    BY <2>4
<1> HIDE DEF S
<1>3. 0 .. n \subseteq S
  BY <1>1, <1>2, UpTo
<1> QED
  BY <1>3 DEF S

\* f is a run of n turns of the loop, in X, from t.
WriteRun(f, X, t, n) ==
  /\ f \in [0 .. n -> X] /\ f[0] = t
  /\ \A i \in 1 .. n : f[i] = WriteTurn(f[i - 1])
  /\ Turns(WriteTurn, t, n) = f[n]
ReadRun(f, X, t, n) ==
  /\ f \in [0 .. n -> X] /\ f[0] = t
  /\ \A i \in 1 .. n : f[i] = ReadTurn(f[i - 1])
  /\ Turns(ReadTurn, t, n) = f[n]
NcReadRun(f, X, t, n) ==
  /\ f \in [0 .. n -> X] /\ f[0] = t
  /\ \A i \in 1 .. n : f[i] = NcReadTurn(f[i - 1])
  /\ Turns(NcReadTurn, t, n) = f[n]
WriteFdRun(f, X, t, n) ==
  /\ f \in [0 .. n -> X] /\ f[0] = t
  /\ \A i \in 1 .. n : f[i] = WriteFdTurn(f[i - 1])
  /\ Turns(WriteFdTurn, t, n) = f[n]
NcWriteRun(f, X, t, n) ==
  /\ f \in [0 .. n -> X] /\ f[0] = t
  /\ \A i \in 1 .. n : f[i] = NcWriteTurn(f[i - 1])
  /\ Turns(NcWriteTurn, t, n) = f[n]

\* The turns of each loop, when a turn stays in a set of states: they are a
\* function from the number of turns to that set.
LEMMA WriteTurns ==
  ASSUME NEW X, NEW t \in X, NEW n \in Nat, \A u \in X : WriteTurn(u) \in X
  PROVE  \E f : WriteRun(f, X, t, n)
<1> DEFINE step == [u \in X |-> WriteTurn(u)]
           Fits(f) == f = [i \in 0 .. n |-> IF i = 0 THEN t ELSE WriteTurn(f[i - 1])]
<1>1. PICK f : Iterates(f, X, step, t, n)
  <2>1. step \in [X -> X]
    OBVIOUS
  <2> HIDE DEF step
  <2> QED BY <2>1, Iterated
<1>2. Fits(f)
  <2>1. f \in [0 .. n -> X] /\ f[0] = t /\ \A i \in 1 .. n : f[i] = step[f[i - 1]]
    BY <1>1 DEF Iterates
  <2>2. ASSUME NEW i \in 1 .. n
        PROVE  f[i - 1] \in X
    BY <2>1
  <2>3. ASSUME NEW i \in 0 .. n
        PROVE  f[i] = IF i = 0 THEN t ELSE WriteTurn(f[i - 1])
    <3>1. CASE i = 0
      BY <2>1, <3>1
    <3>2. CASE i # 0
      <4>1. i \in 1 .. n
        BY <3>2
      <4>2. f[i] = step[f[i - 1]] /\ f[i - 1] \in X
        BY <2>1, <2>2, <4>1
      <4> QED
        BY <3>2, <4>2
    <3> QED
      BY <3>1, <3>2
  <2> HIDE DEF step
  <2> QED
    BY <2>1, <2>3
<1> DEFINE g == CHOOSE e : Fits(e)
<1>3. Fits(g)
  <2> HIDE DEF Fits
  <2> QED BY <1>2
<1>4. Turns(WriteTurn, t, n) = g[n]
  BY DEF Turns
<1> HIDE DEF g
<1> DEFINE S == {i \in 0 .. n : g[i] \in X}
<1>5. 0 \in S
  BY <1>3
<1>6. ASSUME NEW i \in 0 .. n - 1, i \in S
      PROVE  i + 1 \in S
  BY <1>3, <1>6
<1> HIDE DEF S
<1>7. \A i \in 0 .. n : i \in S
  BY <1>5, <1>6, UpTo
<1>8. g \in [0 .. n -> X]
  BY <1>3, <1>7 DEF S
<1>9. WriteRun(g, X, t, n)
  BY <1>3, <1>4, <1>8 DEF WriteRun
<1> QED
  BY <1>9

LEMMA ReadTurns ==
  ASSUME NEW X, NEW t \in X, NEW n \in Nat, \A u \in X : ReadTurn(u) \in X
  PROVE  \E f : ReadRun(f, X, t, n)
<1> DEFINE step == [u \in X |-> ReadTurn(u)]
           Fits(f) == f = [i \in 0 .. n |-> IF i = 0 THEN t ELSE ReadTurn(f[i - 1])]
<1>1. PICK f : Iterates(f, X, step, t, n)
  <2>1. step \in [X -> X]
    OBVIOUS
  <2> HIDE DEF step
  <2> QED BY <2>1, Iterated
<1>2. Fits(f)
  <2>1. f \in [0 .. n -> X] /\ f[0] = t /\ \A i \in 1 .. n : f[i] = step[f[i - 1]]
    BY <1>1 DEF Iterates
  <2>2. ASSUME NEW i \in 1 .. n
        PROVE  f[i - 1] \in X
    BY <2>1
  <2>3. ASSUME NEW i \in 0 .. n
        PROVE  f[i] = IF i = 0 THEN t ELSE ReadTurn(f[i - 1])
    <3>1. CASE i = 0
      BY <2>1, <3>1
    <3>2. CASE i # 0
      <4>1. i \in 1 .. n
        BY <3>2
      <4>2. f[i] = step[f[i - 1]] /\ f[i - 1] \in X
        BY <2>1, <2>2, <4>1
      <4> QED
        BY <3>2, <4>2
    <3> QED
      BY <3>1, <3>2
  <2> HIDE DEF step
  <2> QED
    BY <2>1, <2>3
<1> DEFINE g == CHOOSE e : Fits(e)
<1>3. Fits(g)
  <2> HIDE DEF Fits
  <2> QED BY <1>2
<1>4. Turns(ReadTurn, t, n) = g[n]
  BY DEF Turns
<1> HIDE DEF g
<1> DEFINE S == {i \in 0 .. n : g[i] \in X}
<1>5. 0 \in S
  BY <1>3
<1>6. ASSUME NEW i \in 0 .. n - 1, i \in S
      PROVE  i + 1 \in S
  BY <1>3, <1>6
<1> HIDE DEF S
<1>7. \A i \in 0 .. n : i \in S
  BY <1>5, <1>6, UpTo
<1>8. g \in [0 .. n -> X]
  BY <1>3, <1>7 DEF S
<1>9. ReadRun(g, X, t, n)
  BY <1>3, <1>4, <1>8 DEF ReadRun
<1> QED
  BY <1>9

LEMMA NcReadTurns ==
  ASSUME NEW X, NEW t \in X, NEW n \in Nat, \A u \in X : NcReadTurn(u) \in X
  PROVE  \E f : NcReadRun(f, X, t, n)
<1> DEFINE step == [u \in X |-> NcReadTurn(u)]
           Fits(f) == f = [i \in 0 .. n |-> IF i = 0 THEN t ELSE NcReadTurn(f[i - 1])]
<1>1. PICK f : Iterates(f, X, step, t, n)
  <2>1. step \in [X -> X]
    OBVIOUS
  <2> HIDE DEF step
  <2> QED BY <2>1, Iterated
<1>2. Fits(f)
  <2>1. f \in [0 .. n -> X] /\ f[0] = t /\ \A i \in 1 .. n : f[i] = step[f[i - 1]]
    BY <1>1 DEF Iterates
  <2>2. ASSUME NEW i \in 1 .. n
        PROVE  f[i - 1] \in X
    BY <2>1
  <2>3. ASSUME NEW i \in 0 .. n
        PROVE  f[i] = IF i = 0 THEN t ELSE NcReadTurn(f[i - 1])
    <3>1. CASE i = 0
      BY <2>1, <3>1
    <3>2. CASE i # 0
      <4>1. i \in 1 .. n
        BY <3>2
      <4>2. f[i] = step[f[i - 1]] /\ f[i - 1] \in X
        BY <2>1, <2>2, <4>1
      <4> QED
        BY <3>2, <4>2
    <3> QED
      BY <3>1, <3>2
  <2> HIDE DEF step
  <2> QED
    BY <2>1, <2>3
<1> DEFINE g == CHOOSE e : Fits(e)
<1>3. Fits(g)
  <2> HIDE DEF Fits
  <2> QED BY <1>2
<1>4. Turns(NcReadTurn, t, n) = g[n]
  BY DEF Turns
<1> HIDE DEF g
<1> DEFINE S == {i \in 0 .. n : g[i] \in X}
<1>5. 0 \in S
  BY <1>3
<1>6. ASSUME NEW i \in 0 .. n - 1, i \in S
      PROVE  i + 1 \in S
  BY <1>3, <1>6
<1> HIDE DEF S
<1>7. \A i \in 0 .. n : i \in S
  BY <1>5, <1>6, UpTo
<1>8. g \in [0 .. n -> X]
  BY <1>3, <1>7 DEF S
<1>9. NcReadRun(g, X, t, n)
  BY <1>3, <1>4, <1>8 DEF NcReadRun
<1> QED
  BY <1>9

LEMMA WriteFdTurns ==
  ASSUME NEW X, NEW t \in X, NEW n \in Nat, \A u \in X : WriteFdTurn(u) \in X
  PROVE  \E f : WriteFdRun(f, X, t, n)
<1> DEFINE step == [u \in X |-> WriteFdTurn(u)]
           Fits(f) == f = [i \in 0 .. n |-> IF i = 0 THEN t ELSE WriteFdTurn(f[i - 1])]
<1>1. PICK f : Iterates(f, X, step, t, n)
  <2>1. step \in [X -> X]
    OBVIOUS
  <2> HIDE DEF step
  <2> QED BY <2>1, Iterated
<1>2. Fits(f)
  <2>1. f \in [0 .. n -> X] /\ f[0] = t /\ \A i \in 1 .. n : f[i] = step[f[i - 1]]
    BY <1>1 DEF Iterates
  <2>2. ASSUME NEW i \in 1 .. n
        PROVE  f[i - 1] \in X
    BY <2>1
  <2>3. ASSUME NEW i \in 0 .. n
        PROVE  f[i] = IF i = 0 THEN t ELSE WriteFdTurn(f[i - 1])
    <3>1. CASE i = 0
      BY <2>1, <3>1
    <3>2. CASE i # 0
      <4>1. i \in 1 .. n
        BY <3>2
      <4>2. f[i] = step[f[i - 1]] /\ f[i - 1] \in X
        BY <2>1, <2>2, <4>1
      <4> QED
        BY <3>2, <4>2
    <3> QED
      BY <3>1, <3>2
  <2> HIDE DEF step
  <2> QED
    BY <2>1, <2>3
<1> DEFINE g == CHOOSE e : Fits(e)
<1>3. Fits(g)
  <2> HIDE DEF Fits
  <2> QED BY <1>2
<1>4. Turns(WriteFdTurn, t, n) = g[n]
  BY DEF Turns
<1> HIDE DEF g
<1> DEFINE S == {i \in 0 .. n : g[i] \in X}
<1>5. 0 \in S
  BY <1>3
<1>6. ASSUME NEW i \in 0 .. n - 1, i \in S
      PROVE  i + 1 \in S
  BY <1>3, <1>6
<1> HIDE DEF S
<1>7. \A i \in 0 .. n : i \in S
  BY <1>5, <1>6, UpTo
<1>8. g \in [0 .. n -> X]
  BY <1>3, <1>7 DEF S
<1>9. WriteFdRun(g, X, t, n)
  BY <1>3, <1>4, <1>8 DEF WriteFdRun
<1> QED
  BY <1>9

LEMMA NcWriteTurns ==
  ASSUME NEW X, NEW t \in X, NEW n \in Nat, \A u \in X : NcWriteTurn(u) \in X
  PROVE  \E f : NcWriteRun(f, X, t, n)
<1> DEFINE step == [u \in X |-> NcWriteTurn(u)]
           Fits(f) == f = [i \in 0 .. n |-> IF i = 0 THEN t ELSE NcWriteTurn(f[i - 1])]
<1>1. PICK f : Iterates(f, X, step, t, n)
  <2>1. step \in [X -> X]
    OBVIOUS
  <2> HIDE DEF step
  <2> QED BY <2>1, Iterated
<1>2. Fits(f)
  <2>1. f \in [0 .. n -> X] /\ f[0] = t /\ \A i \in 1 .. n : f[i] = step[f[i - 1]]
    BY <1>1 DEF Iterates
  <2>2. ASSUME NEW i \in 1 .. n
        PROVE  f[i - 1] \in X
    BY <2>1
  <2>3. ASSUME NEW i \in 0 .. n
        PROVE  f[i] = IF i = 0 THEN t ELSE NcWriteTurn(f[i - 1])
    <3>1. CASE i = 0
      BY <2>1, <3>1
    <3>2. CASE i # 0
      <4>1. i \in 1 .. n
        BY <3>2
      <4>2. f[i] = step[f[i - 1]] /\ f[i - 1] \in X
        BY <2>1, <2>2, <4>1
      <4> QED
        BY <3>2, <4>2
    <3> QED
      BY <3>1, <3>2
  <2> HIDE DEF step
  <2> QED
    BY <2>1, <2>3
<1> DEFINE g == CHOOSE e : Fits(e)
<1>3. Fits(g)
  <2> HIDE DEF Fits
  <2> QED BY <1>2
<1>4. Turns(NcWriteTurn, t, n) = g[n]
  BY DEF Turns
<1> HIDE DEF g
<1> DEFINE S == {i \in 0 .. n : g[i] \in X}
<1>5. 0 \in S
  BY <1>3
<1>6. ASSUME NEW i \in 0 .. n - 1, i \in S
      PROVE  i + 1 \in S
  BY <1>3, <1>6
<1> HIDE DEF S
<1>7. \A i \in 0 .. n : i \in S
  BY <1>5, <1>6, UpTo
<1>8. g \in [0 .. n -> X]
  BY <1>3, <1>7 DEF S
<1>9. NcWriteRun(g, X, t, n)
  BY <1>3, <1>4, <1>8 DEF NcWriteRun
<1> QED
  BY <1>9

-----------------------------------------------------------------------------
(* Places in the queue.                                                    *)

\* The number of bytes before place j of block k.
Place(k, j) == (k - 1) * BlockSize + j
\* The byte at place i, counted from 1.
ByteAt(b, i) ==
  b.blocks[((i - 1) \div BlockSize) + 1][((i - 1) % BlockSize) + 1]
WritePlace(b) == IF b.wBlk = 0 THEN 0 ELSE Place(b.wBlk, b.wPos)

LEMMA DivMod ==
  ASSUME NEW n \in Nat, NEW m \in Nat \ {0}
  PROVE  /\ n \div m \in Nat /\ n % m \in 0 .. m - 1
         /\ n = (n \div m) * m + (n % m)
OBVIOUS

\* Quotient and rest are those that fit.
LEMMA DivModUnique ==
  ASSUME NEW k \in Nat, NEW j \in Nat, NEW m \in Nat \ {0}, j < m
  PROVE  (k * m + j) \div m = k /\ (k * m + j) % m = j
<1> DEFINE n == k * m + j
           d == n \div m
           r == n % m
<1>1. n \in Nat
  OBVIOUS
<1>2. d \in Nat /\ r \in 0 .. m - 1 /\ n = d * m + r
  BY <1>1, DivMod
<1> HIDE DEF d, r
<1>3. d = k
  <2>1. CASE d < k
    <3>1. (d + 1) * m <= k * m
      BY <1>2, <2>1
    <3> QED BY <3>1, <1>2
  <2>2. CASE d > k
    <3>1. (k + 1) * m <= d * m
      BY <1>2, <2>2
    <3> QED BY <3>1, <1>2
  <2> QED BY <2>1, <2>2, <1>2
<1> QED BY <1>2, <1>3 DEF d, r

\* How places are counted.
LEMMA Places ==
  /\ Place(1, 0) = 0
  /\ \A k \in Nat \ {0}, j \in Nat : Place(k, j) \in Nat
  /\ \A k \in Nat \ {0}, j \in Nat, n \in Nat : Place(k, j + n) = Place(k, j) + n
  /\ \A k \in Nat \ {0} : Place(k + 1, 0) = Place(k, BlockSize)
BY SizesAssumption DEF Place

\* A later block begins after the end of an earlier one.
LEMMA PlaceOrder ==
  ASSUME NEW k \in Nat \ {0}, NEW l \in Nat, k < l
  PROVE  Place(k, BlockSize) <= Place(l, 0)
<1>1. k * BlockSize <= (l - 1) * BlockSize
  BY SizesAssumption
<1> QED
  BY <1>1, SizesAssumption DEF Place

\* The byte after place j of block k.
LEMMA ByteInBlock ==
  ASSUME NEW b, NEW k \in Nat \ {0}, NEW j \in 1 .. BlockSize
  PROVE  ByteAt(b, Place(k, j)) = b.blocks[k][j]
<1>1. Place(k, j) - 1 = (k - 1) * BlockSize + (j - 1)
  BY SizesAssumption DEF Place
<1>2. /\ (Place(k, j) - 1) \div BlockSize = k - 1
      /\ (Place(k, j) - 1) % BlockSize = j - 1
  <2> DEFINE d == k - 1
             r == j - 1
  <2>1. d \in Nat /\ r \in Nat /\ r < BlockSize
    BY SizesAssumption
  <2>2. Place(k, j) - 1 = d * BlockSize + r
    BY <1>1
  <2> HIDE DEF d, r
  <2>3. (d * BlockSize + r) \div BlockSize = d /\ (d * BlockSize + r) % BlockSize = r
    BY <2>1, DivModUnique, SizesAssumption
  <2> QED
    BY <2>2, <2>3 DEF d, r
<1> QED
  BY <1>2, SizesAssumption DEF ByteAt

\* Every place is in a block.
LEMMA PlaceOf ==
  ASSUME NEW i \in Nat \ {0}
  PROVE  \E k \in Nat \ {0}, j \in 1 .. BlockSize : i = Place(k, j)
<1> DEFINE k == ((i - 1) \div BlockSize) + 1
           j == ((i - 1) % BlockSize) + 1
<1>1. /\ (i - 1) \div BlockSize \in Nat /\ (i - 1) % BlockSize \in 0 .. BlockSize - 1
      /\ i - 1 = ((i - 1) \div BlockSize) * BlockSize + ((i - 1) % BlockSize)
  <2> DEFINE n == i - 1
  <2>1. n \in Nat
    OBVIOUS
  <2> HIDE DEF n
  <2>2. /\ n \div BlockSize \in Nat /\ n % BlockSize \in 0 .. BlockSize - 1
        /\ n = (n \div BlockSize) * BlockSize + (n % BlockSize)
    BY <2>1, DivMod, SizesAssumption
  <2> QED
    BY <2>2 DEF n
<1>2. k \in Nat \ {0} /\ j \in 1 .. BlockSize /\ i = Place(k, j)
  <2> DEFINE d == (i - 1) \div BlockSize
             r == (i - 1) % BlockSize
  <2>1. d \in Nat /\ r \in 0 .. BlockSize - 1 /\ i - 1 = d * BlockSize + r
    BY <1>1
  <2>2. k = d + 1 /\ j = r + 1
    OBVIOUS
  <2> HIDE DEF d, r, k, j
  <2>3. k - 1 = d
    BY <2>1, <2>2
  <2> QED
    BY <2>1, <2>2, <2>3, SizesAssumption DEF Place
<1> HIDE DEF k, j
<1> QED
  BY <1>2

\* A place of block k before place j of block l.
LEMMA PlaceBefore ==
  ASSUME NEW k \in Nat \ {0}, NEW l \in Nat \ {0},
         NEW j \in 1 .. BlockSize, NEW m \in 0 .. BlockSize
  PROVE  Place(k, j) <= Place(l, m) <=> k < l \/ (k = l /\ j <= m)
<1>0. (k - 1) * BlockSize \in Int /\ (l - 1) * BlockSize \in Int
  BY SizesAssumption
<1>1. CASE k < l
  <2>1. Place(k, BlockSize) <= Place(l, 0)
    BY <1>1, PlaceOrder
  <2> QED
    BY <1>0, <1>1, <2>1, SizesAssumption DEF Place
<1>2. CASE k = l
  BY <1>2, SizesAssumption DEF Place
<1>3. CASE k > l
  <2>1. Place(l, BlockSize) <= Place(k, 0)
    BY <1>3, PlaceOrder
  <2> QED
    BY <1>0, <1>3, <2>1, SizesAssumption DEF Place
<1> QED
  BY <1>1, <1>2, <1>3

LEMMA WrittenBytes ==
  ASSUME NEW b
  PROVE  Written(b) = [i \in 1 .. WritePlace(b) |-> ByteAt(b, i)]
BY DEF Written, WritePlace, Place, ByteAt

-----------------------------------------------------------------------------
(* The queues.                                                             *)

\* The queues there are: of the members' types, and
Block == [1 .. BlockSize -> Byte \union {NoByte}]
Queues ==
  [blocks : Seq(Block),
   wBlk : Nat, wPos : Nat, wAvail : Nat, wOff : Nat,
   rBlk : Nat, rPos : Nat, rOff : Nat, total : Nat]

\* with pointers into blocks that agree with each other and with the counters.
Pointers(b) ==
  /\ b.wBlk \in 1 .. Len(b.blocks) /\ b.wPos \in 0 .. BlockSize
  /\ b.wAvail = BlockSize - b.wPos
  /\ b.wAvail = 0 => b.wBlk = Len(b.blocks)
  /\ b.wOff = Place(b.wBlk, b.wPos)
  /\ b.rBlk \in 1 .. b.wBlk /\ b.rPos \in 0 .. BlockSize
  /\ Place(b.rBlk, b.rPos) + b.total = b.wOff
  /\ Place(b.rBlk, b.rPos) <= b.rOff

QueueOK(b) ==
  /\ b \in Queues
  /\ b.blocks = <<>> => b = EmptyQueue
  /\ b.blocks # <<>> => Pointers(b)
  /\ \A i \in 1 .. b.wOff : ByteAt(b, i) \in Byte

\* A queue of which some members are changed, as a record of all.
LEMMA AsGrown ==
  ASSUME NEW b \in Queues,
         NEW u \in Seq(Block), NEW v \in Nat
  PROVE  [b EXCEPT !.blocks = u, !.wAvail = v]
         = [blocks |-> u, wBlk |-> b.wBlk, wPos |-> b.wPos, wAvail |-> v,
            wOff |-> b.wOff, rBlk |-> b.rBlk, rPos |-> b.rPos,
            rOff |-> b.rOff, total |-> b.total]
<1> DEFINE c == [b EXCEPT !.blocks = u, !.wAvail = v]
<1>1. c \in Queues
  BY DEF Queues
<1>2. /\ c.blocks = u /\ c.wBlk = b.wBlk /\ c.wPos = b.wPos /\ c.wAvail = v /\ c.wOff = b.wOff
      /\ c.rBlk = b.rBlk /\ c.rPos = b.rPos /\ c.rOff = b.rOff /\ c.total = b.total
  BY DEF Queues
<1> HIDE DEF c
<1>3. c = [blocks |-> c.blocks, wBlk |-> c.wBlk, wPos |-> c.wPos, wAvail |-> c.wAvail, wOff |-> c.wOff, rBlk |-> c.rBlk, rPos |-> c.rPos, rOff |-> c.rOff, total |-> c.total]
  BY <1>1 DEF Queues
<1> QED
  BY <1>2, <1>3 DEF c

\* What has been written, and what of it is left to be read.
LEMMA QueueFacts ==
  ASSUME NEW b, QueueOK(b)
  PROVE  /\ WritePlace(b) = b.wOff /\ b.wOff \in Nat /\ b.total \in Nat
         /\ Written(b) \in Seq(Byte) /\ Len(Written(b)) = b.wOff
         /\ \A i \in 1 .. b.wOff : Written(b)[i] = ByteAt(b, i)
         /\ ReadPlace(b) \in Nat /\ ReadPlace(b) + b.total = b.wOff
         /\ b.rOff \in Nat /\ ReadPlace(b) <= b.rOff
<1>1. b \in Queues /\ b.wOff \in Nat /\ b.total \in Nat /\ b.rOff \in Nat
  BY DEF QueueOK, Queues
<1>2. CASE b.blocks = <<>>
  BY <1>1, <1>2 DEF QueueOK, EmptyQueue, WritePlace, ReadPlace, Written
<1>3. CASE b.blocks # <<>>
  <2>1. Pointers(b)
    BY <1>3 DEF QueueOK
  <2>2. b.wBlk \in Nat \ {0} /\ b.rBlk \in Nat \ {0} /\ b.wPos \in Nat /\ b.rPos \in Nat
    BY <2>1, <1>1 DEF Pointers, Queues
  <2>3. ReadPlace(b) = Place(b.rBlk, b.rPos) /\ WritePlace(b) = b.wOff
    <3>1. b.rBlk # 0 /\ b.wBlk # 0 /\ b.wOff = Place(b.wBlk, b.wPos)
      BY <2>1, <2>2 DEF Pointers
    <3> QED
      BY <3>1 DEF ReadPlace, WritePlace, Place
  <2>4. ReadPlace(b) \in Nat
    <3>1. Place(b.rBlk, b.rPos) \in Nat
      BY <2>2, Places
    <3> QED
      BY <2>3, <3>1
  <2>5. Written(b) = [i \in 1 .. b.wOff |-> ByteAt(b, i)]
    BY <2>3, WrittenBytes
  <2>6. \A i \in 1 .. b.wOff : ByteAt(b, i) \in Byte
    BY DEF QueueOK
  <2> QED
    BY <1>1, <2>1, <2>3, <2>4, <2>5, <2>6 DEF Pointers
<1> QED
  BY <1>2, <1>3

LEMMA EmptyBlockType == EmptyBlock \in Block
BY DEF EmptyBlock, Block

LEMMA EmptyQueueOK ==
  QueueOK(EmptyQueue) /\ Written(EmptyQueue) = <<>> /\ ReadPlace(EmptyQueue) = 0
<1>1. <<>> \in Seq(Block)
  BY EmptySeq
<1>2. EmptyQueue \in Queues
  BY <1>1 DEF EmptyQueue, Queues, Block
<1>3. Written(EmptyQueue) = <<>> /\ ReadPlace(EmptyQueue) = 0
  BY DEF EmptyQueue, Written, ReadPlace
<1> QED
  BY <1>2, <1>3 DEF QueueOK, EmptyQueue

\* A block is added at the end of the queue, to be written to next.
LEMMA RoomIsMade ==
  ASSUME NEW b, QueueOK(b)
  PROVE  LET r == Room(b)
         IN  /\ QueueOK(r) /\ r.blocks # <<>> /\ r.wAvail \in 1 .. BlockSize
             /\ Written(r) = Written(b) /\ ReadPlace(r) = ReadPlace(b)
             /\ r.rOff = b.rOff /\ r.total = b.total
<1> DEFINE r == Room(b)
<1>0. b \in Queues /\ b.blocks \in Seq(Block) /\ b.wAvail \in Nat
  BY DEF QueueOK, Queues, Block
<1>1. CASE b.wAvail # 0
  <2>1. r = b /\ b.blocks # <<>>
    BY <1>1 DEF Room, QueueOK, EmptyQueue
  <2>2. b.wAvail \in 1 .. BlockSize
    BY <1>0, <1>1, <2>1, SizesAssumption DEF QueueOK, Pointers
  <2> QED
    BY <2>1, <2>2
<1>2. CASE b.blocks = <<>>
  <2>1. b = EmptyQueue
    BY <1>2 DEF QueueOK
  <2>2. Append(<<>>, EmptyBlock) = <<EmptyBlock>> /\ <<EmptyBlock>> \in Seq(Block)
    BY EmptyBlockType
  <2> DEFINE g == [b EXCEPT !.blocks = <<EmptyBlock>>, !.wAvail = 0 + BlockSize]
  <2>3. r = [g EXCEPT !.wBlk = 1, !.wPos = 0, !.rBlk = 1, !.rPos = 0]
    <3>1. b.wAvail = 0 /\ Len(b.blocks) + 1 = 1
      BY <1>2, <2>1 DEF EmptyQueue
    <3> QED
      BY <1>2, <2>2, <3>1 DEF Room, WriteAddAvail
  <2>4. /\ g \in Queues /\ g.blocks = <<EmptyBlock>> /\ g.wAvail = BlockSize
        /\ g.wOff = 0 /\ g.rOff = 0 /\ g.total = 0
    <3>1. 0 + BlockSize \in Nat /\ 0 + BlockSize = BlockSize
      BY SizesAssumption
    <3>2. g = [blocks |-> <<EmptyBlock>>, wBlk |-> b.wBlk, wPos |-> b.wPos,
               wAvail |-> 0 + BlockSize, wOff |-> b.wOff, rBlk |-> b.rBlk,
               rPos |-> b.rPos, rOff |-> b.rOff, total |-> b.total]
      BY <1>0, <2>2, <3>1, AsGrown, Zenon
    <3> HIDE DEF g
    <3> QED
      BY <1>0, <2>1, <2>2, <3>1, <3>2, SizesAssumption DEF EmptyQueue, Queues
  <2> HIDE DEF g
  <2>10. /\ r \in Queues
         /\ r.blocks = <<EmptyBlock>> /\ r.wBlk = 1 /\ r.wPos = 0 /\ r.wAvail = BlockSize
         /\ r.wOff = 0 /\ r.rBlk = 1 /\ r.rPos = 0 /\ r.rOff = 0 /\ r.total = 0
    <3>1. r = [blocks |-> g.blocks, wBlk |-> 1, wPos |-> 0,
               wAvail |-> g.wAvail, wOff |-> g.wOff, rBlk |-> 1,
               rPos |-> 0, rOff |-> g.rOff, total |-> g.total]
      BY <2>3, <2>4 DEF Queues
    <3> HIDE DEF r
    <3> QED
      BY <2>4, <3>1 DEF Queues
  <2> HIDE DEF r
  <2>5. Place(1, 0) = 0
    BY Places
  <2>6. r.blocks # <<>> /\ Len(r.blocks) = 1
    BY <2>10
  <2>7. Pointers(r)
    BY <2>10, <2>5, <2>6, SizesAssumption DEF Pointers
  <2>8. QueueOK(r)
    BY <2>10, <2>6, <2>7 DEF QueueOK
  <2>9. Written(r) = <<>> /\ ReadPlace(r) = 0
    <3>1. r.wOff = 0 /\ r.rBlk = 1 /\ r.rPos = 0
      BY <2>10
    <3>2. Written(r) \in Seq(Byte) /\ Len(Written(r)) = 0
      BY <2>8, <3>1, QueueFacts
    <3> QED
      BY <3>1, <3>2, EmptySeq, SizesAssumption DEF ReadPlace
  <2> QED
    BY <2>1, <2>10, <2>6, <2>8, <2>9, EmptyQueueOK, SizesAssumption DEF EmptyQueue, r
<1>3. CASE b.wAvail = 0 /\ b.blocks # <<>>
  <2> DEFINE k == Len(b.blocks)
  <2>1. Pointers(b) /\ b.wBlk = k /\ k \in Nat \ {0} /\ b.wPos = BlockSize
    BY <1>0, <1>3, SizesAssumption DEF QueueOK, Pointers
  <2>2. /\ Append(b.blocks, EmptyBlock) \in Seq(Block)
        /\ Append(b.blocks, EmptyBlock) # <<>>
        /\ Len(Append(b.blocks, EmptyBlock)) = k + 1
        /\ \A i \in 1 .. k : Append(b.blocks, EmptyBlock)[i] = b.blocks[i]
    BY <1>0, EmptyBlockType, AppendProperties
  <2> DEFINE g == [b EXCEPT !.blocks = Append(@, EmptyBlock), !.wAvail = @ + BlockSize]
  <2>3. r = [g EXCEPT !.wBlk = @ + 1, !.wPos = 0]
    <3>1. ~(k + 1 = 1) /\ b.wBlk # k + 1
      BY <2>1
    <3> QED
      BY <1>3, <3>1 DEF Room, WriteAddAvail
  <2>4. /\ r.blocks = Append(b.blocks, EmptyBlock) /\ r.wAvail = BlockSize
        /\ r.wBlk = k + 1 /\ r.wPos = 0 /\ r.wOff = b.wOff /\ r.rBlk = b.rBlk
        /\ r.rPos = b.rPos /\ r.rOff = b.rOff /\ r.total = b.total
        /\ r \in Queues
    <3>1. b.wAvail + BlockSize \in Nat /\ b.wAvail + BlockSize = BlockSize
      BY <1>0, <1>3, SizesAssumption
    <3>2. g = [blocks |-> Append(b.blocks, EmptyBlock), wBlk |-> b.wBlk, wPos |-> b.wPos,
               wAvail |-> b.wAvail + BlockSize, wOff |-> b.wOff, rBlk |-> b.rBlk,
               rPos |-> b.rPos, rOff |-> b.rOff, total |-> b.total]
      BY <1>0, <2>2, <3>1, AsGrown, Zenon
    <3> HIDE DEF g
    <3>3. g \in Queues
      BY <1>0, <2>2, <3>1, <3>2, SizesAssumption DEF Queues
    <3>4. r = [blocks |-> g.blocks, wBlk |-> g.wBlk + 1, wPos |-> 0,
               wAvail |-> g.wAvail, wOff |-> g.wOff, rBlk |-> g.rBlk,
               rPos |-> g.rPos, rOff |-> g.rOff, total |-> g.total]
      BY <2>3, <3>3 DEF Queues
    <3> HIDE DEF r
    <3>5. r \in Queues
      BY <3>3, <3>4 DEF Queues
    <3> QED
      BY <2>1, <3>1, <3>2, <3>4, <3>5
  <2> HIDE DEF r, k
  <2>6. Place(k + 1, 0) = Place(b.wBlk, b.wPos)
    BY <2>1, Places
  <2>7. Pointers(r)
    BY <2>1, <2>2, <2>4, <2>6, SizesAssumption DEF Pointers, k
  <2>8. ASSUME NEW i \in 1 .. b.wOff
        PROVE  ByteAt(r, i) = ByteAt(b, i)
    <3>1. PICK m \in Nat \ {0}, j \in 1 .. BlockSize : i = Place(m, j)
      BY PlaceOf
    <3>2. Place(m, j) <= Place(k, BlockSize)
      BY <2>1, <3>1 DEF Pointers
    <3>3. m \in 1 .. k
      BY <2>1, <3>2, PlaceBefore, SizesAssumption
    <3> QED
      <4>1. r.blocks[m] = b.blocks[m]
        BY <2>2, <2>4, <3>3
      <4>2. ByteAt(r, i) = r.blocks[m][j] /\ ByteAt(b, i) = b.blocks[m][j]
        BY <3>1, ByteInBlock
      <4> QED
        BY <4>1, <4>2
  <2>9. QueueOK(r)
    BY <2>2, <2>4, <2>7, <2>8 DEF QueueOK
  <2>10. /\ Written(r) = [i \in 1 .. b.wOff |-> ByteAt(r, i)]
         /\ Written(b) = [i \in 1 .. b.wOff |-> ByteAt(b, i)]
    BY <2>4, <2>9, QueueFacts, WrittenBytes
  <2>11. Written(r) = Written(b)
    BY <2>8, <2>10
  <2>12. ReadPlace(r) = ReadPlace(b)
    BY <2>4 DEF ReadPlace
  <2> QED
    BY <2>2, <2>4, <2>9, <2>11, <2>12, SizesAssumption DEF r
<1> QED
  BY <1>1, <1>2, <1>3

\* What is written comes after what was written before.
LEMMA BytesAreWritten ==
  ASSUME NEW b, QueueOK(b), b.blocks # <<>>, NEW s \in Seq(Byte), Len(s) <= b.wAvail
  PROVE  LET c == WriteIncr(b, s)
         IN  /\ QueueOK(c) /\ c.blocks # <<>>
             /\ Written(c) = Written(b) \o s /\ ReadPlace(c) = ReadPlace(b)
             /\ c.rOff = b.rOff /\ c.total = b.total + Len(s)
<1> DEFINE n == Len(s)
           bb == b.blocks
           k == b.wBlk
           pos == b.wPos
           avail == b.wAvail
           off == b.wOff
           tot == b.total
           blk == [i \in 1 .. BlockSize |->
                     IF i \in pos + 1 .. pos + n THEN s[i - pos] ELSE bb[k][i]]
           bs == [bb EXCEPT ![k] = blk]
           w == [b EXCEPT !.blocks = bs, !.wPos = pos + n, !.wAvail = avail - n,
                          !.wOff = off + n, !.total = tot + n]
           c == WriteIncr(b, s)
<1>1. bb \in Seq(Block) /\ Len(bb) \in Nat /\ n \in Nat /\ n = Len(s)
  BY DEF QueueOK, Queues
<1>2. /\ avail \in Nat /\ off \in Nat /\ tot \in Nat /\ pos \in Nat /\ k \in Nat \ {0}
      /\ k <= Len(bb) /\ pos <= BlockSize /\ avail = BlockSize - pos
      /\ avail = 0 => k = Len(bb)
      /\ off = Place(k, pos) /\ n <= avail
  BY DEF QueueOK, Queues, Pointers
<1>8. pos + n <= BlockSize /\ avail - n \in Nat
  <2> HIDE DEF n, pos, avail, k, bb, off
  <2> QED
    BY <1>1, <1>2, SizesAssumption
<1>9. blk \in Block
  <2> HIDE DEF n, pos, k, bb
  <2>1. bb[k] \in Block
    BY <1>1, <1>2, ElementOfSeq
  <2>2. ASSUME NEW i \in 1 .. BlockSize
        PROVE  blk[i] \in Byte \union {NoByte}
    <3>1. CASE i \in pos + 1 .. pos + n
      <4>1. i - pos \in 1 .. Len(s)
        BY <1>1, <1>2, <3>1
      <4> QED
        BY <3>1, <4>1, ElementOfSeq
    <3>2. CASE i \notin pos + 1 .. pos + n
      BY <2>1, <3>2 DEF Block
    <3> QED
      BY <3>1, <3>2
  <2>3. blk = [i \in 1 .. BlockSize |-> blk[i]]
    OBVIOUS
  <2> HIDE DEF blk
  <2> QED
    BY <2>2, <2>3 DEF Block
<1>3. /\ w \in Queues /\ w.blocks = bs /\ w.wBlk = k /\ w.wPos = pos + n
      /\ w.wAvail = avail - n /\ w.wOff = off + n /\ w.rBlk = b.rBlk
      /\ w.rPos = b.rPos /\ w.rOff = b.rOff /\ w.total = tot + n
  <2>1. bs \in Seq(Block)
    <3> HIDE DEF blk
    <3> QED
      BY <1>9, <1>1, <1>2, ExceptSeq
  <2> DEFINE pos2 == pos + n
             avail2 == avail - n
             off2 == off + n
             tot2 == tot + n
  <2>2. pos2 \in Nat /\ avail2 \in Nat /\ off2 \in Nat /\ tot2 \in Nat
    <3> HIDE DEF n, pos, avail, off, tot, k, bb
    <3> QED
      BY <1>1, <1>2, <1>8
  <2>3. b \in Queues
    BY DEF QueueOK
  <2>4. w = [b EXCEPT !.blocks = bs, !.wPos = pos2, !.wAvail = avail2,
                      !.wOff = off2, !.total = tot2]
    OBVIOUS
  <2> HIDE DEF bs, w, pos2, avail2, off2, tot2
  <2>5. w \in Queues
    BY <2>1, <2>2, <2>3, <2>4 DEF Queues
  <2>6. /\ w.blocks = bs /\ w.wBlk = b.wBlk /\ w.wPos = pos2
        /\ w.wAvail = avail2 /\ w.wOff = off2 /\ w.rBlk = b.rBlk
        /\ w.rPos = b.rPos /\ w.rOff = b.rOff /\ w.total = tot2
    BY <2>3, <2>4 DEF Queues
  <2> QED
    BY <2>5, <2>6 DEF pos2, avail2, off2, tot2
<1>4. c = IF w.wAvail = 0 /\ w.wBlk # Len(w.blocks)
          THEN [w EXCEPT !.wBlk = @ + 1, !.wPos = 0, !.wAvail = BlockSize]
          ELSE w
  BY DEF WriteIncr
<1>b. /\ b \in Queues /\ b.rBlk \in Nat /\ b.rPos \in Nat /\ b.rOff \in Nat
      /\ b.rBlk \in 1 .. k /\ b.rPos \in 0 .. BlockSize
      /\ Place(b.rBlk, b.rPos) + tot = off /\ Place(b.rBlk, b.rPos) <= b.rOff
  BY DEF QueueOK, Queues, Pointers
<1>5. Written(b) \in Seq(Byte) /\ Len(Written(b)) = off
      /\ \A i \in 1 .. off : Written(b)[i] = ByteAt(b, i) /\ ByteAt(b, i) \in Byte
  BY QueueFacts DEF QueueOK
<1>6. ASSUME NEW m \in Nat \ {0}, NEW j \in 1 .. BlockSize
      PROVE  ByteAt(b, Place(m, j)) = bb[m][j]
  BY ByteInBlock
<1>7. ReadPlace(b) = IF b.rBlk = 0 THEN 0 ELSE Place(b.rBlk, b.rPos)
  BY DEF ReadPlace, Place
<1> HIDE DEF c, w, k, pos, avail, off, tot, n, bb
<1>10. \A j \in 1 .. BlockSize :
         blk[j] = IF j > pos /\ j <= pos + n THEN s[j - pos] ELSE bb[k][j]
  BY <1>1, <1>2
<1> HIDE DEF blk
<1>11. /\ bs \in Seq(Block) /\ Len(bs) = Len(bb) /\ bs[k] = blk
       /\ \A i \in 1 .. Len(bb) : i # k => bs[i] = bb[i]
  BY <1>1, <1>2, <1>9, ExceptSeq
<1> HIDE DEF bs
<1>12. /\ c \in Queues /\ c.blocks = bs /\ c.wOff = off + n /\ c.rBlk = b.rBlk
       /\ c.rPos = b.rPos /\ c.rOff = b.rOff /\ c.total = tot + n
       /\ \/ /\ c.wBlk = k /\ c.wPos = pos + n /\ c.wAvail = avail - n
             /\ avail - n = 0 => k = Len(bs)
          \/ /\ pos + n = BlockSize /\ k + 1 <= Len(bs)
             /\ c.wBlk = k + 1 /\ c.wPos = 0 /\ c.wAvail = BlockSize
  <2>2. CASE w.wAvail = 0 /\ w.wBlk # Len(w.blocks)
    <3>1. c = [blocks |-> w.blocks, wBlk |-> w.wBlk + 1, wPos |-> 0, wAvail |-> BlockSize,
               wOff |-> w.wOff, rBlk |-> w.rBlk, rPos |-> w.rPos,
               rOff |-> w.rOff, total |-> w.total]
      BY <1>4, <1>3, <2>2, SizesAssumption DEF Queues
    <3>2. c \in Queues
      BY <1>3, <3>1, SizesAssumption DEF Queues
    <3>3. pos + n = BlockSize /\ k + 1 <= Len(bs)
      <4>1. avail - n = 0 /\ k # Len(bs)
        BY <1>3, <2>2
      <4>2. Len(bs) = Len(bb)
        BY <1>11
      <4>3. pos + n = BlockSize
        BY <1>1, <1>2, <4>1, SizesAssumption
      <4>4. k + 1 <= Len(bs)
        BY <1>1, <1>2, <4>1, <4>2
      <4> QED
        BY <4>3, <4>4
    <3> QED
      BY <1>3, <3>1, <3>2, <3>3
  <2>3. CASE ~(w.wAvail = 0 /\ w.wBlk # Len(w.blocks))
    <3>1. c = w
      BY <1>4, <2>3
    <3> QED
      BY <1>3, <2>3, <3>1
  <2> QED
    BY <2>2, <2>3
<1>13. off + n = Place(k, pos + n)
  <2>1. /\ k \in Nat \ {0}
        /\ pos \in Nat
        /\ n \in Nat
        /\ off = Place(k, pos)
    BY <1>1, <1>2
  <2> QED
    BY <2>1, Places
<1>14. Place(c.wBlk, c.wPos) = off + n
  <2>1. CASE c.wBlk = k /\ c.wPos = pos + n
    BY <2>1, <1>13
  <2>2. CASE pos + n = BlockSize /\ c.wBlk = k + 1 /\ c.wPos = 0
    BY <2>2, <1>2, <1>13, Places
  <2> QED
    BY <1>12, <2>1, <2>2
<1>15. bs # <<>>
  BY <1>1, <1>2, <1>11
<1>16. Pointers(c)
  <2>1. Place(c.rBlk, c.rPos) + c.total = c.wOff
    <3> DEFINE p == Place(b.rBlk, b.rPos)
    <3>1. p \in Nat
      <4>1. b.rBlk \in Nat \ {0}
        BY <1>2, <1>b
      <4> QED
        BY <1>b, <4>1, Places
    <3>2. p + tot = off /\ c.total = tot + n /\ c.wOff = off + n /\ Place(c.rBlk, c.rPos) = p
      BY <1>b, <1>12
    <3> HIDE DEF p
    <3> QED
      BY <1>1, <1>2, <3>1, <3>2
  <2>2. /\ c.wBlk \in 1 .. Len(bs) /\ c.wPos \in 0 .. BlockSize
        /\ c.wAvail = BlockSize - c.wPos
        /\ c.wAvail = 0 => c.wBlk = Len(bs)
        /\ k <= c.wBlk
    <3>1. CASE c.wBlk = k /\ c.wPos = pos + n /\ c.wAvail = avail - n
               /\ (avail - n = 0 => k = Len(bs))
      <4>1. /\ Len(bs) \in Nat /\ k <= Len(bs) /\ k \in Nat \ {0} /\ pos + n \in 0 .. BlockSize
            /\ avail - n = BlockSize - (pos + n)
        BY <1>1, <1>2, <1>8, <1>11, SizesAssumption
      <4> QED
        BY <3>1, <4>1
    <3>2. CASE pos + n = BlockSize /\ k + 1 <= Len(bs)
               /\ c.wBlk = k + 1 /\ c.wPos = 0 /\ c.wAvail = BlockSize
      BY <1>1, <1>2, <1>11, <3>2, SizesAssumption
    <3> QED
      BY <1>12, <3>1, <3>2
  <2>3. c.rBlk \in 1 .. c.wBlk
    BY <1>2, <1>b, <1>12, <2>2
  <2> QED
    BY <1>b, <1>12, <1>14, <2>1, <2>2, <2>3 DEF Pointers
<1>17. ASSUME NEW i \in 1 .. off + n
       PROVE  ByteAt(c, i) = IF i <= off THEN ByteAt(b, i) ELSE s[i - off]
  <2>0. i \in Nat \ {0}
    BY <1>1, <1>2
  <2>1. PICK m \in Nat \ {0}, j \in 1 .. BlockSize : i = Place(m, j)
    BY <2>0, PlaceOf
  <2>2. m < k \/ (m = k /\ j <= pos + n)
    <3>1. Place(m, j) <= Place(k, pos + n) /\ pos + n \in 0 .. BlockSize
      BY <1>1, <1>2, <1>8, <1>13, <2>1
    <3> QED
      BY <1>2, <3>1, PlaceBefore
  <2>3. i <= off <=> m < k \/ (m = k /\ j <= pos)
    BY <1>2, <2>1, PlaceBefore
  <2>4. ByteAt(c, i) = bs[m][j] /\ ByteAt(b, i) = bb[m][j]
    BY <1>6, <1>12, <2>1, ByteInBlock
  <2>5. CASE m < k
    <3>1. m \in 1 .. Len(bb) /\ m # k
      BY <1>1, <1>2, <2>5
    <3> QED
      BY <1>11, <2>3, <2>4, <2>5, <3>1
  <2>6. CASE m = k /\ j <= pos
    BY <1>2, <1>10, <1>11, <2>3, <2>4, <2>6
  <2>7. CASE m = k /\ j > pos
    <3>1. i - off = j - pos
      <4>1. i = Place(k, j) /\ off = Place(k, pos)
        BY <1>2, <2>1, <2>7
      <4>2. (k - 1) * BlockSize \in Int
        BY <1>2, SizesAssumption
      <4>3. Place(k, j) = (k - 1) * BlockSize + j /\ Place(k, pos) = (k - 1) * BlockSize + pos
        BY DEF Place
      <4> DEFINE z == (k - 1) * BlockSize
      <4>4. z \in Int /\ i = z + j /\ off = z + pos /\ pos \in Nat /\ j \in Nat
        BY <1>2, <4>1, <4>2, <4>3, SizesAssumption
      <4> HIDE DEF z
      <4> QED
        BY <4>4
    <3>2. j <= pos + n /\ ~(i <= off)
      BY <1>1, <1>2, <2>2, <2>3, <2>7
    <3>3. blk[j] = s[j - pos] /\ bs[m] = blk
      BY <1>2, <1>10, <1>11, <2>7, <3>2
    <3> QED
      BY <2>4, <3>1, <3>2, <3>3
  <2> QED
    BY <1>2, <2>2, <2>5, <2>6, <2>7
<1>18. QueueOK(c)
  <2>1. ASSUME NEW i \in 1 .. off + n
        PROVE  ByteAt(c, i) \in Byte
    <3>1. CASE i <= off
      BY <1>2, <1>5, <1>17, <3>1
    <3>2. CASE i > off
      <4>1. i - off \in 1 .. Len(s)
        BY <1>1, <1>2, <3>2
      <4>2. s[i - off] \in Byte
        BY <4>1, ElementOfSeq
      <4> QED
        BY <1>2, <1>17, <3>2, <4>2
    <3> QED
      BY <1>2, <3>1, <3>2
  <2> QED
    BY <1>12, <1>15, <1>16, <2>1 DEF QueueOK
<1>19. Written(c) = Written(b) \o s
  <2>1. /\ Written(c) \in Seq(Byte) /\ Len(Written(c)) = off + n
        /\ \A i \in 1 .. off + n : Written(c)[i] = ByteAt(c, i)
    BY <1>12, <1>18, QueueFacts
  <2>2. /\ Written(b) \o s \in Seq(Byte) /\ Len(Written(b) \o s) = off + n
        /\ \A i \in 1 .. off + n :
             (Written(b) \o s)[i] = IF i <= off THEN Written(b)[i] ELSE s[i - off]
    BY <1>1, <1>5, ConcatProperties
  <2>3. ASSUME NEW i \in 1 .. off + n
        PROVE  Written(c)[i] = (Written(b) \o s)[i]
    BY <1>2, <1>5, <1>17, <2>1, <2>2
  <2> HIDE DEF n
  <2> QED
    BY <2>1, <2>2, <2>3, SeqEqual
<1>20. ReadPlace(c) = ReadPlace(b)
  BY <1>12, <1>7 DEF ReadPlace, Place
<1> QED
  BY <1>12, <1>15, <1>18, <1>19, <1>20, <1>1 DEF c, tot, n

\* What can be read in one piece is in the queue, and in one block.
LEMMA ReadAvail ==
  ASSUME NEW b, QueueOK(b), b.blocks # <<>>
  PROVE  /\ BlockReadAvail(b) \in 0 .. b.total
         /\ b.rPos + BlockReadAvail(b) <= BlockSize
         /\ b.rBlk < b.wBlk => BlockReadAvail(b) = BlockSize - b.rPos
         /\ b.rBlk = b.wBlk => BlockReadAvail(b) = b.total
<1> DEFINE wb == b.wBlk
           wp == b.wPos
           rb == b.rBlk
           rp == b.rPos
           tot == b.total
           av == BlockReadAvail(b)
<1>1. /\ wb \in Nat \ {0} /\ rb \in Nat \ {0} /\ wp \in Nat /\ rp \in Nat /\ tot \in Nat
      /\ rb <= wb /\ wp <= BlockSize /\ rp <= BlockSize
      /\ Place(rb, rp) + tot = Place(wb, wp)
  BY DEF QueueOK, Queues, Pointers
<1>2. av = IF rb = wb THEN tot ELSE BlockSize - rp
  BY DEF BlockReadAvail
<1> HIDE DEF wb, wp, rb, rp, tot, av
<1>3. CASE rb = wb
  <2>1. Place(wb, 0) \in Nat /\ Place(wb, rp) = Place(wb, 0) + rp /\ Place(wb, wp) = Place(wb, 0) + wp
    <3>1. Place(wb, 0 + rp) = Place(wb, 0) + rp /\ Place(wb, 0 + wp) = Place(wb, 0) + wp
      BY <1>1, Places
    <3> QED
      BY <1>1, <3>1, Places
  <2>2. rp + tot = wp
    BY <1>1, <1>3, <2>1
  <2> QED
    BY <1>1, <1>2, <1>3, <2>2, SizesAssumption DEF av, wb, wp, rb, rp, tot
<1>4. CASE rb < wb
  <2>1. /\ Place(rb, BlockSize) <= Place(wb, 0) /\ Place(wb, wp) = Place(wb, 0) + wp
        /\ Place(rb, rp) = Place(rb, 0) + rp /\ Place(rb, BlockSize) = Place(rb, 0) + BlockSize
        /\ Place(rb, 0) \in Nat /\ Place(wb, 0) \in Nat
    <3>1. /\ Place(wb, 0 + wp) = Place(wb, 0) + wp /\ Place(rb, 0 + rp) = Place(rb, 0) + rp
          /\ Place(rb, 0 + BlockSize) = Place(rb, 0) + BlockSize
      BY <1>1, Places, SizesAssumption
    <3> QED
      BY <1>1, <1>4, <3>1, Places, PlaceOrder, SizesAssumption
  <2>2. BlockSize - rp <= tot
    BY <1>1, <2>1, SizesAssumption
  <2> QED
    BY <1>1, <1>2, <1>4, <2>2, SizesAssumption DEF av, wb, wp, rb, rp, tot
<1> QED
  BY <1>1, <1>3, <1>4

\* Reading on in a block goes through the bytes that were written in their
\* order; the offset follows, but for going on to another block.
LEMMA BytesAreRead ==
  ASSUME NEW b, QueueOK(b), b.blocks # <<>>, NEW n \in 0 .. BlockReadAvail(b)
  PROVE  LET c == ReadIncr(b, n)
         IN  /\ QueueOK(c) /\ c.blocks = b.blocks /\ Written(c) = Written(b)
             /\ ReadPlace(c) = ReadPlace(b) + n /\ c.total = b.total - n
             /\ BytesAt(b, n) = SubSeq(Written(b), ReadPlace(b) + 1, ReadPlace(b) + n)
             /\ c.rBlk >= b.rBlk
             /\ c.rBlk = b.rBlk \/ n = 0 => c.rOff = b.rOff + n
             /\ c.total > 0 => BlockReadAvail(c) > 0
<1> DEFINE bb == b.blocks
           wb == b.wBlk
           rb == b.rBlk
           rp == b.rPos
           ro == b.rOff
           tot == b.total
           av == BlockReadAvail(b)
           r == [b EXCEPT !.total = tot - n, !.rPos = rp + n, !.rOff = ro + n]
           c == ReadIncr(b, n)
<1>1. /\ wb \in Nat \ {0} /\ rb \in Nat \ {0} /\ rp \in Nat /\ tot \in Nat
      /\ ro \in Nat /\ rb <= wb /\ wb <= Len(bb)
      /\ Place(rb, rp) + tot = b.wOff /\ Place(rb, rp) <= ro /\ b.wOff \in Nat
  BY DEF QueueOK, Queues, Pointers
<1>2. /\ bb \in Seq(Block) /\ Len(bb) \in Nat
  BY DEF QueueOK, Queues
<1>3. /\ av \in Nat /\ av <= tot /\ rp + av <= BlockSize
      /\ rb < wb => av = BlockSize - rp
      /\ rb = wb => av = tot
  BY ReadAvail, <1>1
<1>4. n \in Nat /\ n <= av
  BY <1>3
<1>5. /\ r \in Queues /\ r.blocks = bb /\ r.wBlk = wb /\ r.wPos = b.wPos
      /\ r.wAvail = b.wAvail /\ r.wOff = b.wOff /\ r.rBlk = rb
      /\ r.rPos = rp + n /\ r.rOff = ro + n /\ r.total = tot - n
  <2> DEFINE tot2 == tot - n
             rp2 == rp + n
             ro2 == ro + n
  <2>1. tot2 \in Nat /\ rp2 \in Nat /\ ro2 \in Nat
    <3> HIDE DEF av, tot, rp, ro
    <3> QED
      BY <1>1, <1>3, <1>4
  <2>2. b \in Queues
    BY DEF QueueOK
  <2>3. r = [b EXCEPT !.total = tot2, !.rPos = rp2, !.rOff = ro2]
    OBVIOUS
  <2> HIDE DEF r, tot2, rp2, ro2
  <2>4. r \in Queues
    BY <2>1, <2>2, <2>3 DEF Queues
  <2>5. /\ r.blocks = bb /\ r.wBlk = wb /\ r.wPos = b.wPos
        /\ r.wAvail = b.wAvail /\ r.wOff = b.wOff /\ r.rBlk = rb
        /\ r.rPos = rp2 /\ r.rOff = ro2 /\ r.total = tot2
    BY <2>2, <2>3 DEF Queues
  <2> QED
    BY <2>4, <2>5 DEF tot2, rp2, ro2
<1>6. c = IF av = n /\ r.total > 0
          THEN [r EXCEPT !.rBlk = @ + 1, !.rPos = 0, !.rOff = @ + n] ELSE r
  BY DEF ReadIncr
<1>7. ReadPlace(b) = Place(rb, rp) /\ Written(b) = [i \in 1 .. b.wOff |-> ByteAt(b, i)]
  <2>1. WritePlace(b) = b.wOff
    BY QueueFacts
  <2> QED
    BY <1>1, <2>1, WrittenBytes DEF ReadPlace, Place
<1>8. /\ Written(b) \in Seq(Byte) /\ Len(Written(b)) = b.wOff
      /\ \A i \in 1 .. b.wOff : Written(b)[i] = ByteAt(b, i) /\ ByteAt(b, i) \in Byte
  BY QueueFacts DEF QueueOK
<1>9. BytesAt(b, n) = SubSeq(bb[rb], rp + 1, rp + n)
  BY DEF BytesAt
<1>10. \A m \in Nat \ {0}, j \in 1 .. BlockSize : ByteAt(b, Place(m, j)) = bb[m][j]
  BY ByteInBlock
<1>11. /\ b.wBlk = wb /\ b.wPos \in 0 .. BlockSize /\ b.wAvail = BlockSize - b.wPos
       /\ b.wAvail = 0 => wb = Len(bb)
       /\ b.wOff = Place(wb, b.wPos)
  BY DEF QueueOK, Pointers
<1> DEFINE wo == b.wOff
<1> HIDE DEF c, r, bb, wb, rb, rp, ro, tot, av
<1>12. n <= tot /\ rp + n <= BlockSize /\ tot - n \in Nat
  BY <1>1, <1>3, <1>4, SizesAssumption
<1>13. /\ c \in Queues /\ c.blocks = bb /\ c.wBlk = wb /\ c.wPos = b.wPos
       /\ c.wAvail = b.wAvail /\ c.wOff = wo /\ c.total = tot - n
       /\ \/ /\ av # n \/ tot - n = 0
             /\ c.rBlk = rb /\ c.rPos = rp + n /\ c.rOff = ro + n
          \/ /\ av = n /\ tot - n > 0 /\ rb < wb
             /\ c.rBlk = rb + 1 /\ c.rPos = 0 /\ c.rOff = ro + n + n
  <2>1. CASE av = n /\ r.total > 0
    <3>1. c = [r EXCEPT !.rBlk = @ + 1, !.rPos = 0, !.rOff = @ + n]
      BY <1>6, <2>1
    <3> DEFINE rb2 == rb + 1
               ro2 == ro + n + n
    <3>2. c = [r EXCEPT !.rBlk = rb2, !.rPos = 0, !.rOff = ro2]
      BY <1>5, <3>1
    <3>3. rb2 \in Nat /\ ro2 \in Nat /\ 0 \in Nat
      BY <1>1, <1>4
    <3> HIDE DEF rb2, ro2
    <3>4. c \in Queues
      BY <1>5, <3>2, <3>3 DEF Queues
    <3>5. /\ c.blocks = r.blocks /\ c.wBlk = r.wBlk /\ c.wPos = r.wPos
          /\ c.wAvail = r.wAvail /\ c.wOff = r.wOff /\ c.total = r.total
          /\ c.rBlk = rb2 /\ c.rPos = 0 /\ c.rOff = ro2
      BY <1>5, <3>2 DEF Queues
    <3>6. tot - n > 0
      BY <1>5, <2>1
    <3>7. rb < wb
      BY <1>1, <1>3, <1>4, <2>1, <3>6
    <3> QED
      BY <1>5, <2>1, <3>4, <3>5, <3>6, <3>7 DEF rb2, ro2
  <2>2. CASE ~(av = n /\ r.total > 0)
    <3>1. c = r
      BY <1>6, <2>2
    <3>2. av # n \/ tot - n = 0
      BY <1>5, <1>12, <2>2
    <3> QED
      BY <1>5, <3>1, <3>2
  <2> QED
    BY <2>1, <2>2
<1>14. Place(c.rBlk, c.rPos) = Place(rb, rp) + n
  <2>1. Place(rb, rp + n) = Place(rb, rp) + n
    BY <1>1, <1>4, Places
  <2>2. CASE c.rBlk = rb /\ c.rPos = rp + n
    BY <2>1, <2>2
  <2>3. CASE av = n /\ rb < wb /\ c.rBlk = rb + 1 /\ c.rPos = 0
    <3>1. rp + n = BlockSize
      BY <1>1, <1>3, <2>3, SizesAssumption
    <3> QED
      BY <1>1, <2>1, <2>3, <3>1, Places
  <2> QED
    BY <1>13, <2>2, <2>3
<1>15. Place(rb, rp) \in Nat
  BY <1>1, Places
<1>16. Pointers(c)
  <2>1. c.rBlk \in 1 .. wb /\ c.rPos \in 0 .. BlockSize
    <3>1. rb \in Nat \ {0} /\ wb \in Nat /\ rb <= wb /\ rp + n \in 0 .. BlockSize /\ BlockSize \in Nat
      BY <1>1, <1>4, <1>12, SizesAssumption
    <3>2. \/ c.rBlk = rb /\ c.rPos = rp + n
          \/ rb < wb /\ c.rBlk = rb + 1 /\ c.rPos = 0
      BY <1>13
    <3> QED
      BY <3>1, <3>2
  <2>2. Place(rb, rp) + n + (tot - n) = wo
    BY <1>1, <1>4, <1>15
  <2>3. Place(rb, rp) + n <= c.rOff
    BY <1>1, <1>4, <1>13, <1>15
  <2>4. wb \in 1 .. Len(bb)
    BY <1>1, <1>2
  <2> HIDE DEF wo
  <2> QED
    BY <1>11, <1>13, <1>14, <2>1, <2>2, <2>3, <2>4 DEF Pointers, wo
<1>17. \A i : ByteAt(c, i) = ByteAt(b, i)
  BY <1>13 DEF ByteAt, bb
<1>18. QueueOK(c)
  <2>1. bb # <<>>
    BY DEF bb
  <2>2. \A i \in 1 .. c.wOff : ByteAt(c, i) \in Byte
    BY <1>8, <1>13, <1>17
  <2> QED
    BY <1>13, <1>16, <2>1, <2>2 DEF QueueOK
<1>19. Written(c) = Written(b)
  <2>1. Written(c) = [i \in 1 .. c.wOff |-> ByteAt(c, i)]
    BY <1>18, QueueFacts, WrittenBytes
  <2>2. c.wOff = b.wOff
    BY <1>13
  <2> QED
    BY <1>7, <1>17, <2>1, <2>2
<1>20. ReadPlace(c) = ReadPlace(b) + n
  <2>1. c.rBlk # 0
    BY <1>1, <1>13
  <2> QED
    BY <1>7, <1>14, <2>1 DEF ReadPlace, Place
<1>21. BytesAt(b, n) = SubSeq(Written(b), ReadPlace(b) + 1, ReadPlace(b) + n)
  <2> DEFINE p == Place(rb, rp)
  <2>1. ASSUME NEW i \in 1 .. n
        PROVE  /\ p + i \in 1 .. wo /\ rp + i \in 1 .. BlockSize
               /\ Written(b)[p + i] = bb[rb][rp + i] /\ bb[rb][rp + i] \in Byte
    <3>1. p + i \in 1 .. wo /\ rp + i \in 1 .. BlockSize
      <4>1. /\ p \in Nat /\ n \in Nat /\ tot \in Nat /\ n <= tot /\ p + tot = wo /\ wo \in Nat
            /\ rp \in Nat /\ rp + n <= BlockSize /\ BlockSize \in Nat
        BY <1>1, <1>4, <1>12, <1>15, SizesAssumption
      <4> HIDE DEF p, wo
      <4> QED
        BY <4>1
    <3>2. p + i = Place(rb, rp + i)
      <4>1. rb \in Nat \ {0} /\ rp \in Nat /\ i \in Nat
        BY <1>1, <1>4
      <4> QED
        BY <4>1, Places
    <3>3. Written(b)[p + i] = ByteAt(b, p + i) /\ ByteAt(b, p + i) \in Byte
      BY <1>8, <3>1
    <3>4. ByteAt(b, Place(rb, rp + i)) = bb[rb][rp + i]
      BY <1>1, <1>10, <3>1
    <3> QED
      BY <3>1, <3>2, <3>3, <3>4
  <2>2. p \in Nat
    BY <1>15
  <2> HIDE DEF p
  <2> DEFINE s1 == SubSeq(bb[rb], rp + 1, rp + n)
             s2 == SubSeq(Written(b), p + 1, p + n)
  <2>3. s1 \in Seq(Byte) /\ Len(s1) = n /\ \A i \in 1 .. n : s1[i] = bb[rb][rp + i]
    <3>1. \A i \in rp + 1 .. rp + n : bb[rb][i] \in Byte
      <4>1. ASSUME NEW i \in rp + 1 .. rp + n
            PROVE  bb[rb][i] \in Byte
        <5>1. i - rp \in 1 .. n /\ rp + (i - rp) = i
          BY <1>1, <1>4
        <5> QED
          BY <2>1, <5>1
      <4> QED
        BY <4>1
    <3>2. rp + 1 \in Int /\ rp + n \in Int
      BY <1>1, <1>4
    <3>3. /\ s1 \in Seq(Byte)
          /\ Len(s1) = IF rp + 1 <= rp + n THEN (rp + n) - (rp + 1) + 1 ELSE 0
          /\ \A i \in 1 .. (rp + n) - (rp + 1) + 1 : s1[i] = bb[rb][(rp + 1) + i - 1]
      BY <3>1, <3>2, SubSeqProperties
    <3> HIDE DEF s1
    <3>4. (rp + n) - (rp + 1) + 1 = n /\ \A i \in 1 .. n : (rp + 1) + i - 1 = rp + i
      BY <1>1, <1>4
    <3> QED
      BY <1>1, <1>4, <3>3, <3>4
  <2>4. s2 \in Seq(Byte) /\ Len(s2) = n /\ \A i \in 1 .. n : s2[i] = Written(b)[p + i]
    <3>1. \A i \in p + 1 .. p + n : Written(b)[i] \in Byte
      <4>1. ASSUME NEW i \in p + 1 .. p + n
            PROVE  Written(b)[i] \in Byte
        <5>1. i - p \in 1 .. n /\ p + (i - p) = i
          BY <1>4, <2>2
        <5> QED
          BY <2>1, <5>1
      <4> QED
        BY <4>1
    <3>2. p + 1 \in Int /\ p + n \in Int
      BY <1>4, <2>2
    <3>3. /\ s2 \in Seq(Byte)
          /\ Len(s2) = IF p + 1 <= p + n THEN (p + n) - (p + 1) + 1 ELSE 0
          /\ \A i \in 1 .. (p + n) - (p + 1) + 1 : s2[i] = Written(b)[(p + 1) + i - 1]
      BY <3>1, <3>2, SubSeqProperties
    <3> HIDE DEF s2
    <3>4. (p + n) - (p + 1) + 1 = n /\ \A i \in 1 .. n : (p + 1) + i - 1 = p + i
      BY <1>4, <2>2
    <3>5. Len(s2) = n
      BY <1>4, <2>2, <3>3
    <3> QED
      BY <3>3, <3>4, <3>5
  <2> HIDE DEF s1, s2
  <2>5. s1 = s2
    <3>1. \A i \in 1 .. n : s1[i] = s2[i]
      BY <2>1, <2>3, <2>4
    <3> QED
      BY <2>3, <2>4, <3>1, SeqEqual
  <2> QED
    BY <1>7, <1>9, <2>5 DEF p, s1, s2
<1>22. c.total > 0 => BlockReadAvail(c) > 0
  <2>1. /\ c.rBlk < c.wBlk => BlockReadAvail(c) = BlockSize - c.rPos
        /\ c.rBlk = c.wBlk => BlockReadAvail(c) = c.total
    <3>1. c.blocks # <<>>
      BY <1>13 DEF bb
    <3> QED
      BY <1>18, <3>1, ReadAvail
  <2>2. CASE (av # n \/ tot - n = 0) /\ c.rBlk = rb /\ c.rPos = rp + n
    BY <1>1, <1>3, <1>4, <1>12, <1>13, <2>1, <2>2, SizesAssumption
  <2>3. CASE c.rPos = 0 /\ c.rBlk = rb + 1 /\ rb < wb
    BY <1>1, <1>13, <2>1, <2>3, SizesAssumption
  <2> QED
    BY <1>13, <2>2, <2>3
<1>23. c.rBlk >= rb /\ (c.rBlk = rb \/ n = 0 => c.rOff = ro + n)
  BY <1>1, <1>4, <1>13
<1> QED
  BY <1>13, <1>18, <1>19, <1>20, <1>21, <1>22, <1>23 DEF c, bb, rb, ro, tot


\* reset_read goes back to the first byte.
LEMMA GoingBack ==
  ASSUME NEW b, QueueOK(b)
  PROVE  LET c == Rewound(b)
         IN  /\ QueueOK(c) /\ c.blocks = b.blocks /\ Written(c) = Written(b)
             /\ ReadPlace(c) = 0 /\ c.rOff = 0 /\ c.total = b.wOff
<1> DEFINE c == Rewound(b)
<1>0. b \in Queues
  BY DEF QueueOK
<1>1. CASE b.blocks = <<>>
  <2>1. b = EmptyQueue
    BY <1>1 DEF QueueOK
  <2>2. c = EmptyQueue
    BY <1>1, <2>1 DEF Rewound, EmptyQueue
  <2> QED
    BY <2>1, <2>2, EmptyQueueOK DEF EmptyQueue
<1>2. CASE b.blocks # <<>>
  <2> DEFINE tot == b.wBlk * BlockSize - b.wAvail
  <2>1. Pointers(b)
    BY <1>2 DEF QueueOK
  <2>2. tot = b.wOff
    <3> DEFINE wb == b.wBlk
               wp == b.wPos
    <3>1. wb \in Nat /\ wp \in Nat /\ b.wAvail = BlockSize - wp /\ b.wOff = Place(wb, wp)
      BY <1>0, <2>1 DEF Pointers, Queues
    <3> HIDE DEF wb, wp
    <3>2. Place(wb, wp) = wb * BlockSize - (BlockSize - wp)
      BY <3>1, SizesAssumption DEF Place
    <3> QED
      BY <3>1, <3>2 DEF wb
  <2>3. c = [b EXCEPT !.rOff = 0, !.rBlk = 1, !.rPos = 0, !.total = tot]
    BY <1>2 DEF Rewound
  <2>4. tot \in Nat
    BY <1>0, <2>2 DEF Queues
  <2> HIDE DEF tot, c
  <2>5. c \in Queues
    BY <1>0, <2>3, <2>4 DEF Queues
  <2>6. /\ c.blocks = b.blocks /\ c.wBlk = b.wBlk /\ c.wPos = b.wPos
        /\ c.wAvail = b.wAvail /\ c.wOff = b.wOff
        /\ c.rBlk = 1 /\ c.rPos = 0 /\ c.rOff = 0 /\ c.total = tot
    BY <1>0, <2>3 DEF Queues
  <2>7. Pointers(c)
    <3>1. Place(1, 0) = 0
      BY Places
    <3>2. 1 \in 1 .. b.wBlk /\ 0 \in 0 .. BlockSize
      BY <2>1, <1>0, SizesAssumption DEF Pointers, Queues
    <3> QED
      BY <2>1, <2>2, <2>4, <2>6, <3>1, <3>2 DEF Pointers
  <2>8. \A i : ByteAt(c, i) = ByteAt(b, i)
    BY <2>6 DEF ByteAt
  <2>9. QueueOK(c)
    <3>1. \A i \in 1 .. c.wOff : ByteAt(c, i) \in Byte
      BY <2>6, <2>8 DEF QueueOK
    <3> QED
      BY <1>2, <2>5, <2>6, <2>7, <3>1 DEF QueueOK
  <2>10. Written(c) = Written(b)
    <3>1. /\ Written(c) = [i \in 1 .. c.wOff |-> ByteAt(c, i)]
          /\ Written(b) = [i \in 1 .. b.wOff |-> ByteAt(b, i)]
      BY <2>9, QueueFacts, WrittenBytes
    <3> QED
      BY <2>6, <2>8, <3>1
  <2>11. ReadPlace(c) = 0
    BY <2>6, SizesAssumption DEF ReadPlace
  <2> QED
    BY <2>2, <2>6, <2>9, <2>10, <2>11 DEF c
<1> QED
  BY <1>1, <1>2

\* reset_write keeps the blocks and nothing in them.
LEMMA Emptying ==
  ASSUME NEW b, QueueOK(b)
  PROVE  LET c == Emptied(b)
         IN  /\ QueueOK(c) /\ Len(c.blocks) = Len(b.blocks)
             /\ Written(c) = <<>> /\ ReadPlace(c) = 0 /\ c.rOff = 0
<1> DEFINE c == Emptied(b)
<1>0. b \in Queues /\ b.blocks \in Seq(Block) /\ Len(b.blocks) \in Nat
  BY DEF QueueOK, Queues
<1>1. CASE b.blocks = <<>>
  <2>1. b = EmptyQueue
    BY <1>1 DEF QueueOK
  <2>2. c = b
    BY <1>1 DEF Emptied
  <2> QED
    BY <2>1, <2>2, EmptyQueueOK DEF EmptyQueue
<1>2. CASE b.blocks # <<>>
  <2> DEFINE bs == [k \in 1 .. Len(b.blocks) |-> EmptyBlock]
             w == [b EXCEPT !.blocks = bs, !.wOff = 0, !.wBlk = 1, !.wPos = 0,
                            !.wAvail = BlockSize]
  <2>1. bs \in Seq(Block) /\ Len(bs) = Len(b.blocks) /\ Len(bs) # 0
    BY <1>0, <1>2, EmptyBlockType
  <2>2. c = Rewound(w)
    BY <1>2 DEF Emptied
  <2> HIDE DEF bs, c
  <2>3. w \in Queues /\ w.blocks = bs /\ w.wOff = 0 /\ w.wBlk = 1
        /\ w.wPos = 0 /\ w.wAvail = BlockSize
    BY <1>0, <2>1, SizesAssumption DEF Queues
  <2> HIDE DEF w
  <2>4. w.wBlk * BlockSize - w.wAvail = 0 /\ w.blocks # <<>>
    BY <2>1, <2>3, SizesAssumption
  <2>5. c = [w EXCEPT !.rOff = 0, !.rBlk = 1, !.rPos = 0, !.total = 0]
    BY <2>2, <2>4 DEF Rewound
  <2>6. c \in Queues
    BY <2>3, <2>5 DEF Queues
  <2>7. /\ c.blocks = bs /\ c.wBlk = 1 /\ c.wPos = 0 /\ c.wAvail = BlockSize
        /\ c.wOff = 0 /\ c.rBlk = 1 /\ c.rPos = 0 /\ c.rOff = 0 /\ c.total = 0
    BY <2>3, <2>5 DEF Queues
  <2>8. Pointers(c)
    <3>1. Place(1, 0) = 0
      BY Places
    <3>2. 1 \in 1 .. Len(bs)
      BY <1>0, <2>1
    <3> QED
      BY <2>7, <3>1, <3>2, SizesAssumption DEF Pointers
  <2>9. QueueOK(c)
    BY <2>3, <2>4, <2>6, <2>7, <2>8 DEF QueueOK
  <2>10. Written(c) = <<>>
    <3>1. Written(c) \in Seq(Byte) /\ Len(Written(c)) = 0
      BY <2>7, <2>9, QueueFacts
    <3> QED
      BY <3>1, EmptySeq
  <2>11. ReadPlace(c) = 0
    BY <2>7, SizesAssumption DEF ReadPlace
  <2> QED
    BY <2>1, <2>7, <2>9, <2>10, <2>11 DEF c
<1> QED
  BY <1>1, <1>2

\* shrink drops bytes that were read, and the place and the offset with them.
LEMMA Dropping ==
  ASSUME NEW b, QueueOK(b), b.blocks # <<>>
  PROVE  LET c == Shrunk(b)
             d == (b.rBlk - 1) * BlockSize
         IN  /\ QueueOK(c) /\ c.blocks # <<>>
             /\ d \in 0 .. ReadPlace(b) /\ d <= Len(Written(b))
             /\ Written(c) = SubSeq(Written(b), d + 1, Len(Written(b)))
             /\ ReadPlace(c) = ReadPlace(b) - d /\ c.rOff = b.rOff - d
             /\ c.total = b.total /\ c.rBlk = 1
             /\ Len(c.blocks) = Len(b.blocks) - (b.rBlk - 1)
             /\ b.rBlk = 1 => c = b
             /\ BlockReadAvail(c) = BlockReadAvail(b)
<1> DEFINE c == Shrunk(b)
           bb == b.blocks
           wb == b.wBlk
           wp == b.wPos
           rb == b.rBlk
           rp == b.rPos
           wo == b.wOff
           ro == b.rOff
           tot == b.total
           k == rb - 1
           d == k * BlockSize
           L == Len(bb)
           bs == SubSeq(bb, k + 1, L)
           wb2 == wb - k
           wo2 == wo - d
           ro2 == ro - d
<1>0. b \in Queues
  BY DEF QueueOK
<1>1. bb \in Seq(Block) /\ L \in Nat
  BY DEF QueueOK, Queues
<1>2. /\ wb \in Nat \ {0} /\ rb \in Nat \ {0} /\ rp \in Nat /\ wp \in Nat /\ tot \in Nat
      /\ ro \in Nat /\ wo \in Nat /\ rb <= wb /\ wb <= L /\ wp <= BlockSize /\ rp <= BlockSize
      /\ Place(rb, rp) + tot = wo /\ Place(rb, rp) <= ro /\ wo = Place(wb, wp)
      /\ b.wAvail \in Nat /\ b.wAvail = BlockSize - wp /\ (b.wAvail = 0 => wb = L)
  BY DEF QueueOK, Queues, Pointers
<1>3. c = [b EXCEPT !.blocks = bs, !.rBlk = 1, !.wBlk = wb2, !.wOff = wo2, !.rOff = ro2]
  BY DEF Shrunk
<1>4. ReadPlace(b) = Place(rb, rp)
  BY <1>2 DEF ReadPlace, Place
<1>5. /\ Written(b) \in Seq(Byte) /\ Len(Written(b)) = wo
      /\ \A i \in 1 .. wo : Written(b)[i] = ByteAt(b, i) /\ ByteAt(b, i) \in Byte
  BY QueueFacts DEF QueueOK
<1>6. \A m \in Nat \ {0}, j \in 1 .. BlockSize : ByteAt(b, Place(m, j)) = bb[m][j]
  BY ByteInBlock
<1>7. BlockReadAvail(b) = IF rb = wb THEN tot ELSE BlockSize - rp
  BY DEF BlockReadAvail
<1> HIDE DEF c, bb, wb, wp, rb, rp, wo, ro, tot
<1>8. k \in Nat /\ k < L /\ d \in Nat
  BY <1>1, <1>2, SizesAssumption
<1>9. Place(rb, rp) = d + rp /\ \A m \in Nat \ {0}, j \in Nat : Place(m + k, j) = Place(m, j) + d
  <2>1. \A m \in Nat : ((m + k) - 1) * BlockSize = (m - 1) * BlockSize + d
    BY <1>2, SizesAssumption
  <2>2. Place(rb, rp) = d + rp
    BY <1>2 DEF Place
  <2>3. ASSUME NEW m \in Nat \ {0}, NEW j \in Nat
        PROVE  Place(m + k, j) = Place(m, j) + d
    <3>1. (m - 1) * BlockSize \in Int
      BY SizesAssumption
    <3> QED
      BY <1>8, <2>1, <3>1 DEF Place
  <2> QED
    BY <2>2, <2>3
<1> HIDE DEF d
<1>10. wb2 \in Nat \ {0} /\ wo2 \in Nat /\ ro2 \in Nat /\ wb2 <= L - k /\ wb2 + k = wb
  <2>1. wb2 \in Nat \ {0} /\ wb2 <= L - k /\ wb2 + k = wb
    <3>1. L \in Nat /\ wb <= L /\ rb \in Nat \ {0} /\ wb \in Nat /\ rb <= wb
      BY <1>1, <1>2
    <3> HIDE DEF L
    <3> QED
      BY <3>1
  <2>2. wo = d + rp + tot /\ d + rp <= ro
    BY <1>2, <1>9
  <2>3. wo2 \in Nat /\ ro2 \in Nat
    BY <1>2, <1>8, <2>2
  <2> QED
    BY <2>1, <2>3
<1>11. Place(wb2, wp) = wo2
  <2>1. Place(wb2 + k, wp) = Place(wb2, wp) + d
    BY <1>2, <1>9, <1>10
  <2>2. Place(wb2, wp) \in Nat
    BY <1>2, <1>10, Places
  <2>3. wo = Place(wb2, wp) + d
    BY <1>2, <1>10, <2>1
  <2> QED
    BY <1>8, <2>2, <2>3
<1>12. /\ bs \in Seq(Block) /\ Len(bs) = L - k
       /\ \A i \in 1 .. L - k : bs[i] = bb[k + i]
  <2>1. \A i \in k + 1 .. L : bb[i] \in Block
    <3>1. ASSUME NEW i \in k + 1 .. L
          PROVE  bb[i] \in Block
      <4>1. i \in 1 .. Len(bb)
        BY <1>1, <1>8
      <4> QED
        BY <1>1, <4>1, ElementOfSeq
    <3> QED
      BY <3>1
  <2>2. k + 1 \in Int /\ L \in Int
    BY <1>1, <1>8
  <2>3. /\ bs \in Seq(Block)
        /\ Len(bs) = IF k + 1 <= L THEN L - (k + 1) + 1 ELSE 0
        /\ \A i \in 1 .. L - (k + 1) + 1 : bs[i] = bb[(k + 1) + i - 1]
    BY <2>1, <2>2, SubSeqProperties
  <2> HIDE DEF bs, k, L
  <2>4. L - (k + 1) + 1 = L - k /\ \A i \in 1 .. L - k : (k + 1) + i - 1 = k + i
    BY <1>1, <1>8
  <2>5. Len(bs) = L - k
    BY <1>1, <1>8, <2>3
  <2> QED
    BY <2>3, <2>4, <2>5
<1> HIDE DEF bs, wb2, wo2, ro2
<1>13. c \in Queues
  BY <1>0, <1>3, <1>10, <1>12 DEF Queues
<1>14. /\ c.blocks = bs /\ c.wBlk = wb2 /\ c.wPos = wp /\ c.wAvail = b.wAvail
       /\ c.wOff = wo2 /\ c.rBlk = 1 /\ c.rPos = rp /\ c.rOff = ro2 /\ c.total = tot
  BY <1>0, <1>3 DEF Queues, wp, rp, tot
<1>15. Place(1, rp) = rp
  BY <1>2, SizesAssumption DEF Place
<1> HIDE DEF k, L
<1>16. /\ rp + tot = wo2 /\ rp <= ro2 /\ (b.wAvail = 0 => wb2 = L - k)
       /\ wo2 = wo - d /\ ro2 = ro - d
  BY <1>1, <1>2, <1>8, <1>9, <1>10 DEF wb2, wo2, ro2
<1>17. Pointers(c)
  <2>1. wb2 \in 1 .. L - k /\ wp \in 0 .. BlockSize /\ rp \in 0 .. BlockSize /\ 1 \in 1 .. wb2
    BY <1>1, <1>2, <1>8, <1>10, SizesAssumption
  <2> QED
    BY <1>2, <1>11, <1>12, <1>14, <1>15, <1>16, <2>1 DEF Pointers
<1>18. ASSUME NEW i \in 1 .. wo2
       PROVE  /\ i \in Nat \ {0} /\ d + i \in 1 .. wo
              /\ ByteAt(c, i) = ByteAt(b, d + i)
  <2>0. i \in Nat \ {0} /\ d + i \in 1 .. wo
    <3>1. d \in Nat /\ wo \in Nat /\ wo2 \in Nat /\ wo2 = wo - d
      BY <1>2, <1>8, <1>10, <1>16
    <3> QED
      BY <3>1
  <2>1. PICK m \in Nat \ {0}, j \in 1 .. BlockSize : i = Place(m, j)
    BY <2>0, PlaceOf
  <2>2. m \in 1 .. L - k
    <3>1. Place(m, j) <= Place(wb2, wp) /\ wp \in 0 .. BlockSize
      BY <1>2, <1>10, <1>11, <2>1
    <3>2. m <= wb2
      BY <1>10, <2>1, <3>1, PlaceBefore
    <3> QED
      BY <1>1, <1>8, <1>10, <3>2
  <2>3. ByteAt(c, i) = bs[m][j]
    BY <1>14, <2>1, ByteInBlock
  <2>4. d + i = Place(m + k, j)
    <3>1. j \in Nat /\ Place(m, j) \in Nat
      BY <2>1, Places, SizesAssumption
    <3> QED
      BY <1>8, <1>9, <2>1, <3>1
  <2>5. ByteAt(b, d + i) = bb[k + m][j]
    <3>1. m + k \in Nat \ {0} /\ m + k = k + m
      BY <1>8
    <3> QED
      BY <1>6, <2>4, <3>1
  <2> QED
    BY <1>12, <2>0, <2>2, <2>3, <2>5
<1>19. c.blocks # <<>>
  BY <1>1, <1>8, <1>12, <1>14
<1>20. QueueOK(c)
  <2>1. \A i \in 1 .. c.wOff : ByteAt(c, i) \in Byte
    BY <1>5, <1>14, <1>18
  <2> QED
    BY <1>13, <1>17, <1>19, <2>1 DEF QueueOK
<1>21. Written(c) = SubSeq(Written(b), d + 1, Len(Written(b)))
  <2> DEFINE W == Written(b)
             s == SubSeq(W, d + 1, wo)
  <2>0. W \in Seq(Byte) /\ Len(W) = wo /\ \A i \in 1 .. wo : W[i] = ByteAt(b, i) /\ W[i] \in Byte
    BY <1>5
  <2> HIDE DEF W
  <2>1. \A i \in d + 1 .. wo : W[i] \in Byte
    <3>1. ASSUME NEW i \in d + 1 .. wo
          PROVE  W[i] \in Byte
      <4>1. i \in 1 .. wo
        BY <1>2, <1>8
      <4> QED
        BY <2>0, <4>1
    <3> QED
      BY <3>1
  <2>2. d + 1 \in Int /\ wo \in Int
    BY <1>2, <1>8
  <2>3. /\ s \in Seq(Byte)
        /\ Len(s) = IF d + 1 <= wo THEN wo - (d + 1) + 1 ELSE 0
        /\ \A i \in 1 .. wo - (d + 1) + 1 : s[i] = W[(d + 1) + i - 1]
    BY <2>1, <2>2, SubSeqProperties
  <2> HIDE DEF s
  <2>4. wo - (d + 1) + 1 = wo2 /\ \A i \in 1 .. wo2 : (d + 1) + i - 1 = d + i
    BY <1>2, <1>8, <1>10, <1>16
  <2>5. Len(s) = wo2
    <3>1. d \in Nat /\ wo \in Nat /\ wo2 \in Nat /\ wo2 = wo - d
      BY <1>2, <1>8, <1>10, <1>16
    <3>2. Len(s) = IF d + 1 <= wo THEN wo - (d + 1) + 1 ELSE 0
      BY <2>3
    <3> QED
      BY <3>1, <3>2
  <2>6. /\ Written(c) \in Seq(Byte) /\ Len(Written(c)) = wo2
        /\ \A i \in 1 .. wo2 : Written(c)[i] = ByteAt(c, i)
    BY <1>14, <1>20, QueueFacts
  <2>7. ASSUME NEW i \in 1 .. wo2
        PROVE  Written(c)[i] = s[i]
    BY <1>18, <2>0, <2>3, <2>4, <2>6
  <2> QED
    BY <2>0, <2>3, <2>5, <2>6, <2>7, SeqEqual DEF s, W
<1>22. ReadPlace(c) = rp /\ ReadPlace(b) = d + rp
  BY <1>4, <1>9, <1>14, <1>15 DEF ReadPlace, Place
<1>23. rb = 1 => c = b
  <2>1. SUFFICES ASSUME rb = 1
                 PROVE  c = b
    OBVIOUS
  <2>2. k = 0 /\ d = 0
    BY <2>1, SizesAssumption DEF d, k
  <2>3. bs = bb
    <3>1. Len(bs) = L /\ L - k = L /\ \A i \in 1 .. L : k + i = i
      BY <1>1, <1>12, <2>2
    <3>2. \A i \in 1 .. L : bs[i] = bb[i]
      BY <1>12, <3>1
    <3> QED
      BY <1>1, <1>12, <3>1, <3>2, SeqEqual DEF L
  <2>4. wb2 = wb /\ wo2 = wo /\ ro2 = ro
    BY <1>2, <2>2 DEF wb2, wo2, ro2
  <2>5. c = [b EXCEPT !.blocks = b.blocks, !.rBlk = b.rBlk, !.wBlk = b.wBlk, !.wOff = b.wOff, !.rOff = b.rOff]
    BY <1>3, <2>1, <2>3, <2>4 DEF bb, rb, wb, wo, ro
  <2> QED
    BY <1>0, <2>5 DEF Queues
<1>24. BlockReadAvail(c) = BlockReadAvail(b)
  <2>1. BlockReadAvail(c) = IF 1 = wb2 THEN tot ELSE BlockSize - rp
    BY <1>14 DEF BlockReadAvail
  <2>2. rb = wb <=> 1 = wb2
    BY <1>2, <1>10 DEF wb2, k
  <2> QED
    BY <1>7, <2>1, <2>2
<1>25. d \in 0 .. ReadPlace(b) /\ d <= wo /\ ReadPlace(c) = ReadPlace(b) - d
  BY <1>2, <1>8, <1>9, <1>22
<1>26. Len(c.blocks) = L - k
  BY <1>12, <1>14
<1> QED
  BY <1>5, <1>14, <1>16, <1>19, <1>20, <1>21, <1>23, <1>24, <1>25, <1>26
     DEF c, L, k, d, bb, rb, ro, tot

-----------------------------------------------------------------------------
(* The loops.                                                              *)

\* What is written so far and what is left to be written.
WritesOn(v, left, b, s) ==
  /\ QueueOK(v) /\ left \in Seq(Byte)
  /\ Written(v) \o left = Written(b) \o s
  /\ ReadPlace(v) = ReadPlace(b) /\ v.rOff = b.rOff

\* A turn of a loop that writes puts as much as there is room for in a block.
LEMMA PieceIsWritten ==
  ASSUME NEW b, NEW s, NEW v, NEW left, WritesOn(v, left, b, s)
  PROVE  LET r == Room(v)
             n == SmallerOf(Len(left), r.wAvail)
             c == WriteIncr(r, SubSeq(left, 1, n))
             rest == SubSeq(left, n + 1, Len(left))
         IN  /\ WritesOn(c, rest, b, s) /\ c.blocks # <<>>
             /\ left # <<>> => c.total > 0 /\ Len(rest) < Len(left)
             /\ n < r.wAvail => rest = <<>>
             /\ left = <<>> => n < r.wAvail
<1> DEFINE r == Room(v)
           a == r.wAvail
           L == Len(left)
           n == SmallerOf(L, a)
           s1 == SubSeq(left, 1, n)
           c == WriteIncr(r, s1)
           rest == SubSeq(left, n + 1, L)
<1>1. /\ QueueOK(r) /\ r.blocks # <<>> /\ a \in 1 .. BlockSize
      /\ Written(r) = Written(v) /\ ReadPlace(r) = ReadPlace(v)
      /\ r.rOff = v.rOff /\ r.total = v.total
  BY RoomIsMade DEF WritesOn
<1>2. left \in Seq(Byte) /\ L \in Nat
  BY DEF WritesOn
<1> HIDE DEF r, a
<1>3. /\ n \in Nat /\ n <= a /\ n <= L /\ (n < a => n = L) /\ (L > 0 => n > 0)
      /\ a \in Nat
  <2> HIDE DEF L
  <2> QED
    BY <1>1, <1>2, SizesAssumption DEF SmallerOf
<1>4. left # <<>> => L > 0
  BY <1>2
<1> HIDE DEF L, n
<1>5. s1 \in Seq(Byte) /\ Len(s1) = n /\ rest \in Seq(Byte) /\ Len(rest) = L - n
      /\ left = s1 \o rest
  <2>0. \A i \in 1 .. L : left[i] \in Byte
    BY <1>2, ElementOfSeq DEF L
  <2>1. 1 \in Int /\ n \in Int /\ \A i \in 1 .. n : left[i] \in Byte
    BY <1>2, <1>3, <2>0
  <2>2. /\ s1 \in Seq(Byte) /\ Len(s1) = IF 1 <= n THEN n - 1 + 1 ELSE 0
        /\ \A i \in 1 .. n - 1 + 1 : s1[i] = left[1 + i - 1]
    BY <2>1, SubSeqProperties
  <2>3. n + 1 \in Int /\ L \in Int /\ \A i \in n + 1 .. L : left[i] \in Byte
    <3>1. n + 1 .. L \subseteq 1 .. L
      BY <1>2, <1>3
    <3> QED
      BY <1>2, <1>3, <2>0, <3>1
  <2>4. /\ rest \in Seq(Byte) /\ Len(rest) = IF n + 1 <= L THEN L - (n + 1) + 1 ELSE 0
        /\ \A i \in 1 .. L - (n + 1) + 1 : rest[i] = left[(n + 1) + i - 1]
    BY <2>3, SubSeqProperties
  <2> HIDE DEF s1, rest
  <2>5. Len(s1) = n /\ Len(rest) = L - n
    BY <1>2, <1>3, <2>2, <2>4
  <2>6. left = s1 \o rest
    <3>1. 1 \in 1 .. Len(left) + 1 /\ n \in 1 - 1 .. Len(left) /\ L \in n .. Len(left)
      BY <1>2, <1>3 DEF L
    <3>2. SubSeq(left, 1, n) \o SubSeq(left, n + 1, L) = SubSeq(left, 1, L)
      BY <1>2, <3>1, ConcatAdjacentSubSeq
    <3> QED
      BY <1>2, <3>2, SubSeqFull DEF s1, rest, L
  <2> QED
    BY <2>2, <2>4, <2>5, <2>6
<1> HIDE DEF s1, rest, c
<1>6. /\ QueueOK(c) /\ c.blocks # <<>>
      /\ Written(c) = Written(r) \o s1 /\ ReadPlace(c) = ReadPlace(r)
      /\ c.rOff = r.rOff /\ c.total = r.total + Len(s1)
  <2>1. Len(s1) <= r.wAvail
    BY <1>3, <1>5 DEF a
  <2> QED
    BY <1>1, <1>5, <2>1, BytesAreWritten DEF c
<1>7. Written(c) \o rest = Written(b) \o s
  <2>1. Written(v) \in Seq(Byte)
    BY QueueFacts DEF WritesOn
  <2>2. \A a1, a2, a3 \in Seq(Byte) : (a1 \o a2) \o a3 = a1 \o (a2 \o a3)
    <3>1. ASSUME NEW a1 \in Seq(Byte), NEW a2 \in Seq(Byte), NEW a3 \in Seq(Byte)
          PROVE  (a1 \o a2) \o a3 = a1 \o (a2 \o a3)
      BY ConcatAssociative
    <3> QED
      BY <3>1
  <2>3. (Written(v) \o s1) \o rest = Written(v) \o (s1 \o rest)
    BY <1>5, <2>1, <2>2
  <2> QED
    BY <1>1, <1>5, <1>6, <2>3 DEF WritesOn
<1>8. n < a => rest = <<>>
  <2>1. SUFFICES ASSUME n < a PROVE rest = <<>>
    OBVIOUS
  <2>2. Len(rest) = 0
    BY <1>2, <1>3, <1>5, <2>1
  <2> QED
    BY <1>5, <2>2, EmptySeq
<1>9. left # <<>> => c.total > 0 /\ Len(rest) < L
  <2>1. v.total \in Nat
    BY QueueFacts DEF WritesOn
  <2> DEFINE tot == c.total
             m == Len(rest)
  <2>2. left # <<>> => tot = v.total + n /\ n > 0 /\ m = L - n
    BY <1>1, <1>3, <1>4, <1>5, <1>6
  <2> HIDE DEF tot, m
  <2> QED
    BY <1>2, <1>3, <2>1, <2>2 DEF tot, m
<1>10. left = <<>> => n < a
  <2>1. left = <<>> => L = 0
    BY DEF L
  <2> QED
    BY <1>1, <1>3, <2>1, SizesAssumption
<1>11. WritesOn(c, rest, b, s)
  BY <1>1, <1>5, <1>6, <1>7 DEF WritesOn
<1> QED
  BY <1>6, <1>8, <1>9, <1>10, <1>11 DEF r, a, L, n, s1, c, rest

\* write puts all of s at the end.
LEMMA WriteAllExtends ==
  ASSUME NEW b, QueueOK(b), NEW s \in Seq(Byte)
  PROVE  WritesOn(WriteAll(b, s), <<>>, b, s)
<1> DEFINE X == {u \in [q : Queues, left : Seq(Byte)] : WritesOn(u.q, u.left, b, s)}
           t == [q |-> b, left |-> s]
           L == Len(s)
<1>1. L \in Nat
  OBVIOUS
<1>2. t \in X
  BY DEF WritesOn, QueueOK
<1>3. ASSUME NEW u \in X
      PROVE  WriteTurn(u) \in X /\ (u.left # <<>> => Len(WriteTurn(u).left) < Len(u.left))
  <2>1. CASE u.left = <<>>
    BY <2>1 DEF WriteTurn
  <2>2. CASE u.left # <<>>
    <3> DEFINE v == u.q
               left == u.left
               n == SmallerOf(Len(left), Room(v).wAvail)
               c == WriteIncr(Room(v), SubSeq(left, 1, n))
               rest == SubSeq(left, n + 1, Len(left))
    <3>1. WriteTurn(u) = [q |-> c, left |-> rest]
      BY <2>2 DEF WriteTurn
    <3>2. WritesOn(v, left, b, s)
      OBVIOUS
    <3> HIDE DEF v, left, X
    <3>3. WritesOn(c, rest, b, s) /\ (left # <<>> => Len(rest) < Len(left))
      BY <3>2, PieceIsWritten
    <3>4. c \in Queues /\ rest \in Seq(Byte) /\ Len(left) \in Nat
      BY <3>2, <3>3 DEF WritesOn, QueueOK
    <3> HIDE DEF n, c, rest
    <3>5. WriteTurn(u) \in X
      BY <3>1, <3>3, <3>4 DEF X
    <3> QED
      BY <2>2, <3>1, <3>3, <3>5 DEF left
  <2> QED
    BY <2>1, <2>2
<1> HIDE DEF X, t
<1>0. PICK f : WriteRun(f, X, t, L)
  <2>1. \A u \in X : WriteTurn(u) \in X
    BY <1>3
  <2> HIDE DEF L
  <2> QED
    BY <1>1, <1>2, <2>1, WriteTurns
<1>4. /\ f \in [0 .. L -> X] /\ f[0] = t
      /\ \A i \in 1 .. L : f[i] = WriteTurn(f[i - 1])
      /\ Turns(WriteTurn, t, L) = f[L]
  BY <1>0 DEF WriteRun
<1> DEFINE S == {i \in 0 .. L : Len(f[i].left) + i <= L}
<1>5. 0 \in S
  BY <1>1, <1>4 DEF t
<1>6. ASSUME NEW i \in 0 .. L - 1, i \in S
      PROVE  i + 1 \in S
  <2> DEFINE u == f[i]
  <2>1. u \in X /\ f[i + 1] = WriteTurn(u) /\ i + 1 \in 1 .. L
    <3>1. i + 1 \in 1 .. L /\ (i + 1) - 1 = i
      BY <1>1
    <3> QED
      BY <1>1, <1>4, <3>1
  <2>2. f[i + 1] \in X
    BY <1>3, <2>1
  <2>3. Len(u.left) + i <= L /\ Len(u.left) \in Nat /\ Len(f[i + 1].left) \in Nat
    BY <1>6, <2>1, <2>2 DEF X
  <2> HIDE DEF u
  <2>4. CASE u.left = <<>>
    <3>1. f[i + 1] = u
      BY <2>1, <2>4 DEF WriteTurn
    <3>2. Len(u.left) = 0
      BY <2>4
    <3> QED
      BY <1>1, <2>1, <3>1, <3>2
  <2>5. CASE u.left # <<>>
    <3>1. Len(f[i + 1].left) < Len(u.left)
      BY <1>3, <2>1, <2>5
    <3> QED
      BY <1>1, <2>1, <2>3, <3>1
  <2> QED
    BY <2>4, <2>5
<1> HIDE DEF S
<1>7. L \in S
  <2> HIDE DEF L
  <2>1. 0 .. L \subseteq S
    BY <1>1, <1>5, <1>6, UpTo
  <2> QED
    BY <1>1, <2>1
<1>8. f[L] \in X
  BY <1>1, <1>4
<1>9. f[L].left = <<>>
  <2> DEFINE left == f[L].left
  <2>1. left \in Seq(Byte) /\ Len(left) \in Nat /\ Len(left) + L <= L
    BY <1>7, <1>8 DEF S, X
  <2> HIDE DEF left, L
  <2>2. Len(left) = 0
    BY <1>1, <2>1
  <2>3. left = <<>>
    BY <2>1, <2>2, EmptySeq
  <2> QED
    BY <2>3 DEF left, L
<1>10. WriteAll(b, s) = f[L].q
  BY <1>4 DEF WriteAll, t
<1> QED
  BY <1>8, <1>9, <1>10 DEF X

\* So does nc_read, of what it receives.
LEMMA NcReadExtends ==
  ASSUME NEW b, QueueOK(b), NEW s \in Seq(Byte)
  PROVE  WritesOn(NcRead(b, s), <<>>, b, s)
<1> DEFINE X == {u \in [q : Queues, left : Seq(Byte), ended : BOOLEAN] :
                   WritesOn(u.q, u.left, b, s) /\ (u.ended => u.left = <<>>)}
           t == [q |-> b, left |-> s, ended |-> FALSE]
           L == Len(s)
<1>1. L \in Nat
  OBVIOUS
<1>2. t \in X
  BY DEF WritesOn, QueueOK
<1>3. ASSUME NEW u \in X
      PROVE  /\ NcReadTurn(u) \in X
             /\ u.ended => NcReadTurn(u) = u
             /\ \/ NcReadTurn(u).ended
                \/ Len(NcReadTurn(u).left) < Len(u.left)
  <2>1. CASE u.ended
    BY <2>1 DEF NcReadTurn
  <2>2. CASE ~u.ended
    <3> DEFINE v == u.q
               left == u.left
               a == Room(v).wAvail
               n == SmallerOf(Len(left), a)
               c == WriteIncr(Room(v), SubSeq(left, 1, n))
               rest == SubSeq(left, n + 1, Len(left))
               e == n < a
    <3>1. NcReadTurn(u) = [q |-> c, left |-> rest, ended |-> e]
      BY <2>2 DEF NcReadTurn
    <3>2. WritesOn(v, left, b, s)
      OBVIOUS
    <3> HIDE DEF v, left, X
    <3>3. /\ WritesOn(c, rest, b, s) /\ (left # <<>> => Len(rest) < Len(left))
          /\ e => rest = <<>>
          /\ left = <<>> => e
      BY <3>2, PieceIsWritten
    <3>4. c \in Queues /\ rest \in Seq(Byte) /\ Len(left) \in Nat /\ left \in Seq(Byte)
      BY <3>2, <3>3 DEF WritesOn, QueueOK
    <3>7. e \in BOOLEAN
      OBVIOUS
    <3> HIDE DEF n, c, rest, e
    <3>5. NcReadTurn(u) \in X
      BY <3>1, <3>3, <3>4, <3>7 DEF X
    <3>8. NcReadTurn(u).left = rest /\ NcReadTurn(u).ended = e
      BY <3>1
    <3>9. e \/ Len(rest) < Len(left)
      BY <3>3
    <3> QED
      BY <2>2, <3>5, <3>8, <3>9 DEF left
  <2> QED
    BY <2>1, <2>2
<1> HIDE DEF X, t
<1>0. PICK f : NcReadRun(f, X, t, L + 1)
  <2>1. L + 1 \in Nat
    BY <1>1
  <2>2. \A u \in X : NcReadTurn(u) \in X
    BY <1>3
  <2> HIDE DEF L
  <2> QED
    BY <1>2, <2>1, <2>2, NcReadTurns
<1>4. /\ f \in [0 .. L + 1 -> X] /\ f[0] = t
      /\ \A i \in 1 .. L + 1 : f[i] = NcReadTurn(f[i - 1])
      /\ Turns(NcReadTurn, t, L + 1) = f[L + 1]
  BY <1>0 DEF NcReadRun
<1> DEFINE S == {i \in 0 .. L + 1 : f[i].ended \/ Len(f[i].left) + i <= L}
<1>5. 0 \in S
  BY <1>1, <1>4 DEF t
<1>6. ASSUME NEW i \in 0 .. (L + 1) - 1, i \in S
      PROVE  i + 1 \in S
  <2> DEFINE u == f[i]
  <2>1. u \in X /\ f[i + 1] = NcReadTurn(u) /\ i + 1 \in 1 .. L + 1
    <3>1. i + 1 \in 1 .. L + 1 /\ (i + 1) - 1 = i /\ i \in 0 .. L + 1
      BY <1>1
    <3> QED
      BY <1>1, <1>4, <3>1
  <2>2. f[i + 1] \in X
    BY <1>3, <2>1
  <2>3. u.ended \/ Len(u.left) + i <= L
    BY <1>6
  <2>6. Len(u.left) \in Nat /\ Len(f[i + 1].left) \in Nat
    BY <2>1, <2>2 DEF X
  <2> HIDE DEF u
  <2>4. CASE u.ended
    <3>1. f[i + 1].ended
      BY <1>3, <2>1, <2>4
    <3> QED
      BY <1>1, <2>1, <3>1
  <2>5. CASE ~u.ended
    <3>1. f[i + 1].ended \/ Len(f[i + 1].left) < Len(u.left)
      BY <1>3, <2>1
    <3> DEFINE e2 == f[i + 1].ended
               m == Len(u.left)
               m2 == Len(f[i + 1].left)
    <3>2. /\ m \in Nat /\ m2 \in Nat /\ (e2 \/ m2 < m) /\ m + i <= L
          /\ i \in Nat /\ i + 1 \in 0 .. L + 1
      BY <1>1, <2>1, <2>3, <2>5, <2>6, <3>1
    <3>3. e2 \/ m2 + (i + 1) <= L
      <4> HIDE DEF e2, m, m2, L
      <4> QED
        BY <1>1, <3>2
    <3> QED
      BY <3>2, <3>3
  <2> QED
    BY <2>4, <2>5
<1> HIDE DEF S
<1>7. L + 1 \in S
  <2>1. L + 1 \in Nat
    BY <1>1
  <2> HIDE DEF L
  <2>2. 0 .. L + 1 \subseteq S
    BY <1>5, <1>6, <2>1, UpTo
  <2> QED
    BY <2>1, <2>2
<1>8. f[L + 1] \in X
  BY <1>1, <1>4
<1>9. f[L + 1].left = <<>>
  <2> DEFINE left == f[L + 1].left
             e == f[L + 1].ended
  <2>1. left \in Seq(Byte) /\ Len(left) \in Nat /\ (e => left = <<>>)
    BY <1>8 DEF X
  <2>2. e \/ Len(left) + (L + 1) <= L
    BY <1>7 DEF S
  <2> HIDE DEF left, L, e
  <2> QED
    BY <1>1, <2>1, <2>2 DEF left
<1>10. NcRead(b, s) = f[L + 1].q
  BY <1>4 DEF NcRead, t
<1> QED
  BY <1>8, <1>9, <1>10 DEF X

\* And write_fd, of what there is in a file; it can be sent at once.
LEMMA WriteFdExtends ==
  ASSUME NEW b, QueueOK(b), NEW s \in Seq(Byte), s # <<>>
  PROVE  WritesOn(WriteFd(b, s), <<>>, b, s) /\ BlockReadAvail(WriteFd(b, s)) > 0
<1> DEFINE X == {u \in [q : Queues, left : Seq(Byte)] :
                   /\ WritesOn(u.q, u.left, b, s)
                   /\ u.left = s \/ BlockReadAvail(u.q) > 0}
           t == [q |-> b, left |-> s]
           L == Len(s)
<1>1. L \in Nat
  OBVIOUS
<1>2. t \in X
  BY DEF WritesOn, QueueOK
<1>3. ASSUME NEW u \in X
      PROVE  WriteFdTurn(u) \in X /\ (u.left # <<>> => Len(WriteFdTurn(u).left) < Len(u.left))
  <2>1. CASE u.left = <<>>
    BY <2>1 DEF WriteFdTurn
  <2>2. CASE u.left # <<>>
    <3> DEFINE v == u.q
               left == u.left
               n == SmallerOf(Len(left), Room(v).wAvail)
               c == WriteIncr(Room(v), SubSeq(left, 1, n))
               c2 == ReadIncr(c, 0)
               rest == SubSeq(left, n + 1, Len(left))
    <3>1. WriteFdTurn(u) = [q |-> c2, left |-> rest]
      BY <2>2 DEF WriteFdTurn, FdStep
    <3>2. WritesOn(v, left, b, s)
      OBVIOUS
    <3> HIDE DEF v, left, X
    <3>3. /\ WritesOn(c, rest, b, s) /\ c.blocks # <<>>
          /\ left # <<>> => c.total > 0 /\ Len(rest) < Len(left)
      BY <3>2, PieceIsWritten
    <3> HIDE DEF n, c, rest
    <3>6. /\ QueueOK(c) /\ 0 \in 0 .. BlockReadAvail(c)
          /\ c.total \in Nat /\ ReadPlace(c) \in Nat /\ c.rOff \in Nat
      <4>1. QueueOK(c)
        BY <3>3 DEF WritesOn
      <4>2. BlockReadAvail(c) \in 0 .. c.total /\ c.total \in Nat
        BY <3>3, <4>1, ReadAvail, QueueFacts
      <4> QED
        BY <4>1, <4>2, QueueFacts
    <3>7. /\ QueueOK(c2) /\ Written(c2) = Written(c) /\ ReadPlace(c2) = ReadPlace(c) + 0
          /\ c2.rOff = c.rOff + 0 /\ c2.total = c.total - 0
          /\ c2.total > 0 => BlockReadAvail(c2) > 0
      BY <3>3, <3>6, BytesAreRead
    <3> HIDE DEF c2
    <3>8. WritesOn(c2, rest, b, s) /\ BlockReadAvail(c2) > 0
      <4>1. ReadPlace(c2) = ReadPlace(c) /\ c2.rOff = c.rOff /\ c2.total = c.total
        BY <3>6, <3>7
      <4> QED
        BY <2>2, <3>3, <3>7, <4>1 DEF WritesOn, left
    <3>4. c2 \in Queues /\ rest \in Seq(Byte)
      BY <3>8 DEF WritesOn, QueueOK
    <3>5. WriteFdTurn(u) \in X
      BY <3>1, <3>4, <3>8 DEF X
    <3> QED
      BY <2>2, <3>1, <3>3, <3>5 DEF left
  <2> QED
    BY <2>1, <2>2
<1> HIDE DEF X, t
<1>0. PICK f : WriteFdRun(f, X, t, L)
  <2>1. \A u \in X : WriteFdTurn(u) \in X
    BY <1>3
  <2> HIDE DEF L
  <2> QED
    BY <1>1, <1>2, <2>1, WriteFdTurns
<1>4. /\ f \in [0 .. L -> X] /\ f[0] = t
      /\ \A i \in 1 .. L : f[i] = WriteFdTurn(f[i - 1])
      /\ Turns(WriteFdTurn, t, L) = f[L]
  BY <1>0 DEF WriteFdRun
<1> DEFINE S == {i \in 0 .. L : Len(f[i].left) + i <= L}
<1>5. 0 \in S
  BY <1>1, <1>4 DEF t
<1>6. ASSUME NEW i \in 0 .. L - 1, i \in S
      PROVE  i + 1 \in S
  <2> DEFINE u == f[i]
  <2>1. u \in X /\ f[i + 1] = WriteFdTurn(u) /\ i + 1 \in 1 .. L
    <3>1. i + 1 \in 1 .. L /\ (i + 1) - 1 = i
      BY <1>1
    <3> QED
      BY <1>1, <1>4, <3>1
  <2>2. f[i + 1] \in X
    BY <1>3, <2>1
  <2>3. Len(u.left) + i <= L /\ Len(u.left) \in Nat /\ Len(f[i + 1].left) \in Nat
    BY <1>6, <2>1, <2>2 DEF X
  <2> HIDE DEF u
  <2>4. CASE u.left = <<>>
    <3>1. f[i + 1] = u
      BY <2>1, <2>4 DEF WriteFdTurn
    <3>2. Len(u.left) = 0
      BY <2>4
    <3> QED
      BY <1>1, <2>1, <3>1, <3>2
  <2>5. CASE u.left # <<>>
    <3>1. Len(f[i + 1].left) < Len(u.left)
      BY <1>3, <2>1, <2>5
    <3> QED
      BY <1>1, <2>1, <2>3, <3>1
  <2> QED
    BY <2>4, <2>5
<1> HIDE DEF S
<1>7. L \in S
  <2> HIDE DEF L
  <2>1. 0 .. L \subseteq S
    BY <1>1, <1>5, <1>6, UpTo
  <2> QED
    BY <1>1, <2>1
<1>8. f[L] \in X
  BY <1>1, <1>4
<1>9. f[L].left = <<>>
  <2> DEFINE left == f[L].left
  <2>1. left \in Seq(Byte) /\ Len(left) \in Nat /\ Len(left) + L <= L
    BY <1>7, <1>8 DEF S, X
  <2> HIDE DEF left, L
  <2>2. Len(left) = 0
    BY <1>1, <2>1
  <2>3. left = <<>>
    BY <2>1, <2>2, EmptySeq
  <2> QED
    BY <2>3 DEF left, L
<1>10. WriteFd(b, s) = f[L].q
  BY <1>4 DEF WriteFd, t
<1>11. f[L].left # s
  BY <1>9
<1> QED
  BY <1>8, <1>9, <1>10, <1>11 DEF X

\* m bytes, o, were read on from where b was.
ReadsOn(v, b, m, o) ==
  /\ QueueOK(v) /\ v.blocks = b.blocks /\ Written(v) = Written(b)
  /\ ReadPlace(v) = ReadPlace(b) + m
  /\ o \in Seq(Byte) /\ o = SubSeq(Written(b), ReadPlace(b) + 1, ReadPlace(b) + m)
  /\ v.rBlk >= b.rBlk
  /\ v.rBlk = b.rBlk => v.rOff = b.rOff + m

\* A turn of read goes on in a block.
LEMMA PieceIsRead ==
  ASSUME NEW b, QueueOK(b), NEW n \in 0 .. b.total, NEW m \in 0 .. n, m < n,
         NEW v, NEW o, ReadsOn(v, b, m, o), NEW k \in Nat,
         k <= n - m, k <= BlockReadAvail(v)
  PROVE  /\ ReadsOn(ReadIncr(v, k), b, m + k, o \o BytesAt(v, k))
         /\ BlockReadAvail(v) \in Nat
         /\ m + k < n => BlockReadAvail(ReadIncr(v, k)) > 0
<1> DEFINE c == ReadIncr(v, k)
           W == Written(b)
           p == ReadPlace(b)
           av == BlockReadAvail(v)
           bt == b.total
           vt == v.total
           o2 == o \o BytesAt(v, k)
<1>1. /\ W \in Seq(Byte) /\ Len(W) = b.wOff /\ b.wOff \in Nat /\ p \in Nat
      /\ bt \in Nat /\ p + bt = b.wOff /\ b.rOff \in Nat /\ b.rBlk \in Nat
  BY QueueFacts DEF QueueOK, Queues
<1>2. /\ QueueOK(v) /\ v.blocks = b.blocks /\ Written(v) = W /\ ReadPlace(v) = p + m
      /\ o = SubSeq(W, p + 1, p + m) /\ v.rBlk >= b.rBlk
      /\ v.rBlk = b.rBlk => v.rOff = b.rOff + m
  BY DEF ReadsOn
<1>3. /\ Len(W) = v.wOff /\ vt \in Nat /\ ReadPlace(v) + vt = v.wOff /\ v.rOff \in Nat
      /\ v.rBlk \in Nat
  BY <1>2, QueueFacts DEF QueueOK, Queues
<1>4. n \in Nat /\ m \in Nat /\ n <= bt
  BY <1>1
<1>5. vt = bt - m /\ vt > 0
  <2> HIDE DEF W, p, bt, vt
  <2> QED
    BY <1>1, <1>2, <1>3, <1>4
<1>6. v.blocks # <<>>
  <2>1. v.blocks = <<>> => vt = 0
    BY <1>2 DEF QueueOK, EmptyQueue
  <2> QED
    BY <1>5, <2>1
<1>7. av \in 0 .. vt
  BY <1>2, <1>6, ReadAvail
<1>8. k \in 0 .. av
  <2> HIDE DEF vt, av
  <2> QED
    BY <1>3, <1>7 DEF av
<1>9. /\ QueueOK(c) /\ c.blocks = v.blocks /\ Written(c) = Written(v)
      /\ ReadPlace(c) = ReadPlace(v) + k /\ c.total = v.total - k
      /\ BytesAt(v, k) = SubSeq(Written(v), ReadPlace(v) + 1, ReadPlace(v) + k)
      /\ c.rBlk >= v.rBlk
      /\ c.rBlk = v.rBlk \/ k = 0 => c.rOff = v.rOff + k
      /\ c.total > 0 => BlockReadAvail(c) > 0
  BY <1>2, <1>6, <1>8, BytesAreRead
<1>10. c.rBlk \in Nat /\ c.rOff \in Nat
  BY <1>9 DEF QueueOK, Queues
<1> HIDE DEF c, W, p, av, bt, vt
<1>11. (p + m) + k = p + (m + k) /\ m + k \in Nat /\ p + m \in Nat
  BY <1>1, <1>4
<1>12. o2 \in Seq(Byte) /\ o2 = SubSeq(W, p + 1, p + (m + k))
  <2> DEFINE lo == p + 1
             mid == p + m
             hi == p + (m + k)
  <2>1. lo \in 1 .. Len(W) + 1 /\ mid \in lo - 1 .. Len(W) /\ hi \in mid .. Len(W)
    BY <1>1, <1>2, <1>3, <1>4, <1>5, <1>7, <1>8
  <2>2. BytesAt(v, k) = SubSeq(W, mid + 1, hi)
    BY <1>2, <1>9, <1>11
  <2> HIDE DEF lo, mid, hi
  <2>3. SubSeq(W, lo, mid) \o SubSeq(W, mid + 1, hi) = SubSeq(W, lo, hi)
    BY <1>1, <2>1, ConcatAdjacentSubSeq
  <2>4. SubSeq(W, lo, hi) \in Seq(Byte)
    <3>1. \A i \in lo .. hi : i \in 1 .. Len(W)
      BY <1>1, <2>1
    <3>2. \A i \in lo .. hi : W[i] \in Byte
      BY <1>1, <3>1, ElementOfSeq
    <3>3. lo \in Int /\ hi \in Int
      BY <1>1, <2>1
    <3> QED
      BY <3>2, <3>3, SubSeqProperties
  <2> QED
    BY <1>2, <2>2, <2>3, <2>4 DEF lo, mid, hi
<1>13. c.rBlk >= b.rBlk /\ (c.rBlk = b.rBlk => c.rOff = b.rOff + (m + k))
  <2> DEFINE cb == c.rBlk
             vb == v.rBlk
             bb == b.rBlk
             cr == c.rOff
             vr == v.rOff
             br == b.rOff
  <2>1. /\ cb \in Nat /\ vb \in Nat /\ bb \in Nat /\ cr \in Nat /\ vr \in Nat /\ br \in Nat
        /\ vb >= bb /\ cb >= vb
        /\ vb = bb => vr = br + m
        /\ cb = vb => cr = vr + k
    BY <1>1, <1>2, <1>3, <1>9, <1>10
  <2> HIDE DEF cb, vb, bb, cr, vr, br
  <2>2. cb >= bb /\ (cb = bb => cr = br + (m + k))
    BY <1>4, <2>1
  <2> QED
    BY <2>2 DEF cb, bb, cr, br
<1>14. ReadsOn(c, b, m + k, o2)
  BY <1>2, <1>9, <1>11, <1>12, <1>13 DEF ReadsOn, W, p
<1>15. m + k < n => BlockReadAvail(c) > 0
  <2>1. m + k < n => vt - k > 0
    BY <1>1, <1>4, <1>5
  <2> QED
    BY <1>9, <2>1 DEF vt
<1>16. av \in Nat
  BY <1>3, <1>7
<1> QED
  BY <1>14, <1>15, <1>16 DEF c, av, o2

\* read(n), for n bytes there are, goes on over n bytes and returns them.
LEMMA ReadAllReads ==
  ASSUME NEW b, QueueOK(b), NEW n \in 0 .. b.total
  PROVE  ReadsOn(ReadAll(b, n).q, b, n, ReadAll(b, n).out)
<1> DEFINE X == {u \in [q : Queues, left : 0 .. n, out : Seq(Byte)] :
                   ReadsOn(u.q, b, n - u.left, u.out)}
           t == [q |-> b, left |-> n, out |-> <<>>]
           N == n + 1
<1>1. /\ n \in Nat /\ N \in Nat /\ ReadPlace(b) \in Nat /\ b.rOff \in Nat /\ b.rBlk \in Nat
      /\ b \in Queues
  BY QueueFacts DEF QueueOK, Queues
<1>2. t \in X
  <2>1. ReadsOn(b, b, 0, <<>>)
    <3>1. SubSeq(Written(b), ReadPlace(b) + 1, ReadPlace(b)) = <<>>
      BY <1>1, SubSeqEmpty
    <3>2. ReadPlace(b) + 0 = ReadPlace(b) /\ b.rOff + 0 = b.rOff /\ b.rBlk >= b.rBlk
      BY <1>1
    <3> QED
      BY <3>1, <3>2, EmptySeq DEF ReadsOn
  <2>2. n - n = 0 /\ n \in 0 .. n
    BY <1>1
  <2> QED
    BY <1>1, <2>1, <2>2, EmptySeq
<1>3. ASSUME NEW u \in X
      PROVE  /\ ReadTurn(u) \in X
             /\ u.left = 0 => ReadTurn(u) = u
             /\ u.left # 0 =>
                  /\ ReadTurn(u).left = 0 \/ BlockReadAvail(ReadTurn(u).q) > 0
                  /\ ReadTurn(u).left <= u.left
                  /\ BlockReadAvail(u.q) > 0 => ReadTurn(u).left < u.left
  <2>1. CASE u.left = 0
    BY <2>1 DEF ReadTurn
  <2>2. CASE u.left # 0
    <3> DEFINE v == u.q
               left == u.left
               o == u.out
               av == BlockReadAvail(v)
               k == SmallerOf(left, av)
               c == ReadIncr(v, k)
               left2 == left - k
               o2 == o \o BytesAt(v, k)
               m == n - left
    <3>1. ReadTurn(u) = [q |-> c, left |-> left2, out |-> o2]
      BY <2>2 DEF ReadTurn
    <3>2. left \in 1 .. n /\ ReadsOn(v, b, m, o)
      BY <1>1, <2>2
    <3>3. m \in 0 .. n /\ m < n
      BY <1>1, <3>2
    <3>4. av \in Nat
      <4> HIDE DEF v, m, o, X
      <4>1. 0 \in Nat /\ 0 <= n - m
        BY <1>1, <3>3
      <4>2. QueueOK(v) /\ ReadPlace(v) = ReadPlace(b) + m /\ v.blocks = b.blocks
            /\ Written(v) = Written(b)
        BY <3>2 DEF ReadsOn
      <4>3. v.blocks # <<>>
        <5> DEFINE p == ReadPlace(b)
                   vp == ReadPlace(v)
        <5>1. /\ vp + v.total = v.wOff /\ p + b.total = b.wOff /\ v.wOff = b.wOff
              /\ vp \in Nat /\ p \in Nat /\ v.total \in Nat /\ b.total \in Nat /\ vp = p + m
          BY <4>2, QueueFacts
        <5>2. b.total > 0
          BY <1>1, <3>3, <5>1
        <5> QED
          BY <4>2, <5>2 DEF QueueOK, EmptyQueue
      <4>4. BlockReadAvail(v) \in 0 .. v.total /\ v.total \in Nat
        BY <4>2, <4>3, ReadAvail, QueueFacts
      <4> QED
        BY <4>4 DEF av
    <3>5. /\ k \in Nat /\ k <= n - m /\ k <= av /\ left2 \in 0 .. n
          /\ m + k = n - left2 /\ left2 <= left
          /\ av > 0 => left2 < left
          /\ left2 # 0 => m + k < n
      <4> HIDE DEF av, left
      <4> QED
        BY <1>1, <3>2, <3>3, <3>4 DEF SmallerOf
    <3> HIDE DEF v, left, o, k, m, X
    <3>6. /\ ReadsOn(ReadIncr(v, k), b, m + k, o \o BytesAt(v, k))
          /\ m + k < n => BlockReadAvail(ReadIncr(v, k)) > 0
      BY <3>2, <3>3, <3>5, PieceIsRead
    <3>7. ReadsOn(c, b, n - left2, o2) /\ (left2 # 0 => BlockReadAvail(c) > 0)
      BY <3>5, <3>6
    <3> HIDE DEF c, o2, left2
    <3>8. c \in Queues /\ o2 \in Seq(Byte)
      BY <3>7 DEF ReadsOn, QueueOK
    <3>9. ReadTurn(u) \in X
      BY <3>1, <3>5, <3>7, <3>8 DEF X
    <3>10. ReadTurn(u).left = left2 /\ ReadTurn(u).q = c
      BY <3>1
    <3> QED
      BY <2>2, <3>5, <3>7, <3>9, <3>10 DEF left, v, av
  <2> QED
    BY <2>1, <2>2
<1> HIDE DEF X, t
<1>0. PICK f : ReadRun(f, X, t, N)
  <2>1. \A u \in X : ReadTurn(u) \in X
    BY <1>3
  <2> HIDE DEF N
  <2> QED
    BY <1>1, <1>2, <2>1, ReadTurns
<1>4. /\ f \in [0 .. N -> X] /\ f[0] = t
      /\ \A i \in 1 .. N : f[i] = ReadTurn(f[i - 1])
      /\ Turns(ReadTurn, t, N) = f[N]
  BY <1>0 DEF ReadRun
<1> DEFINE left(i) == f[i].left
           av(i) == BlockReadAvail(f[i].q)
           S == {i \in 0 .. N : left(i) = 0 \/ i = 0 \/ (av(i) > 0 /\ left(i) + i <= N)}
<1>5. 0 \in S
  BY <1>1
<1>6. ASSUME NEW i \in 0 .. N - 1, i \in S
      PROVE  i + 1 \in S
  <2> DEFINE u == f[i]
  <2>1. u \in X /\ f[i + 1] = ReadTurn(u) /\ i + 1 \in 1 .. N
    <3>1. i + 1 \in 1 .. N /\ (i + 1) - 1 = i /\ i \in 0 .. N
      BY <1>1
    <3> QED
      BY <1>1, <1>4, <3>1
  <2>2. f[i + 1] \in X
    BY <1>3, <2>1
  <2>3. left(i) = 0 \/ i = 0 \/ (av(i) > 0 /\ left(i) + i <= N)
    BY <1>6
  <2>4. left(i) \in 0 .. n /\ left(i + 1) \in 0 .. n
    BY <2>1, <2>2 DEF X
  <2>5. /\ left(i) = 0 => left(i + 1) = left(i)
        /\ left(i) # 0 =>
             /\ left(i + 1) = 0 \/ av(i + 1) > 0
             /\ left(i + 1) <= left(i)
             /\ av(i) > 0 => left(i + 1) < left(i)
    BY <1>3, <2>1
  <2> HIDE DEF u, left, av
  <2>6. left(i + 1) = 0 \/ (av(i + 1) > 0 /\ left(i + 1) + (i + 1) <= N)
    BY <1>1, <2>3, <2>4, <2>5
  <2> QED
    BY <1>1, <2>6
<1>7. N \in S
  <2> HIDE DEF N, S
  <2>1. 0 .. N \subseteq S
    BY <1>1, <1>5, <1>6, UpTo
  <2> QED
    BY <1>1, <2>1
<1>8. f[N] \in X
  <2> HIDE DEF N
  <2> QED
    BY <1>1, <1>4
<1>9. f[N].left = 0
  <2>1. left(N) \in 0 .. n
    BY <1>8 DEF X
  <2>2. left(N) = 0 \/ left(N) + N <= N
    BY <1>1, <1>7
  <2> HIDE DEF left
  <2>3. left(N) = 0
    BY <1>1, <2>1, <2>2
  <2> QED
    BY <2>3 DEF left
<1>10. ReadAll(b, n) = f[N]
  BY <1>4 DEF ReadAll, t
<1>11. ReadsOn(f[N].q, b, n, f[N].out)
  <2>1. ReadsOn(f[N].q, b, n - f[N].left, f[N].out)
    BY <1>8 DEF X
  <2>2. n - f[N].left = n
    BY <1>1, <1>9
  <2> QED
    BY <2>1, <2>2
<1> QED
  BY <1>10, <1>11

\* A piece of a sequence.
LEMMA Slice ==
  ASSUME NEW W \in Seq(Byte), NEW lo \in Nat, NEW hi \in Nat, lo <= hi, hi <= Len(W)
  PROVE  /\ SubSeq(W, lo + 1, hi) \in Seq(Byte)
         /\ Len(SubSeq(W, lo + 1, hi)) = hi - lo
         /\ \A i \in 1 .. hi - lo : SubSeq(W, lo + 1, hi)[i] = W[lo + i]
<1> DEFINE s == SubSeq(W, lo + 1, hi)
<1>1. \A i \in lo + 1 .. hi : W[i] \in Byte
  <2>1. \A i \in lo + 1 .. hi : i \in 1 .. Len(W)
    OBVIOUS
  <2> QED
    BY <2>1, ElementOfSeq
<1>2. lo + 1 \in Int /\ hi \in Int
  OBVIOUS
<1>3. /\ s \in Seq(Byte) /\ Len(s) = IF lo + 1 <= hi THEN hi - (lo + 1) + 1 ELSE 0
      /\ \A i \in 1 .. hi - (lo + 1) + 1 : s[i] = W[(lo + 1) + i - 1]
  BY <1>1, <1>2, SubSeqProperties
<1> HIDE DEF s
<1>4. hi - (lo + 1) + 1 = hi - lo /\ \A i \in 1 .. hi - lo : (lo + 1) + i - 1 = lo + i
  OBVIOUS
<1>5. Len(s) = hi - lo
  BY <1>3
<1> QED
  BY <1>3, <1>4, <1>5 DEF s

\* A piece of what is left of a sequence is a piece of the sequence.
LEMMA SliceOfRest ==
  ASSUME NEW W \in Seq(Byte), NEW d \in Nat, NEW lo \in Nat, NEW hi \in Nat,
         lo <= hi, d + hi <= Len(W)
  PROVE  SubSeq(SubSeq(W, d + 1, Len(W)), lo + 1, hi) = SubSeq(W, (d + lo) + 1, d + hi)
<1> DEFINE L == Len(W)
           V == SubSeq(W, d + 1, L)
           s == SubSeq(V, lo + 1, hi)
           u == SubSeq(W, (d + lo) + 1, d + hi)
<1>0. L \in Nat /\ W \in Seq(Byte)
  OBVIOUS
<1>1. V \in Seq(Byte) /\ Len(V) = L - d /\ \A i \in 1 .. L - d : V[i] = W[d + i]
  <2>1. d <= L /\ L <= Len(W)
    BY <1>0
  <2> QED
    BY <1>0, <2>1, Slice
<1> HIDE DEF V
<1>2. s \in Seq(Byte) /\ Len(s) = hi - lo /\ \A i \in 1 .. hi - lo : s[i] = V[lo + i]
  <2>1. hi <= Len(V)
    BY <1>0, <1>1
  <2> QED
    BY <1>1, <2>1, Slice
<1>3. u \in Seq(Byte) /\ Len(u) = hi - lo /\ \A i \in 1 .. hi - lo : u[i] = W[(d + lo) + i]
  <2>1. d + lo \in Nat /\ d + hi \in Nat /\ d + lo <= d + hi /\ (d + hi) - (d + lo) = hi - lo
    OBVIOUS
  <2>2. /\ u \in Seq(Byte) /\ Len(u) = (d + hi) - (d + lo)
        /\ \A i \in 1 .. (d + hi) - (d + lo) : u[i] = W[(d + lo) + i]
    BY <2>1, Slice
  <2> QED
    BY <2>1, <2>2
<1> HIDE DEF s, u, L
<1>4. ASSUME NEW i \in 1 .. hi - lo
      PROVE  s[i] = u[i]
  <2>1. lo + i \in 1 .. L - d /\ d + (lo + i) = (d + lo) + i
    BY <1>0 DEF L
  <2> QED
    BY <1>1, <1>2, <1>3, <2>1
<1> QED
  BY <1>2, <1>3, <1>4, SeqEqual DEF s, u, V, L

\* The bytes o were sent from where b was, and the first d bytes dropped.
Sends(v, b, o, d) ==
  /\ QueueOK(v) /\ v.blocks # <<>>
  /\ d \in Nat /\ d + ReadPlace(v) <= Len(Written(b)) /\ ReadPlace(b) <= d + ReadPlace(v)
  /\ Written(v) = SubSeq(Written(b), d + 1, Len(Written(b)))
  /\ o \in Seq(Byte) /\ o = SubSeq(Written(b), ReadPlace(b) + 1, d + ReadPlace(v))
  /\ Len(v.blocks) <= Len(b.blocks)
  /\ Len(v.blocks) = Len(b.blocks) =>
       v.blocks = b.blocks /\ d = 0 /\ v.rOff + ReadPlace(b) = b.rOff + ReadPlace(v)

\* A turn of nc_write sends k bytes of a block and drops the blocks before.
LEMMA PieceIsSent ==
  ASSUME NEW b, QueueOK(b), NEW v, NEW o, NEW d, Sends(v, b, o, d),
         NEW k \in 0 .. BlockReadAvail(v)
  PROVE  \E e : Sends(Shrunk(ReadIncr(v, k)), b, o \o BytesAt(v, k), e)
<1> DEFINE r == ReadIncr(v, k)
           c == Shrunk(r)
           W == Written(b)
           L == Len(W)
           p == ReadPlace(b)
           vp == ReadPlace(v)
           rp == ReadPlace(r)
           cp == ReadPlace(c)
           dx == (r.rBlk - 1) * BlockSize
           o2 == o \o BytesAt(v, k)
<1>1. /\ W \in Seq(Byte) /\ L \in Nat /\ p \in Nat /\ b.rOff \in Nat
      /\ b.blocks \in Seq(Block) /\ Len(b.blocks) \in Nat
  BY QueueFacts DEF QueueOK, Queues
<1>2. /\ QueueOK(v) /\ v.blocks # <<>> /\ d \in Nat /\ d + vp <= L /\ p <= d + vp
      /\ Written(v) = SubSeq(W, d + 1, L)
      /\ o \in Seq(Byte) /\ o = SubSeq(W, p + 1, d + vp)
      /\ Len(v.blocks) <= Len(b.blocks)
      /\ Len(v.blocks) = Len(b.blocks) =>
           v.blocks = b.blocks /\ d = 0 /\ v.rOff + p = b.rOff + vp
  BY DEF Sends
<1>3. /\ vp \in Nat /\ v.rOff \in Nat /\ v.total \in Nat /\ vp + v.total = v.wOff
      /\ Len(Written(v)) = v.wOff /\ v.blocks \in Seq(Block) /\ Len(v.blocks) \in Nat
      /\ v.rBlk \in Nat \ {0}
  <2>1. Pointers(v) /\ v \in Queues
    BY <1>2 DEF QueueOK
  <2>2. v.rBlk \in Nat \ {0} /\ v.blocks \in Seq(Block) /\ Len(v.blocks) \in Nat
    BY <2>1 DEF Queues, Pointers
  <2> QED
    BY <1>2, <2>2, QueueFacts
<1>4. BlockReadAvail(v) \in 0 .. v.total /\ k \in Nat /\ k <= v.total
  <2>1. BlockReadAvail(v) \in 0 .. v.total
    BY <1>2, ReadAvail
  <2> DEFINE av == BlockReadAvail(v)
             tot == v.total
  <2>2. av \in 0 .. tot /\ k \in 0 .. av /\ tot \in Nat
    BY <1>3, <2>1
  <2> HIDE DEF av, tot
  <2>3. k \in Nat /\ k <= tot
    BY <2>2
  <2> QED
    BY <2>1, <2>3 DEF tot
<1>5. /\ QueueOK(r) /\ r.blocks = v.blocks /\ Written(r) = Written(v)
      /\ rp = vp + k
      /\ BytesAt(v, k) = SubSeq(Written(v), vp + 1, vp + k)
      /\ r.rBlk >= v.rBlk
      /\ r.rBlk = v.rBlk \/ k = 0 => r.rOff = v.rOff + k
  BY <1>2, BytesAreRead
<1>6. /\ QueueOK(c) /\ c.blocks # <<>> /\ dx \in 0 .. rp /\ dx <= Len(Written(r))
      /\ Written(c) = SubSeq(Written(r), dx + 1, Len(Written(r)))
      /\ cp = rp - dx
      /\ Len(c.blocks) = Len(r.blocks) - (r.rBlk - 1)
      /\ r.rBlk = 1 => c = r
  <2>1. r.blocks # <<>>
    BY <1>2, <1>5
  <2> HIDE DEF r
  <2> QED
    BY <1>5, <2>1, Dropping
<1>7. r.rBlk \in Nat
  BY <1>5 DEF QueueOK, Queues
<1> HIDE DEF r, c, W, L, p, vp, rp, cp, dx, o2
<1>8. /\ L - d = v.wOff /\ v.wOff \in Nat /\ d <= L /\ d + v.wOff = L
  <2>1. d <= L
    BY <1>1, <1>2, <1>3
  <2>2. Len(Written(v)) = L - d
    <3>1. L <= Len(W)
      BY <1>1 DEF L
    <3> QED
      BY <1>1, <1>2, <2>1, <3>1, Slice
  <2> DEFINE wo == v.wOff
  <2>3. wo = L - d
    BY <1>3, <2>2
  <2> HIDE DEF wo
  <2>4. d \in Nat /\ L \in Nat
    BY <1>1, <1>2
  <2>5. L - d = wo /\ wo \in Nat /\ d + wo = L
    BY <2>1, <2>3, <2>4
  <2> QED
    BY <2>1, <2>5 DEF wo
<1>9. /\ dx \in Nat /\ cp \in Nat /\ (d + dx) + cp = (d + vp) + k /\ (d + vp) + k = d + (vp + k)
      /\ d + (vp + k) <= L /\ d + dx \in Nat /\ dx <= v.wOff
  <2> DEFINE wo == v.wOff
             tot == v.total
  <2>1. vp + tot = wo /\ wo \in Nat /\ tot \in Nat /\ k <= tot /\ d + wo = L
    BY <1>3, <1>4, <1>8
  <2> HIDE DEF wo, tot
  <2>2. /\ dx \in Nat /\ cp \in Nat /\ (d + dx) + cp = (d + vp) + k /\ (d + vp) + k = d + (vp + k)
        /\ d + (vp + k) <= L /\ d + dx \in Nat /\ dx <= wo
    <3>1. /\ rp = vp + k /\ dx \in 0 .. rp /\ cp = rp - dx
          /\ d \in Nat /\ vp \in Nat /\ k \in Nat /\ L \in Nat
      BY <1>1, <1>2, <1>3, <1>4, <1>5, <1>6
    <3> QED
      BY <2>1, <3>1
  <2> QED
    BY <2>2 DEF wo
<1>10. Written(c) = SubSeq(W, (d + dx) + 1, L)
  <2>1. Written(c) = SubSeq(SubSeq(W, d + 1, L), dx + 1, v.wOff)
    BY <1>2, <1>3, <1>5, <1>6
  <2>2. SubSeq(SubSeq(W, d + 1, Len(W)), dx + 1, v.wOff) = SubSeq(W, (d + dx) + 1, d + v.wOff)
    <3> DEFINE wo == v.wOff
    <3>1. d + wo <= Len(W) /\ dx <= wo /\ dx \in Nat /\ wo \in Nat /\ d \in Nat /\ W \in Seq(Byte)
      <4>1. d + wo = L /\ wo \in Nat /\ dx <= wo /\ dx \in Nat /\ d \in Nat /\ L \in Nat
        BY <1>1, <1>2, <1>8, <1>9
      <4> HIDE DEF wo
      <4>2. d + wo <= L
        BY <4>1
      <4> QED
        BY <1>1, <4>1, <4>2 DEF L
    <3> HIDE DEF wo
    <3>2. SubSeq(SubSeq(W, d + 1, Len(W)), dx + 1, wo) = SubSeq(W, (d + dx) + 1, d + wo)
      BY <3>1, SliceOfRest
    <3> QED
      BY <3>2 DEF wo
  <2> QED
    BY <1>8, <2>1, <2>2 DEF L
<1>11. o2 \in Seq(Byte) /\ o2 = SubSeq(W, p + 1, (d + dx) + cp)
  <2> DEFINE mid == d + vp
             hi == d + (vp + k)
             lo == p + 1
  <2>1. BytesAt(v, k) = SubSeq(W, mid + 1, hi)
    <3>1. BytesAt(v, k) = SubSeq(SubSeq(W, d + 1, L), vp + 1, vp + k)
      BY <1>2, <1>5
    <3>2. vp <= vp + k /\ vp + k \in Nat /\ d + (vp + k) <= Len(W)
      BY <1>3, <1>4, <1>9 DEF L
    <3>3. SubSeq(SubSeq(W, d + 1, Len(W)), vp + 1, vp + k) = SubSeq(W, (d + vp) + 1, d + (vp + k))
      BY <1>1, <1>2, <1>3, <3>2, SliceOfRest
    <3> QED
      BY <3>1, <3>3 DEF L
  <2>2. lo \in 1 .. L + 1 /\ mid \in lo - 1 .. L /\ hi \in mid .. L
    BY <1>1, <1>2, <1>3, <1>4, <1>9
  <2>3. p <= hi /\ hi \in Nat
    <3>1. p <= d + vp /\ p \in Nat /\ d \in Nat /\ vp \in Nat /\ k \in Nat
      BY <1>1, <1>2, <1>3, <1>4
    <3> QED
      BY <3>1
  <2>4. SubSeq(W, p + 1, hi) \in Seq(Byte)
    <3>1. hi <= Len(W)
      BY <1>9 DEF L
    <3> HIDE DEF hi
    <3> QED
      BY <1>1, <2>3, <3>1, Slice
  <2> HIDE DEF lo, mid, hi
  <2>5. SubSeq(W, lo, mid) \o SubSeq(W, mid + 1, hi) = SubSeq(W, lo, hi)
    BY <1>1, <2>2, ConcatAdjacentSubSeq DEF L
  <2> QED
    BY <1>2, <1>9, <2>1, <2>4, <2>5 DEF lo, mid, hi, o2
<1>12. /\ Len(c.blocks) <= Len(b.blocks)
       /\ Len(c.blocks) = Len(b.blocks) =>
            c.blocks = b.blocks /\ d + dx = 0 /\ c.rOff + p = b.rOff + cp
  <2> DEFINE cl == Len(c.blocks)
             vl == Len(v.blocks)
             bl == Len(b.blocks)
             rb == r.rBlk
             vb == v.rBlk
  <2>1. /\ cl = vl - (rb - 1) /\ vl \in Nat /\ bl \in Nat /\ rb \in Nat /\ vb \in Nat \ {0}
        /\ rb >= vb /\ vl <= bl
    BY <1>1, <1>2, <1>3, <1>5, <1>6, <1>7
  <2>2. cl <= bl /\ (cl = bl => vl = bl /\ rb = 1 /\ vb = 1)
    <3> HIDE DEF cl, vl, bl, rb, vb
    <3> QED
      BY <2>1
  <2>3. ASSUME cl = bl
        PROVE  c.blocks = b.blocks /\ d + dx = 0 /\ c.rOff + p = b.rOff + cp
    <3>1. vl = bl /\ rb = 1 /\ vb = 1
      BY <2>2, <2>3
    <3>2. c = r /\ v.blocks = b.blocks /\ d = 0 /\ v.rOff + p = b.rOff + vp
      BY <1>2, <1>6, <3>1
    <3>3. dx = 0
      BY <3>1, SizesAssumption DEF dx
    <3>4. r.rOff = v.rOff + k /\ c.rOff = r.rOff
      BY <1>5, <3>1, <3>2
    <3>5. cp = vp + k
      BY <1>3, <1>4, <1>5, <1>6, <3>3
    <3> DEFINE co == c.rOff
               vo == v.rOff
               bo == b.rOff
    <3>6. co = vo + k /\ vo \in Nat /\ bo \in Nat /\ vo + p = bo + vp
      BY <1>1, <1>3, <3>2, <3>4
    <3> HIDE DEF co, vo, bo
    <3>7. co + p = bo + cp
      BY <1>1, <1>3, <1>4, <3>5, <3>6
    <3>8. c.blocks = b.blocks
      BY <1>5, <3>2
    <3>9. d + dx = 0
      BY <3>2, <3>3
    <3> QED
      BY <3>7, <3>8, <3>9 DEF co, bo
  <2> QED
    BY <2>2, <2>3
<1>13. (d + dx) + cp <= L /\ p <= (d + dx) + cp
  <2>1. /\ (d + dx) + cp = (d + vp) + k /\ (d + vp) + k <= L /\ p <= d + vp
        /\ p \in Nat /\ d \in Nat /\ vp \in Nat /\ k \in Nat
    BY <1>1, <1>2, <1>3, <1>4, <1>9
  <2> QED
    BY <2>1
<1>14. Sends(c, b, o2, d + dx)
  BY <1>6, <1>9, <1>10, <1>11, <1>12, <1>13 DEF Sends, W, L, p, cp
<1> QED
  BY <1>14 DEF c, r, o2

SendsOn(v, b, o) == \E d : Sends(v, b, o, d)

\* nc_write sends bytes from where b was on; it ends, whatever there is room for.
LEMMA NcWriteSends ==
  ASSUME NEW b, QueueOK(b), b.blocks # <<>>, NEW space \in Nat
  PROVE  LET r == NcWrite(b, space)
         IN  SendsOn(r.q, b, r.out) /\ r.status \in {"again", "full", "ok"}
<1> DEFINE Statuses == {"sending", "again", "full", "ok"}
           X == {u \in [q : Queues, space : Nat, out : Seq(Byte), status : Statuses] :
                   SendsOn(u.q, b, u.out)}
           t == [q |-> b, space |-> space, out |-> <<>>, status |-> "sending"]
           N == space + 1
<1>1. N \in Nat
  OBVIOUS
<1>2. t \in X
  <2>1. Sends(b, b, <<>>, 0)
    <3>1. /\ Written(b) \in Seq(Byte) /\ Len(Written(b)) = b.wOff
          /\ ReadPlace(b) \in Nat /\ b.total \in Nat /\ ReadPlace(b) + b.total = b.wOff
          /\ b.rOff \in Nat
      BY QueueFacts
    <3>2. SubSeq(Written(b), ReadPlace(b) + 1, 0 + ReadPlace(b)) = <<>>
      BY <3>1, SubSeqEmpty
    <3>3. SubSeq(Written(b), 0 + 1, Len(Written(b))) = Written(b)
      BY <3>1, SubSeqFull
    <3>4. /\ 0 + ReadPlace(b) <= Len(Written(b)) /\ ReadPlace(b) <= 0 + ReadPlace(b)
          /\ b.rOff + ReadPlace(b) = b.rOff + ReadPlace(b)
      BY <3>1
    <3>5. Len(b.blocks) <= Len(b.blocks)
      BY DEF QueueOK, Queues
    <3> QED
      BY <3>2, <3>3, <3>4, <3>5, EmptySeq DEF Sends
  <2>2. SendsOn(b, b, <<>>)
    BY <2>1 DEF SendsOn
  <2> QED
    BY <2>2, EmptySeq DEF QueueOK
<1>3. ASSUME NEW u \in X
      PROVE  /\ NcWriteTurn(u) \in X
             /\ u.status # "sending" => NcWriteTurn(u) = u
             /\ NcWriteTurn(u).status # "sending" \/ NcWriteTurn(u).space < u.space
  <2>1. CASE u.status # "sending"
    BY <2>1 DEF NcWriteTurn
  <2> DEFINE v == u.q
             sp == u.space
             o == u.out
             want == BlockReadAvail(v)
             n == SmallerOf(want, sp)
             c == Shrunk(ReadIncr(v, n))
             o2 == o \o BytesAt(v, n)
             sp2 == sp - n
             st2 == IF n > 0 /\ c.total > 0 THEN "sending"
                    ELSE IF n = sp THEN "full" ELSE "ok"
  <2>2. CASE u.status = "sending" /\ want > 0 /\ sp = 0
    <3>1. NcWriteTurn(u) = [u EXCEPT !.status = "again"]
      BY <2>2 DEF NcWriteTurn
    <3> QED
      BY <2>2, <3>1
  <2>3. CASE u.status = "sending" /\ ~(want > 0 /\ sp = 0)
    <3>1. NcWriteTurn(u) = [q |-> c, space |-> sp2, out |-> o2, status |-> st2]
      BY <2>3 DEF NcWriteTurn
    <3>2. SendsOn(v, b, o) /\ sp \in Nat
      OBVIOUS
    <3> HIDE DEF v, sp, o, X
    <3>3. PICK d : Sends(v, b, o, d)
      BY <3>2 DEF SendsOn
    <3>4. want \in Nat
      <4>1. QueueOK(v) /\ v.blocks # <<>>
        BY <3>3 DEF Sends
      <4>2. BlockReadAvail(v) \in 0 .. v.total /\ v.total \in Nat
        BY <4>1, ReadAvail, QueueFacts
      <4> QED
        BY <4>2
    <3>5. n \in 0 .. want /\ sp2 \in Nat /\ (n > 0 => sp2 < sp)
      <4> HIDE DEF want
      <4> QED
        BY <3>2, <3>4 DEF SmallerOf
    <3> HIDE DEF n, want
    <3>6. n \in 0 .. BlockReadAvail(v)
      BY <3>5 DEF want
    <3>7. \E e : Sends(Shrunk(ReadIncr(v, n)), b, o \o BytesAt(v, n), e)
      BY <3>3, <3>6, PieceIsSent
    <3>8. SendsOn(c, b, o2)
      BY <3>7 DEF SendsOn
    <3>9. st2 \in Statuses /\ (st2 # "sending" \/ n > 0)
      <4> HIDE DEF c
      <4> QED
        OBVIOUS
    <3> HIDE DEF c, o2, sp2, st2
    <3>10. c \in Queues /\ o2 \in Seq(Byte)
      BY <3>8 DEF SendsOn, Sends, QueueOK
    <3>11. NcWriteTurn(u) \in X
      BY <3>1, <3>5, <3>8, <3>9, <3>10 DEF X
    <3>12. NcWriteTurn(u).status = st2 /\ NcWriteTurn(u).space = sp2
      BY <3>1
    <3> QED
      BY <2>3, <3>5, <3>9, <3>11, <3>12 DEF sp
  <2> QED
    BY <2>1, <2>2, <2>3
<1> HIDE DEF X, t
<1>0. PICK f : NcWriteRun(f, X, t, N)
  <2>1. \A u \in X : NcWriteTurn(u) \in X
    BY <1>3
  <2> HIDE DEF N
  <2> QED
    BY <1>1, <1>2, <2>1, NcWriteTurns
<1>4. /\ f \in [0 .. N -> X] /\ f[0] = t
      /\ \A i \in 1 .. N : f[i] = NcWriteTurn(f[i - 1])
      /\ Turns(NcWriteTurn, t, N) = f[N]
  BY <1>0 DEF NcWriteRun
<1> DEFINE left(i) == f[i].space
           ended(i) == f[i].status # "sending"
           S == {i \in 0 .. N : ended(i) \/ left(i) + i <= space}
<1>5. 0 \in S
  <2>1. left(0) = space
    BY <1>4 DEF t
  <2> HIDE DEF left, ended
  <2> QED
    BY <1>1, <2>1
<1>6. ASSUME NEW i \in 0 .. N - 1, i \in S
      PROVE  i + 1 \in S
  <2> DEFINE u == f[i]
  <2>1. u \in X /\ f[i + 1] = NcWriteTurn(u) /\ i + 1 \in 1 .. N
    <3>1. i + 1 \in 1 .. N /\ (i + 1) - 1 = i /\ i \in 0 .. N
      BY <1>1
    <3> QED
      BY <1>1, <1>4, <3>1
  <2>2. f[i + 1] \in X
    BY <1>3, <2>1
  <2>3. ended(i) \/ left(i) + i <= space
    BY <1>6
  <2>4. left(i) \in Nat /\ left(i + 1) \in Nat
    BY <2>1, <2>2 DEF X
  <2>5. /\ ended(i) => ended(i + 1)
        /\ ended(i + 1) \/ left(i + 1) < left(i)
    BY <1>3, <2>1
  <2> HIDE DEF u, left, ended
  <2>6. ended(i + 1) \/ left(i + 1) + (i + 1) <= space
    BY <1>1, <2>3, <2>4, <2>5
  <2> QED
    BY <1>1, <2>6
<1>7. N \in S
  <2> HIDE DEF N, S
  <2>1. 0 .. N \subseteq S
    BY <1>1, <1>5, <1>6, UpTo
  <2> QED
    BY <1>1, <2>1
<1>8. f[N] \in X
  <2> HIDE DEF N
  <2> QED
    BY <1>1, <1>4
<1>9. f[N].status # "sending"
  <2>1. left(N) \in Nat
    BY <1>8 DEF X
  <2>2. ended(N) \/ left(N) + N <= space
    BY <1>7
  <2> HIDE DEF left, ended
  <2>3. ended(N)
    BY <1>1, <2>1, <2>2
  <2> QED
    BY <2>3 DEF ended
<1>10. NcWrite(b, space) = f[N]
  BY <1>4 DEF NcWrite, t
<1> QED
  BY <1>8, <1>9, <1>10 DEF X

-----------------------------------------------------------------------------
(* The invariant.                                                          *)

\* A queue whose pointers and counters agree, within the bounds.
IInv ==
  /\ QueueOK(q) /\ Len(q.blocks) <= MaxBlocks
  /\ out \in Seq(Byte) /\ asked \in Nat /\ crossed \in BOOLEAN
  /\ OffsetUntilCrossing /\ LoadedIsSendable

LEMMA ChunkType == Chunks \subseteq Seq(Byte)
<1>1. ASSUME NEW n \in 0 .. MaxChunk, NEW s \in [1 .. n -> Byte]
      PROVE  s \in Seq(Byte)
  <2>1. n \in Nat
    BY SizesAssumption
  <2> QED
    BY <2>1
<1> QED
  BY <1>1 DEF Chunks

\* What has been written is within the blocks, so what is counted is within
\* the bounds: the invariant implies what the counters are checked for.
LEMMA InvariantImplies ==
  ASSUME IInv
  PROVE  CountersAgree
<1> DEFINE L == Len(q.blocks)
<1>1. /\ QueueOK(q) /\ q \in Queues /\ q.blocks \in Seq(Block) /\ L \in Nat /\ L <= MaxBlocks
      /\ q.wOff \in Nat /\ q.total \in Nat /\ q.rOff \in Nat
  BY DEF IInv, QueueOK, Queues
<1>2. /\ Len(Written(q)) = q.wOff /\ ReadPlace(q) \in Nat /\ ReadPlace(q) + q.total = q.wOff
  BY <1>1, QueueFacts
<1>3. /\ q.wBlk \in 0 .. L /\ q.rBlk \in 0 .. q.wBlk
      /\ q.wPos \in 0 .. BlockSize /\ q.rPos \in 0 .. BlockSize
      /\ q.blocks # <<>> => q.wAvail = BlockSize - q.wPos
      /\ q.wAvail = 0 => q.wBlk = L
      /\ q.wOff <= MaxBlocks * BlockSize
  <2>1. CASE q.blocks = <<>>
    <3>1. q = EmptyQueue /\ L = 0
      BY <1>1, <2>1 DEF QueueOK
    <3>2. 0 <= MaxBlocks * BlockSize
      BY SizesAssumption
    <3> QED
      BY <2>1, <3>1, <3>2, SizesAssumption DEF EmptyQueue
  <2>2. CASE q.blocks # <<>>
    <3>1. Pointers(q)
      BY <1>1, <2>2 DEF QueueOK
    <3> DEFINE wb == q.wBlk
               wp == q.wPos
               wo == q.wOff
    <3>2. /\ wb \in 1 .. L /\ wp \in 0 .. BlockSize /\ wo = Place(wb, wp)
          /\ q.rBlk \in 1 .. wb
      BY <3>1 DEF Pointers
    <3>3. wo <= MaxBlocks * BlockSize
      <4> HIDE DEF wb, wp, wo, L
      <4>1. (wb - 1) * BlockSize <= (MaxBlocks - 1) * BlockSize
        BY <1>1, <3>2, SizesAssumption
      <4>2. (MaxBlocks - 1) * BlockSize + BlockSize = MaxBlocks * BlockSize
        BY SizesAssumption
      <4> QED
        BY <1>1, <3>2, <4>1, <4>2, SizesAssumption DEF Place
    <3>4. wb \in 0 .. L /\ q.rBlk \in 0 .. wb
      <4> HIDE DEF wb, wo, L
      <4> QED
        BY <1>1, <3>2
    <3> QED
      BY <3>1, <3>3, <3>4 DEF Pointers
  <2> QED
    BY <2>1, <2>2
<1>4. q.total \in Offsets /\ q.wOff \in Offsets /\ q.total = Len(Written(q)) - ReadPlace(q)
  <2> DEFINE tot == q.total
             wo == q.wOff
             p == ReadPlace(q)
             B == MaxBlocks * BlockSize
  <2>1. /\ tot \in Nat /\ wo \in Nat /\ p \in Nat /\ p + tot = wo /\ wo <= B
        /\ B \in Int
    BY <1>1, <1>2, <1>3, SizesAssumption
  <2> HIDE DEF tot, wo, p, B
  <2>2. tot \in 0 .. B /\ wo \in 0 .. B /\ tot = wo - p
    BY <2>1
  <2> QED
    BY <1>2, <2>2 DEF tot, wo, p, B, Offsets
<1>5. \A k \in 1 .. L : q.blocks[k] \in [1 .. BlockSize -> Byte \union {NoByte}]
  <2>1. \A k \in 1 .. L : q.blocks[k] \in Block
    BY <1>1, ElementOfSeq
  <2> QED
    BY <2>1 DEF Block
<1>6. TypeOK
  BY <1>1, <1>3, <1>4, <1>5 DEF TypeOK, IInv
<1> QED
  BY <1>2, <1>3, <1>4, <1>6 DEF CountersAgree, IInv

LEMMA InitInvariant == Init => IInv /\ Abstract!Init
<1> SUFFICES ASSUME Init
             PROVE  IInv /\ Abstract!Init
  OBVIOUS
<1>1. q = EmptyQueue /\ out = <<>> /\ asked = 0 /\ status = "none" /\ crossed = FALSE
  BY DEF Init
<1>2. QueueOK(q) /\ Written(q) = <<>> /\ ReadPlace(q) = 0
  BY <1>1, EmptyQueueOK
<1>3. q.rOff = 0 /\ q.blocks = <<>>
  BY <1>1 DEF EmptyQueue
<1>4. Len(q.blocks) = 0
  BY <1>3
<1>5. IInv
  <2>1. out \in Seq(Byte)
    BY <1>1, EmptySeq
  <2>2. Len(q.blocks) <= MaxBlocks
    BY <1>4, SizesAssumption
  <2>3. OffsetUntilCrossing /\ LoadedIsSendable
    BY <1>1, <1>2, <1>3 DEF OffsetUntilCrossing, LoadedIsSendable
  <2> QED
    BY <1>1, <1>2, <2>1, <2>2, <2>3 DEF IInv
<1>6. Abstract!Init
  BY <1>1, <1>2, <1>3 DEF Abstract!Init
<1> QED
  BY <1>5, <1>6

\* Anything that puts s at the end of the queue is an Extend.
LEMMA ExtendsQueue ==
  ASSUME IInv, NEW s \in Chunks, NEW c, WritesOn(c, <<>>, q, s),
         Len(c.blocks) <= MaxBlocks, q' = c, out' = <<>>, asked' = 0,
         crossed' = crossed, status' = "loaded" => BlockReadAvail(c) > 0
  PROVE  IInv' /\ Abstract!Extend
<1>1. s \in Seq(Byte)
  BY ChunkType
<1>2. /\ QueueOK(c) /\ Written(c) \o <<>> = Written(q) \o s
      /\ ReadPlace(c) = ReadPlace(q) /\ c.rOff = q.rOff
  BY DEF WritesOn
<1>3. Written(c) \o <<>> = Written(c)
  <2>1. Written(c) \in Seq(Byte)
    BY <1>2, QueueFacts
  <2> QED
    BY <2>1, ConcatEmptySeq
<1>4. Written(q)' = Written(c) /\ ReadPlace(q)' = ReadPlace(c) /\ (q.rOff)' = c.rOff
  BY DEF Written, ReadPlace
<1>5. IInv'
  <2>1. crossed' \in BOOLEAN /\ (~crossed => q.rOff = ReadPlace(q))
    BY DEF IInv, OffsetUntilCrossing
  <2>2. OffsetUntilCrossing'
    BY <1>2, <2>1 DEF OffsetUntilCrossing
  <2>3. LoadedIsSendable'
    BY DEF LoadedIsSendable
  <2> QED
    BY <1>2, <2>1, <2>2, <2>3, EmptySeq DEF IInv
<1>6. Abstract!Extend
  <2>1. s \in Abstract!Chunks
    BY DEF Chunks, Abstract!Chunks
  <2>2. Written(q)' = Written(q) \o s
    BY <1>2, <1>3, <1>4
  <2>3. ReadPlace(q)' = ReadPlace(q) /\ (q.rOff = ReadPlace(q))' = (q.rOff = ReadPlace(q))
    BY <1>2, <1>4
  <2> QED
    BY <2>1, <2>2, <2>3 DEF Abstract!Extend
<1> QED
  BY <1>5, <1>6

LEMMA WriteStep ==
  ASSUME IInv, Write
  PROVE  IInv' /\ Abstract!Extend
<1>1. PICK s \in Chunks : Becomes(WriteAll(q, s), <<>>, 0, "none")
  BY DEF Write
<1>2. s \in Seq(Byte) /\ QueueOK(q)
  BY ChunkType DEF IInv
<1> DEFINE c == WriteAll(q, s)
<1>3. /\ Len(c.blocks) <= MaxBlocks /\ q' = c /\ out' = <<>> /\ asked' = 0
      /\ status' = "none" /\ crossed' = crossed
  BY <1>1 DEF Becomes, Write
<1>4. WritesOn(c, <<>>, q, s)
  BY <1>2, WriteAllExtends
<1> HIDE DEF c
<1>5. status' # "loaded"
  BY <1>3
<1> QED
  BY <1>3, <1>4, <1>5, ExtendsQueue

LEMMA ReceiveInStep ==
  ASSUME IInv, ReceiveIn
  PROVE  IInv' /\ Abstract!Extend
<1>1. PICK s \in Chunks : Becomes(NcRead(q, s), <<>>, 0, "received")
  BY DEF ReceiveIn
<1>2. s \in Seq(Byte) /\ QueueOK(q)
  BY ChunkType DEF IInv
<1> DEFINE c == NcRead(q, s)
<1>3. /\ Len(c.blocks) <= MaxBlocks /\ q' = c /\ out' = <<>> /\ asked' = 0
      /\ status' = "received" /\ crossed' = crossed
  BY <1>1 DEF Becomes, ReceiveIn
<1>4. WritesOn(c, <<>>, q, s)
  BY <1>2, NcReadExtends
<1> HIDE DEF c
<1>5. status' # "loaded"
  BY <1>3
<1> QED
  BY <1>3, <1>4, <1>5, ExtendsQueue

LEMMA LoadFileStep ==
  ASSUME IInv, LoadFile
  PROVE  IInv' /\ Abstract!Extend
<1>1. PICK s \in Chunks \ {<<>>} : Becomes(WriteFd(q, s), <<>>, 0, "loaded")
  BY DEF LoadFile
<1>2. s \in Seq(Byte) /\ s # <<>> /\ QueueOK(q)
  BY ChunkType DEF IInv
<1> DEFINE c == WriteFd(q, s)
<1>3. /\ Len(c.blocks) <= MaxBlocks /\ q' = c /\ out' = <<>> /\ asked' = 0
      /\ crossed' = crossed
  BY <1>1 DEF Becomes, LoadFile
<1>4. WritesOn(c, <<>>, q, s) /\ BlockReadAvail(c) > 0
  BY <1>2, WriteFdExtends
<1> HIDE DEF c
<1> QED
  BY <1>3, <1>4, ExtendsQueue

\* A read of as many bytes as there are, and no more.
LEMMA ReadSomeReads ==
  ASSUME NEW b, QueueOK(b), NEW n \in Nat
  PROVE  LET m == SmallerOf(n, b.total)
         IN  m \in 0 .. b.total /\ m <= n /\ ReadsOn(ReadSome(b, n).q, b, m, ReadSome(b, n).out)
<1> DEFINE m == SmallerOf(n, b.total)
<1>1. b.total \in Nat
  BY QueueFacts
<1>2. m \in 0 .. b.total /\ m <= n
  BY <1>1 DEF SmallerOf
<1> HIDE DEF m
<1>3. ReadsOn(ReadAll(b, m).q, b, m, ReadAll(b, m).out)
  BY <1>2, ReadAllReads
<1> QED
  BY <1>2, <1>3 DEF ReadSome, m

LEMMA ReadStep ==
  ASSUME IInv, Read
  PROVE  IInv' /\ Abstract!Read
<1>1. PICK n \in 1 .. MaxChunk :
        /\ Becomes(ReadSome(q, n).q, ReadSome(q, n).out, 0, "none")
        /\ crossed' = (crossed \/ ReadSome(q, n).q.rBlk # q.rBlk)
  BY DEF Read
<1> DEFINE c == ReadSome(q, n).q
           o == ReadSome(q, n).out
           m == SmallerOf(n, q.total)
           p == ReadPlace(q)
           W == Written(q)
<1>2. n \in Nat /\ QueueOK(q) /\ crossed \in BOOLEAN
  BY SizesAssumption DEF IInv
<1>3. /\ Len(c.blocks) <= MaxBlocks /\ q' = c /\ out' = o /\ asked' = 0
      /\ status' = "none" /\ crossed' = (crossed \/ c.rBlk # q.rBlk)
  BY <1>1 DEF Becomes
<1>4. m \in 0 .. q.total /\ m <= n /\ ReadsOn(c, q, m, o)
  BY <1>2, ReadSomeReads
<1>5. /\ W \in Seq(Byte) /\ Len(W) = q.wOff /\ p \in Nat /\ q.total \in Nat
      /\ p + q.total = q.wOff /\ q.rOff \in Nat /\ q.wOff \in Nat
  BY <1>2, QueueFacts
<1> HIDE DEF c, o, m, p, W
<1>6. /\ QueueOK(c) /\ c.blocks = q.blocks /\ Written(c) = W
      /\ ReadPlace(c) = p + m /\ o \in Seq(Byte) /\ o = SubSeq(W, p + 1, p + m)
      /\ c.rBlk = q.rBlk => c.rOff = q.rOff + m
  BY <1>4 DEF ReadsOn, p, W
<1>7. Written(q)' = Written(c) /\ ReadPlace(q)' = ReadPlace(c) /\ (q.rOff)' = c.rOff
  BY <1>3 DEF Written, ReadPlace
<1>8. IInv'
  <2>1. OffsetUntilCrossing'
    <3>1. SUFFICES ASSUME ~crossed'
                   PROVE  c.rOff = ReadPlace(c)
      BY <1>7 DEF OffsetUntilCrossing
    <3>2. ~crossed /\ c.rBlk = q.rBlk
      BY <1>2, <1>3, <3>1
    <3>3. q.rOff = p
      BY <3>2 DEF IInv, OffsetUntilCrossing, p
    <3> QED
      BY <1>6, <3>2, <3>3
  <2>2. LoadedIsSendable'
    BY <1>3 DEF LoadedIsSendable
  <2>3. crossed' \in BOOLEAN
    BY <1>2, <1>3
  <2> QED
    BY <1>3, <1>6, <2>1, <2>2, <2>3 DEF IInv
<1>9. Abstract!Read
  <2>0. m \in 0 .. Len(W) /\ Abstract!SmallerOf(m, Len(W) - p) = m
    <3> DEFINE tot == q.total
               L == Len(W)
    <3>1. tot \in Nat /\ L \in Nat /\ p + tot = L /\ m \in 0 .. tot
      BY <1>4, <1>5
    <3> HIDE DEF tot, L
    <3>2. m \in 0 .. L /\ m <= L - p /\ L - p \in Int
      BY <1>5, <3>1
    <3>3. Abstract!SmallerOf(m, L - p) = m
      BY <3>2 DEF Abstract!SmallerOf
    <3> QED
      BY <3>2, <3>3 DEF L
  <2>1. out' = Abstract!Slice(p, m)
    BY <1>3, <1>6 DEF Abstract!Slice, W
  <2>2. Written(q)' = Written(q) /\ ReadPlace(q)' = p + m
    BY <1>6, <1>7 DEF W
  <2>3. \E k \in 0 .. Len(Written(q)) :
          LET taken == Abstract!SmallerOf(k, Len(Written(q)) - ReadPlace(q))
          IN  out' = Abstract!Slice(ReadPlace(q), taken) /\ ReadPlace(q)' = ReadPlace(q) + taken
    BY <2>0, <2>1, <2>2 DEF p, W
  <2>4. (q.rOff = ReadPlace(q))' \in BOOLEAN
    OBVIOUS
  <2> QED
    BY <1>3, <2>2, <2>3, <2>4 DEF Abstract!Read
<1> QED
  BY <1>8, <1>9

\* read_seek moves to the place that was asked for, if the place is known.
LEMMA SeekFinds ==
  ASSUME IInv, NEW off \in 0 .. Len(Written(q))
  PROVE  LET v == Sought(q, off)
         IN  /\ QueueOK(v) /\ v.blocks = q.blocks /\ Written(v) = Written(q)
             /\ ReadPlace(v) \in 0 .. Len(Written(q))
             /\ q.rOff = ReadPlace(q) => ReadPlace(v) = off
             /\ IF off >= q.rOff
                THEN /\ v.rBlk >= q.rBlk
                     /\ v.rBlk = q.rBlk /\ q.rOff = ReadPlace(q) => v.rOff = ReadPlace(v)
                ELSE v.rBlk >= 1 /\ (v.rBlk = 1 => v.rOff = ReadPlace(v))
<1> DEFINE v == Sought(q, off)
           W == Written(q)
           L == Len(W)
           p == ReadPlace(q)
           ro == q.rOff
           tot == q.total
<1>1. QueueOK(q)
  BY DEF IInv
<1>2. L \in Nat /\ p \in Nat /\ ro \in Nat /\ tot \in Nat /\ p + tot = L /\ p <= ro
      /\ q.wOff = L
  BY <1>1, QueueFacts
<1>3. off \in Nat /\ off <= L
  BY <1>2
<1>4. CASE off >= ro
  <2> DEFINE n == off - ro
             m == SmallerOf(n, tot)
  <2>1. n \in Nat
    BY <1>2, <1>3, <1>4
  <2>2. v = ReadSome(q, n).q
    BY <1>4 DEF Sought
  <2>3. m \in 0 .. tot /\ ReadsOn(v, q, m, ReadSome(q, n).out)
    <3> HIDE DEF n
    <3>1. LET k == SmallerOf(n, q.total)
          IN  k \in 0 .. q.total /\ k <= n /\ ReadsOn(ReadSome(q, n).q, q, k, ReadSome(q, n).out)
      BY <1>1, <2>1, ReadSomeReads
    <3> QED
      BY <2>2, <3>1
  <2> HIDE DEF v
  <2>4. /\ QueueOK(v) /\ v.blocks = q.blocks /\ Written(v) = W /\ ReadPlace(v) = p + m
        /\ v.rBlk >= q.rBlk /\ (v.rBlk = q.rBlk => v.rOff = ro + m)
    BY <2>3 DEF ReadsOn
  <2> HIDE DEF W, L, p, ro, tot
  <2>5. p + m \in 0 .. L /\ (ro = p => p + m = off)
    BY <1>2, <1>3, <1>4, <2>1, <2>3 DEF SmallerOf
  <2> HIDE DEF m
  <2> QED
    BY <1>4, <2>4, <2>5 DEF v, W, L, p, ro
<1>5. CASE ~(off >= ro)
  <2> DEFINE b == Rewound(q)
             m == SmallerOf(off, b.total)
  <2>1. /\ QueueOK(b) /\ b.blocks = q.blocks /\ Written(b) = W
        /\ ReadPlace(b) = 0 /\ b.rOff = 0 /\ b.total = L
    BY <1>1, <1>2, GoingBack
  <2>2. v = ReadSome(b, off).q
    BY <1>5 DEF Sought
  <2>3. ReadsOn(v, b, m, ReadSome(b, off).out)
    <3> HIDE DEF b
    <3>1. LET k == SmallerOf(off, b.total)
          IN  k \in 0 .. b.total /\ k <= off /\ ReadsOn(ReadSome(b, off).q, b, k, ReadSome(b, off).out)
      BY <1>3, <2>1, ReadSomeReads
    <3> QED
      BY <2>2, <3>1
  <2>4. m = off
    BY <1>2, <1>3, <2>1 DEF SmallerOf
  <2>5. b.rBlk = 1
    <3>1. q.blocks # <<>>
      <4>1. q.blocks = <<>> => ro = 0
        BY <1>1 DEF QueueOK, EmptyQueue
      <4> QED
        BY <1>2, <1>3, <1>5, <4>1
    <3>2. b \in Queues
      BY <2>1 DEF QueueOK
    <3> QED
      BY <1>1, <3>1 DEF Rewound, QueueOK, Queues
  <2> HIDE DEF v, b, m
  <2>6. /\ QueueOK(v) /\ v.blocks = q.blocks /\ Written(v) = W /\ ReadPlace(v) = 0 + m
        /\ v.rBlk >= 1 /\ (v.rBlk = 1 => v.rOff = 0 + m)
    BY <2>1, <2>3, <2>5 DEF ReadsOn
  <2>7. 0 + m = off
    BY <1>3, <2>4
  <2> QED
    BY <1>2, <1>5, <2>6, <2>7 DEF v
<1> QED
  BY <1>4, <1>5

LEMMA ReadFromStep ==
  ASSUME IInv, ReadFrom
  PROVE  IInv' /\ Abstract!ReadFrom
<1>1. PICK off \in 0 .. Len(Written(q)), n \in 1 .. MaxChunk :
        LET r == ReadSome(Sought(q, off), n)
        IN  /\ Becomes(r.q, r.out, off, "none")
            /\ crossed' = IF off >= q.rOff THEN crossed \/ r.q.rBlk # q.rBlk
                          ELSE r.q.rBlk > 1
  BY DEF ReadFrom
<1> DEFINE v == Sought(q, off)
           c == ReadSome(v, n).q
           o == ReadSome(v, n).out
           m == SmallerOf(n, v.total)
           from == ReadPlace(v)
           p == ReadPlace(q)
           W == Written(q)
           L == Len(W)
<1>2. n \in Nat /\ n \in 0 .. MaxChunk /\ QueueOK(q) /\ crossed \in BOOLEAN
  BY SizesAssumption DEF IInv
<1>3. /\ Len(c.blocks) <= MaxBlocks /\ q' = c /\ out' = o /\ asked' = off
      /\ status' = "none"
      /\ crossed' = IF off >= q.rOff THEN crossed \/ c.rBlk # q.rBlk ELSE c.rBlk > 1
  BY <1>1 DEF Becomes
<1>4. /\ QueueOK(v) /\ v.blocks = q.blocks /\ Written(v) = W /\ from \in 0 .. L
      /\ q.rOff = p => from = off
      /\ IF off >= q.rOff
         THEN /\ v.rBlk >= q.rBlk
              /\ v.rBlk = q.rBlk /\ q.rOff = p => v.rOff = from
         ELSE v.rBlk >= 1 /\ (v.rBlk = 1 => v.rOff = from)
  BY SeekFinds
<1>0. q.rBlk \in Nat /\ v.rBlk \in Nat
  BY <1>2, <1>4 DEF QueueOK, Queues
<1> HIDE DEF v
<1>5. m \in 0 .. v.total /\ m <= n /\ ReadsOn(c, v, m, o)
  BY <1>2, <1>4, ReadSomeReads
<1>6. /\ L \in Nat /\ v.total \in Nat /\ from \in Nat /\ from + v.total = L /\ v.rOff \in Nat
  <2>1. /\ Len(Written(v)) = v.wOff /\ v.wOff \in Nat /\ v.total \in Nat /\ from \in Nat
        /\ from + v.total = v.wOff /\ v.rOff \in Nat
    BY <1>4, QueueFacts
  <2> QED
    BY <1>4, <2>1
<1> HIDE DEF c, o
<1>7. /\ QueueOK(c) /\ c.blocks = v.blocks /\ Written(c) = Written(v)
      /\ ReadPlace(c) = from + m
      /\ o \in Seq(Byte) /\ o = SubSeq(Written(v), from + 1, from + m)
      /\ c.rBlk >= v.rBlk /\ (c.rBlk = v.rBlk => c.rOff = v.rOff + m)
  BY <1>5 DEF ReadsOn
<1>8. c.rBlk \in Nat
  BY <1>7 DEF QueueOK, Queues
<1>9. Written(q)' = Written(c) /\ ReadPlace(q)' = ReadPlace(c) /\ (q.rOff)' = c.rOff
  BY <1>3 DEF Written, ReadPlace
<1> HIDE DEF m, from, W, L, p
<1>10. IInv'
  <2>1. OffsetUntilCrossing'
    <3>1. SUFFICES ASSUME ~crossed'
                   PROVE  c.rOff = ReadPlace(c)
      BY <1>9 DEF OffsetUntilCrossing
    <3>2. c.rBlk = v.rBlk /\ v.rOff = from
      <4> DEFINE cb == c.rBlk
                 vb == v.rBlk
                 qb == q.rBlk
      <4>1. cb \in Nat /\ vb \in Nat /\ qb \in Nat /\ cb >= vb
        BY <1>0, <1>7, <1>8
      <4>2. CASE off >= q.rOff
        <5>1. ~crossed /\ cb = qb /\ vb >= qb
          BY <1>2, <1>3, <1>4, <3>1, <4>2
        <5>2. q.rOff = p
          BY <5>1 DEF IInv, OffsetUntilCrossing, p
        <5>3. vb = qb
          <6> HIDE DEF cb, vb, qb
          <6> QED
            BY <4>1, <5>1
        <5> QED
          BY <1>4, <4>2, <5>1, <5>2, <5>3
      <4>3. CASE ~(off >= q.rOff)
        <5>1. ~(cb > 1) /\ vb >= 1
          BY <1>3, <1>4, <3>1, <4>3
        <5>2. cb = 1 /\ vb = 1
          <6> HIDE DEF cb, vb, qb
          <6> QED
            BY <4>1, <5>1
        <5> QED
          BY <1>4, <4>3, <5>2
      <4> QED
        BY <4>2, <4>3
    <3> QED
      BY <1>7, <3>2
  <2>2. LoadedIsSendable'
    BY <1>3 DEF LoadedIsSendable
  <2>3. crossed' \in BOOLEAN
    <3>1. CASE off >= q.rOff
      <4>1. crossed' = (crossed \/ c.rBlk # q.rBlk)
        BY <1>3, <3>1
      <4> QED
        BY <4>1, Zenon
    <3>2. CASE ~(off >= q.rOff)
      <4>1. crossed' = (c.rBlk > 1)
        BY <1>3, <3>2
      <4>2. (c.rBlk > 1) \in BOOLEAN
        BY <1>8
      <4> QED
        BY <4>1, <4>2, Zenon
    <3> QED
      BY <3>1, <3>2
  <2>4. off \in Nat
    BY <1>6 DEF L, W
  <2> QED
    BY <1>3, <1>7, <2>1, <2>2, <2>3, <2>4 DEF IInv
<1>11. Abstract!ReadFrom
  <2>1. Abstract!SmallerOf(n, L - from) = m
    <3> DEFINE tot == v.total
    <3>1. tot \in Nat /\ from + tot = L
      BY <1>6
    <3> HIDE DEF tot
    <3>2. L - from = tot
      BY <1>6, <3>1
    <3> QED
      BY <3>2 DEF Abstract!SmallerOf, SmallerOf, m, tot
  <2>2. out' = Abstract!Slice(from, m)
    BY <1>3, <1>4, <1>7 DEF Abstract!Slice, W
  <2>3. Written(q)' = Written(q) /\ ReadPlace(q)' = from + m
    BY <1>4, <1>7, <1>9 DEF W
  <2>4. asked' \in 0 .. Len(Written(q)) /\ (q.rOff = ReadPlace(q) => from = asked')
    BY <1>3, <1>4 DEF p
  <2>5. \E from2 \in 0 .. Len(Written(q)), n2 \in 0 .. MaxChunk :
          LET taken == Abstract!SmallerOf(n2, Len(Written(q)) - from2)
          IN  /\ q.rOff = ReadPlace(q) => from2 = asked'
              /\ out' = Abstract!Slice(from2, taken)
              /\ ReadPlace(q)' = from2 + taken
    <3>1. from \in 0 .. Len(Written(q)) /\ n \in 0 .. MaxChunk
      BY <1>2, <1>4 DEF L, W
    <3> QED
      BY <2>1, <2>2, <2>3, <2>4, <3>1 DEF L, W
  <2>6. (q.rOff = ReadPlace(q))' \in BOOLEAN
    OBVIOUS
  <2> QED
    BY <2>3, <2>4, <2>5, <2>6 DEF Abstract!ReadFrom
<1> QED
  BY <1>10, <1>11

LEMMA SendStep ==
  ASSUME IInv, Send
  PROVE  IInv' /\ Abstract!Take
<1>1. PICK space \in 0 .. MaxChunk :
        LET r == NcWrite(q, space)
        IN  /\ Becomes(r.q, r.out, 0, r.status)
            /\ crossed' = (crossed \/ r.q.blocks # q.blocks)
  BY DEF Send
<1> DEFINE c == NcWrite(q, space).q
           o == NcWrite(q, space).out
           st == NcWrite(q, space).status
           p == ReadPlace(q)
           cp == ReadPlace(c)
           W == Written(q)
           L == Len(W)
<1>2. QueueOK(q) /\ crossed \in BOOLEAN /\ space \in Nat
  BY SizesAssumption DEF IInv
<1>3. q.blocks # <<>>
  <2>1. q.blocks = <<>> => q.total = 0
    BY <1>2 DEF QueueOK, EmptyQueue
  <2> QED
    BY <2>1 DEF Send
<1>4. /\ Len(c.blocks) <= MaxBlocks /\ q' = c /\ out' = o /\ asked' = 0
      /\ status' = st /\ crossed' = (crossed \/ c.blocks # q.blocks)
  BY <1>1 DEF Becomes
<1>5. SendsOn(c, q, o) /\ st \in {"again", "full", "ok"}
  BY <1>2, <1>3, NcWriteSends
<1>6. L \in Nat /\ p \in Nat /\ q.rOff \in Nat
  BY <1>2, QueueFacts
<1> HIDE DEF c, o, st
<1>7. PICK d : Sends(c, q, o, d)
  BY <1>5 DEF SendsOn
<1>8. /\ QueueOK(c) /\ d \in Nat /\ d + cp <= L /\ p <= d + cp
      /\ Written(c) = SubSeq(W, d + 1, L)
      /\ o \in Seq(Byte) /\ o = SubSeq(W, p + 1, d + cp)
      /\ Len(c.blocks) = Len(q.blocks) => c.rOff + p = q.rOff + cp
  BY <1>7 DEF Sends
<1>9. cp \in Nat /\ c.rOff \in Nat
  BY <1>8, QueueFacts
<1>10. Written(q)' = Written(c) /\ ReadPlace(q)' = cp /\ (q.rOff)' = c.rOff
  BY <1>4 DEF Written, ReadPlace
<1>11. IInv'
  <2>1. OffsetUntilCrossing'
    <3>1. SUFFICES ASSUME ~crossed'
                   PROVE  c.rOff = cp
      BY <1>10 DEF OffsetUntilCrossing
    <3>2. ~crossed /\ c.blocks = q.blocks
      BY <1>2, <1>4, <3>1
    <3>3. q.rOff = p
      BY <3>2 DEF IInv, OffsetUntilCrossing
    <3>4. c.rOff + p = p + cp
      BY <1>8, <3>2, <3>3
    <3> DEFINE co == c.rOff
    <3>5. co \in Nat /\ co + p = p + cp
      BY <1>9, <3>4
    <3> HIDE DEF co, p, cp
    <3>6. co = cp
      BY <1>6, <1>9, <3>5
    <3> QED
      BY <3>6 DEF co, cp
  <2>2. LoadedIsSendable'
    BY <1>4, <1>5 DEF LoadedIsSendable
  <2>3. crossed' \in BOOLEAN
    BY <1>2, <1>4
  <2> QED
    BY <1>4, <1>8, <2>1, <2>2, <2>3 DEF IInv
<1>12. Abstract!Take
  <2> DEFINE n == d + cp
  <2>1. n \in p .. L /\ d \in 0 .. n /\ p + (n - p) = n /\ n - d = cp
    <3> HIDE DEF p, L, cp
    <3> QED
      BY <1>6, <1>8, <1>9
  <2>2. out' = Abstract!Slice(p, n - p)
    BY <1>4, <1>8, <2>1 DEF Abstract!Slice
  <2>3. Written(q)' = SubSeq(Written(q), d + 1, Len(Written(q))) /\ ReadPlace(q)' = n - d
    BY <1>8, <1>10, <2>1
  <2>4. (q.rOff = ReadPlace(q))' \in BOOLEAN
    OBVIOUS
  <2> HIDE DEF n
  <2> QED
    BY <1>4, <2>1, <2>2, <2>3, <2>4 DEF Abstract!Take
<1> QED
  BY <1>11, <1>12

LEMMA ResetReadStep ==
  ASSUME IInv, ResetRead
  PROVE  IInv' /\ Abstract!Rewind
<1> DEFINE c == Rewound(q)
<1>1. /\ Len(c.blocks) <= MaxBlocks /\ q' = c /\ out' = <<>> /\ asked' = 0
      /\ status' = "none" /\ crossed' = FALSE
  BY DEF ResetRead, Becomes
<1>2. QueueOK(c) /\ Written(c) = Written(q) /\ ReadPlace(c) = 0 /\ c.rOff = 0
  BY GoingBack DEF IInv
<1> HIDE DEF c
<1>3. Written(q)' = Written(q) /\ ReadPlace(q)' = 0 /\ (q.rOff)' = 0
  BY <1>1, <1>2 DEF Written, ReadPlace
<1>4. OffsetUntilCrossing' /\ LoadedIsSendable'
  BY <1>1, <1>3 DEF OffsetUntilCrossing, LoadedIsSendable
<1>5. out' \in Seq(Byte)
  BY <1>1, EmptySeq
<1>6. IInv'
  BY <1>1, <1>2, <1>4, <1>5 DEF IInv
<1>7. (q.rOff = ReadPlace(q))' = TRUE
  BY <1>3
<1> QED
  BY <1>1, <1>3, <1>6, <1>7 DEF Abstract!Rewind

LEMMA ResetWriteStep ==
  ASSUME IInv, ResetWrite
  PROVE  IInv' /\ Abstract!Clear
<1> DEFINE c == Emptied(q)
<1>1. /\ Len(c.blocks) <= MaxBlocks /\ q' = c /\ out' = <<>> /\ asked' = 0
      /\ status' = "none" /\ crossed' = (q.blocks = <<>> /\ crossed)
  BY DEF ResetWrite, Becomes
<1>2. QueueOK(c) /\ Written(c) = <<>> /\ ReadPlace(c) = 0 /\ c.rOff = 0
  BY Emptying DEF IInv
<1> HIDE DEF c
<1>3. Written(q)' = <<>> /\ ReadPlace(q)' = 0 /\ (q.rOff)' = 0
  BY <1>1, <1>2 DEF Written, ReadPlace
<1>4. OffsetUntilCrossing' /\ LoadedIsSendable'
  BY <1>1, <1>3 DEF OffsetUntilCrossing, LoadedIsSendable
<1>5. out' \in Seq(Byte) /\ crossed' \in BOOLEAN
  BY <1>1, EmptySeq
<1>6. IInv'
  BY <1>1, <1>2, <1>4, <1>5 DEF IInv
<1>7. (q.rOff = ReadPlace(q))' = TRUE
  BY <1>3
<1> QED
  BY <1>1, <1>3, <1>6, <1>7 DEF Abstract!Clear

LEMMA ResetStep ==
  ASSUME IInv, Reset
  PROVE  IInv' /\ Abstract!Clear
<1>1. /\ Len(EmptyQueue.blocks) <= MaxBlocks /\ q' = EmptyQueue /\ out' = <<>> /\ asked' = 0
      /\ status' = "none" /\ crossed' = FALSE
  BY DEF Reset, Becomes
<1>2. Written(q)' = <<>> /\ ReadPlace(q)' = 0 /\ (q.rOff)' = 0 /\ QueueOK(q)'
  <2>1. EmptyQueue.rOff = 0
    BY DEF EmptyQueue
  <2>2. Written(q)' = Written(EmptyQueue) /\ ReadPlace(q)' = ReadPlace(EmptyQueue)
    BY <1>1 DEF Written, ReadPlace
  <2>3. QueueOK(q)'
    BY <1>1, EmptyQueueOK
  <2> QED
    BY <1>1, <2>1, <2>2, <2>3, EmptyQueueOK
<1>3. OffsetUntilCrossing' /\ LoadedIsSendable'
  BY <1>1, <1>2 DEF OffsetUntilCrossing, LoadedIsSendable
<1>4. out' \in Seq(Byte)
  BY <1>1, EmptySeq
<1>5. IInv'
  BY <1>1, <1>2, <1>3, <1>4 DEF IInv
<1>6. (q.rOff = ReadPlace(q))' = TRUE
  BY <1>2
<1> QED
  BY <1>1, <1>2, <1>5, <1>6 DEF Abstract!Clear

\* Every call keeps the invariant, and is one of the abstract queue's.
LEMMA StepInvariant == IInv /\ [Next]_vars => IInv' /\ [Abstract!Next]_Abstract!vars
<1> SUFFICES ASSUME IInv, [Next]_vars
             PROVE  IInv' /\ [Abstract!Next]_Abstract!vars
  OBVIOUS
<1>1. CASE Write
  BY <1>1, WriteStep DEF Abstract!Next
<1>2. CASE ReceiveIn
  BY <1>2, ReceiveInStep DEF Abstract!Next
<1>3. CASE LoadFile
  BY <1>3, LoadFileStep DEF Abstract!Next
<1>4. CASE Read
  BY <1>4, ReadStep DEF Abstract!Next
<1>5. CASE ReadFrom
  BY <1>5, ReadFromStep DEF Abstract!Next
<1>6. CASE Send
  BY <1>6, SendStep DEF Abstract!Next
<1>7. CASE ResetRead
  BY <1>7, ResetReadStep DEF Abstract!Next
<1>8. CASE ResetWrite
  BY <1>8, ResetWriteStep DEF Abstract!Next
<1>9. CASE Reset
  BY <1>9, ResetStep DEF Abstract!Next
<1>10. CASE UNCHANGED vars
  <2>1. q' = q /\ out' = out /\ asked' = asked /\ status' = status /\ crossed' = crossed
    BY <1>10 DEF vars
  <2>2. Written(q)' = Written(q) /\ ReadPlace(q)' = ReadPlace(q)
    BY <2>1 DEF Written, ReadPlace
  <2>3. IInv'
    <3>1. OffsetUntilCrossing' /\ LoadedIsSendable' /\ QueueOK(q)'
      BY <2>1, <2>2 DEF OffsetUntilCrossing, LoadedIsSendable, IInv
    <3> QED
      BY <2>1, <3>1 DEF IInv
  <2>4. UNCHANGED Abstract!vars
    BY <2>1, <2>2 DEF Abstract!vars
  <2> QED
    BY <2>3, <2>4
<1> QED
  BY <1>1, <1>2, <1>3, <1>4, <1>5, <1>6, <1>7, <1>8, <1>9, <1>10 DEF Next

\* The counters of the queue (nbq::write, read, read_seek, shrink, reset_read,
\* reset_write, and nc_read, nc_write and write_fd through them) agree with its
\* pointers after any sequence of calls, for every size of a block.
THEOREM CountersAlwaysAgree == Spec => []CountersAgree
<1>1. Init => IInv
  BY InitInvariant
<1>2. IInv /\ [Next]_vars => IInv'
  BY StepInvariant
<1>3. IInv => CountersAgree
  BY InvariantImplies
<1> QED
  BY <1>1, <1>2, <1>3, PTL DEF Spec

\* The queue is a sequence of bytes: what is read, found or sent is what was
\* written, in its order, whatever blocks it was in (nbq.cc, nconn.cc).
THEOREM QueueImplementsBytes == Spec => ImplementsByteQueue
<1>1. Init => IInv /\ Abstract!Init
  BY InitInvariant
<1>2. IInv /\ [Next]_vars => IInv' /\ [Abstract!Next]_Abstract!vars
  BY StepInvariant
<1> QED
  BY <1>1, <1>2, PTL DEF Spec, ImplementsByteQueue, Abstract!Spec

-----------------------------------------------------------------------------
(* Messages as they are read.                                              *)

InHead == {"url", "key", "val"}
Parts == InHead \union {"body", "none"}
At == [off : Nat, len : Int]
Msgs == [url : At, keys : Seq(At), vals : Seq(At), body : At,
         complete : BOOLEAN, expect : BOOLEAN]
\* The states of a scan.
Scans == [part : Parts, mark : Nat, msg : Msgs]

StartsBefore(w, part, cuts, m) == {p \in Starts(w, part, cuts) : p < m}

\* A piece that begins before off and will not be longer.
Closed(at, w, part, cuts, off) ==
  LET p == at.off
      e == p + at.len
  IN  /\ p \in Starts(w, part, cuts) /\ p < off /\ e \in p .. off
      /\ \A r \in p + 1 .. e : PartOf(w[r]) = part /\ (r = e \/ r \notin cuts)
      /\ e \in cuts \ {p} \/ (e < off /\ PartOf(w[e + 1]) # part)

\* ats are the pieces that begin before m, all of them closed.
Lists(ats, w, part, cuts, m, off) ==
  /\ ats \in Seq(At)
  /\ {ats[i].off : i \in DOMAIN ats} = StartsBefore(w, part, cuts, m)
  /\ \A i \in DOMAIN ats : Closed(ats[i], w, part, cuts, off)
  /\ \A i, j \in DOMAIN ats : i < j => ats[i].off < ats[j].off

\* at is the last of them, if there is one.
IsLatest(at, w, part, cuts, m, off) ==
  /\ at \in At
  /\ \A p \in Starts(w, part, cuts) :
       p < m => p <= at.off /\ Closed(at, w, part, cuts, off)

\* The bytes of the body among the first n, and the place that b says they have.
Body(w, n) == {i \in 1 .. n : PartOf(w[i]) = "body"}
BodyIs(b, w, n) ==
  /\ b \in At
  /\ Body(w, n) = {} => b = NoPart
  /\ Body(w, n) # {} =>
       /\ b.off + 1 \in Body(w, n) /\ \A i \in Body(w, n) : b.off + 1 <= i
       /\ b.len = Cardinality(Body(w, n))

\* Symbols at which a message is complete.
Completes(sym) == sym \in {"t", "f", "z", "i"} \/ (sym = "s" /\ SkipsBody)

\* Where the pieces of a part that f knows of are closed.
Limit(f, part, off) == IF f.part = part THEN f.mark ELSE off

\* The parts that the message knows of are those among the first off symbols.
PartsNoted(f, w, cuts, off) ==
  IF x.save
  THEN /\ Lists(f.msg.keys, w, "key", cuts, Limit(f, "key", off), off)
       /\ Lists(f.msg.vals, w, "val", cuts, Limit(f, "val", off), off)
       /\ x.side = "rqst" =>
            IsLatest(f.msg.url, w, "url", cuts, Limit(f, "url", off), off)
       /\ BodyIs(f.msg.body, w, Limit(f, "body", off))
  ELSE f.msg.keys = <<>> /\ f.msg.vals = <<>> /\ f.msg.body = NoPart

\* The part that is open after off symbols, of a piece that begins at base.
Opened(f, w, cuts, base, off) ==
  /\ \A part \in InHead : f.part = part <=> off > 0 /\ PartOf(w[off]) = part
  /\ f.part # "none" =>
       /\ f.mark \in base .. off
       /\ \A r \in f.mark + 1 .. off : PartOf(w[r]) = f.part
       /\ f.mark = off => f.part # "body" /\ off = base /\ off \in cuts
  /\ f.part \in InHead /\ f.mark < Len(w) => f.mark \in Starts(w, f.part, cuts)

Noted(f, w, cuts, base, off) ==
  /\ f \in Scans
  /\ Opened(f, w, cuts, base, off)
  /\ PartsNoted(f, w, cuts, off)
  /\ f.msg.complete <=> \E r \in 1 .. off : Completes(w[r])

\* What a piece begins with.
Begun == [part |-> inside, mark |-> read, msg |-> h]

\* What of a message was sent and read, and where it was cut.
InPlace ==
  /\ x.side = "resp" => nth <= Len(x.wires)
  /\ IF nth <= Len(x.wires)
     THEN /\ sent <= Len(Wire) /\ read <= sent
          /\ cut \subseteq 1 .. read
          /\ inside # "body"
          /\ Noted(Begun, Wire, cut, read, read)
     ELSE sent = 0 /\ read = 0 /\ ~h.complete

\* What is complete is taken before more is read.
TakenInTurn ==
  /\ pc = "wait" => ~h.complete
  /\ pc = "read" /\ h.complete => read % BlockBytes = 0
  /\ pc \in {"wait", "read", "check"} => Len(got) = nth - 1
  /\ pc = "idle" => x.side = "resp" /\ Len(got) = nth

SeenRecords == [url : At, keys : Seq(At), vals : Seq(At), body : At,
                cut : SUBSET Nat, read : Nat]
MsgTypes ==
  /\ x \in Exchanges /\ pc \in {"wait", "read", "check", "idle", "closed"}
  /\ nth \in Nat \ {0} /\ sent \in Nat /\ read \in Nat /\ fin \in BOOLEAN
  /\ h \in Msgs /\ inside \in Parts /\ continued \in BOOLEAN
  /\ got \in Seq(SeenRecords)
  /\ cut \in SUBSET Nat

\* What was taken was taken whole, and a request that is read is not lost, but
\* for the exceptions that TakenWhole names.
TakenEach ==
  \A i \in DOMAIN got :
    got[i].read = Len(x.wires[i]) \/ (x.side = "resp" /\ (fin \/ Interim(x.wires[i])))
LostIfCut ==
  pc = "closed" /\ x.side = "rqst" /\ read > 0 /\ read = Len(Wire) =>
    \/ \E c \in cut : PartOf(Wire[c]) = "url" /\ PartOf(Wire[c + 1]) # "url"
    \/ fin /\ read % BlockBytes = 0

MsgInv == MsgTypes /\ InPlace /\ TakenInTurn /\ AsSent /\ TakenEach /\ LostIfCut
-----------------------------------------------------------------------------
(* The callbacks and the parser, by what they change.                      *)

LEMMA PartFacts ==
  /\ \A sym : PartOf(sym) \in Parts
  /\ \A sym \in {"m", "c", "w", "n", "e", "f", "s", "h", "d", "z", "i"} :
       PartOf(sym) = "none"
  /\ PartOf("t") = "body" /\ PartOf("b") = "body" /\ PartOf("u") = "url"
BY DEF PartOf, Parts, InHead

\* What the callback for the open part notes of it.
LEMMA CalledFacts ==
  ASSUME NEW f \in Scans, NEW off \in Nat, x.save \in BOOLEAN
  PROVE  LET c == Called(f, off)
             at == [off |-> f.mark, len |-> off - f.mark]
         IN  /\ c \in Scans /\ c.part = "none" /\ at \in At
             /\ c.msg.complete = f.msg.complete
             /\ ~x.save => c.msg = f.msg
             /\ x.save =>
                  /\ c.msg.keys = IF f.part = "key" THEN Append(f.msg.keys, at)
                                  ELSE f.msg.keys
                  /\ c.msg.vals = IF f.part = "val" THEN Append(f.msg.vals, at)
                                  ELSE f.msg.vals
                  /\ c.msg.url = IF f.part = "url" /\ x.side = "rqst" THEN at
                                 ELSE f.msg.url
                  /\ c.msg.body = IF f.part # "body" THEN f.msg.body
                                  ELSE Joined(f.msg.body, at)
<1> DEFINE at == [off |-> f.mark, len |-> off - f.mark]
           c == Called(f, off)
           msg == f.msg
           noted(m) == [part |-> "none", mark |-> 0, msg |-> m]
<1>1. msg \in Msgs /\ f.mark \in Nat /\ f.part \in Parts /\ at \in At
  BY DEF Scans, At
<1>2. \A m \in Msgs : noted(m) \in Scans
  BY DEF Scans, Parts
<1>3. CASE ~x.save
  <2>1. c = noted(msg)
    BY <1>3 DEF Called
  <2> QED
    BY <1>1, <1>2, <1>3, <2>1
<1>4. CASE x.save
  <2>1. CASE f.part = "key"
    <3> DEFINE m == OnHeaderField(msg, at)
    <3>1. c = noted(m)
      BY <1>4, <2>1 DEF Called
    <3> HIDE DEF at, msg
    <3>a. Append(msg.keys, at) \in Seq(At)
      BY <1>1 DEF Msgs
    <3> DEFINE ks == Append(msg.keys, at)
               e == m.expect
    <3>b. m = [msg EXCEPT !.keys = ks, !.expect = e] /\ e \in BOOLEAN
      BY <1>1 DEF OnHeaderField, Msgs
    <3> HIDE DEF m, ks, e
    <3>2. m \in Msgs /\ m.keys = ks /\ m.vals = msg.vals
          /\ m.url = msg.url /\ m.body = msg.body /\ m.complete = msg.complete
      BY <1>1, <3>a, <3>b DEF Msgs, ks
    <3> QED
      BY <1>1, <1>2, <1>4, <2>1, <3>1, <3>2 DEF msg, at, ks
  <2>2. CASE f.part = "val"
    <3> DEFINE m == OnHeaderValue(msg, at)
    <3>1. c = noted(m)
      BY <1>4, <2>2 DEF Called
    <3> HIDE DEF at, msg
    <3> DEFINE vs == Append(msg.vals, at)
    <3>a. vs \in Seq(At)
      BY <1>1 DEF Msgs
    <3>b. m = [msg EXCEPT !.vals = vs]
      BY <1>1 DEF OnHeaderValue, Msgs
    <3> HIDE DEF m, vs
    <3>2. m \in Msgs /\ m.vals = vs /\ m.keys = msg.keys
          /\ m.url = msg.url /\ m.body = msg.body /\ m.complete = msg.complete
      BY <1>1, <3>a, <3>b DEF Msgs
    <3> QED
      BY <1>1, <1>2, <1>4, <2>2, <3>1, <3>2 DEF msg, at, vs
  <2>3. CASE f.part = "url"
    <3> DEFINE m == OnUrl(msg, at)
    <3>1. c = noted(m)
      BY <1>4, <2>3 DEF Called
    <3>2. m \in Msgs /\ m.vals = msg.vals /\ m.keys = msg.keys
          /\ m.url = (IF x.side = "rqst" THEN at ELSE msg.url)
          /\ m.body = msg.body /\ m.complete = msg.complete
      BY <1>1 DEF OnUrl, Msgs
    <3> HIDE DEF m, at, msg
    <3> QED
      BY <1>1, <1>2, <1>4, <2>3, <3>1, <3>2 DEF msg, at
  <2>4. CASE f.part = "body"
    <3> DEFINE m == OnBody(msg, at)
               b == Joined(msg.body, at)
    <3>1. c = noted(m)
      BY <1>4, <2>4 DEF Called
    <3> HIDE DEF msg, at
    <3>a. msg.body \in At /\ msg.body.off \in Nat /\ msg.body.len \in Int /\ at.len \in Int
      BY <1>1 DEF Msgs, At
    <3>2. b \in At
      BY <1>1, <3>a DEF At, Joined
    <3>3. m = [msg EXCEPT !.body = b]
      BY <1>1 DEF OnBody, Msgs
    <3> HIDE DEF b
    <3>4. m \in Msgs /\ m.vals = msg.vals /\ m.keys = msg.keys /\ m.url = msg.url
          /\ m.body = b /\ m.complete = msg.complete
      BY <1>1, <3>2, <3>3 DEF Msgs
    <3> HIDE DEF m, at, msg
    <3> QED
      BY <1>1, <1>2, <1>4, <2>4, <3>1, <3>4 DEF msg, at, b
  <2>5. CASE f.part = "none"
    <3>1. c = noted(msg)
      BY <1>4, <2>5 DEF Called
    <3> QED
      BY <1>1, <1>2, <1>4, <2>5, <3>1
  <2> QED
    BY <1>1, <2>1, <2>2, <2>3, <2>4, <2>5 DEF Parts, InHead
<1> QED
  BY <1>3, <1>4

\* What a symbol opens and closes.
LEMMA MarkedFacts ==
  ASSUME NEW f \in Scans, NEW off \in Nat, NEW sym, x.save \in BOOLEAN
  PROVE  LET g == Marked(f, sym, off)
             c == Called(f, off)
         IN  /\ g \in Scans /\ g.part = PartOf(sym)
             /\ PartOf(sym) = f.part => g = f
             /\ PartOf(sym) # f.part => g.msg = c.msg
             /\ PartOf(sym) # f.part /\ g.part # "none" => g.mark = off
<1> DEFINE g == Marked(f, sym, off)
           c == Called(f, off)
           part == PartOf(sym)
<1>1. c \in Scans /\ c.part = "none"
  BY CalledFacts
<1>2. part \in Parts
  BY PartFacts
<1>3. CASE part = f.part
  <2>1. g = f
    BY <1>3 DEF Marked
  <2> QED
    BY <1>3, <2>1
<1>4. CASE part # f.part
  <2>1. g = IF part # "none" THEN [c EXCEPT !.part = part, !.mark = off] ELSE c
    BY <1>1, <1>4 DEF Marked
  <2> HIDE DEF g, c, part
  <2>2. CASE part = "none"
    BY <1>1, <1>4, <2>1, <2>2 DEF part, g, c
  <2>3. CASE part # "none"
    <3>1. g = [c EXCEPT !.part = part, !.mark = off]
      BY <2>1, <2>3
    <3>2. g \in Scans /\ g.part = part /\ g.mark = off /\ g.msg = c.msg
      BY <1>1, <1>2, <3>1 DEF Scans
    <3> QED
      BY <1>4, <3>2 DEF part, g, c
  <2> QED
    BY <2>2, <2>3
<1> QED
  BY <1>3, <1>4

LEMMA ParsedType ==
  ASSUME x.save \in BOOLEAN, NEW f \in Scans, NEW off \in Nat, NEW sym
  PROVE  Parsed(f, sym, off) \in Scans
<1> DEFINE g == Marked(f, sym, off)
<1>1. g \in Scans
  BY MarkedFacts
<1>2. ASSUME NEW e \in Scans
      PROVE  OnMessageComplete(e) \in Scans
  BY DEF OnMessageComplete, Scans, Msgs
<1>3. [g EXCEPT !.part = "val", !.mark = off] \in Scans
  BY <1>1 DEF Scans, Parts, InHead
<1>4. Called([g EXCEPT !.part = "val", !.mark = off], off) \in Scans
  BY <1>3, CalledFacts
<1>5. Called(g, off + 1) \in Scans
  <2>1. off + 1 \in Nat
    OBVIOUS
  <2> HIDE DEF g
  <2> QED
    BY <1>1, <2>1, CalledFacts
<1> HIDE DEF g
<1> QED
  BY <1>1, <1>2, <1>4, <1>5 DEF Parsed, g

\* f is what each symbol of a piece makes of the message.
ScanRun(f, n) ==
  /\ f \in [0 .. n -> Scans] /\ f[0] = Begun
  /\ \A i \in 1 .. n : f[i] = Parsed(f[i - 1], Wire[read + i], read + i - 1)
  /\ Scanned(n) = f[n]

LEMMA ScanTurns ==
  ASSUME Begun \in Scans, read \in Nat, x.save \in BOOLEAN, NEW n \in Nat
  PROVE  \E f : ScanRun(f, n)
<1> DEFINE X == Nat \X Scans
           next(i, e) == Parsed(e, Wire[read + i], read + i - 1)
           step == [u \in X |-> <<u[1] + 1, next(u[1] + 1, u[2])>>]
           once(i, e) == CHOOSE g \in {next(i, ee) : ee \in {e}} : TRUE
           Fits(f) == f = [i \in 0 .. n |-> IF i = 0 THEN Begun ELSE once(i, f[i - 1])]
<1>1. ASSUME NEW i \in Nat \ {0}, NEW e \in Scans
      PROVE  next(i, e) \in Scans
  <2>1. read + i - 1 \in Nat
    OBVIOUS
  <2> QED
    BY <2>1, ParsedType
<1>2. ASSUME NEW i, NEW e
      PROVE  once(i, e) = next(i, e)
  <2> HIDE DEF next
  <2>1. {next(i, ee) : ee \in {e}} = {next(i, e)}
    OBVIOUS
  <2> QED
    BY <2>1
<1> HIDE DEF next
<1>3. step \in [X -> X]
  <2>1. ASSUME NEW u \in X
        PROVE  <<u[1] + 1, next(u[1] + 1, u[2])>> \in X
    <3>1. u[1] \in Nat /\ u[2] \in Scans /\ u[1] + 1 \in Nat \ {0}
      OBVIOUS
    <3> QED
      BY <1>1, <3>1
  <2> QED
    BY <2>1
<1>4. PICK f : Iterates(f, X, step, <<0, Begun>>, n)
  <2>1. <<0, Begun>> \in X
    OBVIOUS
  <2> HIDE DEF step, X
  <2> QED
    BY <1>3, <2>1, Iterated
<1>5. /\ f \in [0 .. n -> X] /\ f[0] = <<0, Begun>>
      /\ \A i \in 1 .. n : f[i] = step[f[i - 1]]
  <2> HIDE DEF step, X
  <2> QED
    BY <1>4 DEF Iterates
<1>6. ASSUME NEW i \in 0 .. n - 1
      PROVE  /\ f[i + 1][1] = f[i][1] + 1
             /\ f[i + 1][2] = next(f[i][1] + 1, f[i][2])
  <2>1. f[i] \in X /\ f[i + 1] = step[f[i]]
    <3>1. i + 1 \in 1 .. n /\ i \in 0 .. n /\ (i + 1) - 1 = i
      OBVIOUS
    <3> HIDE DEF step, X
    <3> QED
      BY <1>5, <3>1
  <2> QED
    BY <2>1
<1> DEFINE S == {i \in 0 .. n : f[i][1] = i}
<1>7. \A i \in 0 .. n : i \in S
  <2>1. 0 \in S
    BY <1>5
  <2>2. ASSUME NEW i \in 0 .. n - 1, i \in S
        PROVE  i + 1 \in S
    BY <1>6, <2>2
  <2> HIDE DEF S
  <2>3. 0 .. n \subseteq S
    BY <2>1, <2>2, UpTo
  <2> QED
    BY <2>3
<1> DEFINE g == [i \in 0 .. n |-> f[i][2]]
<1>8. g \in [0 .. n -> Scans] /\ g[0] = Begun
  BY <1>5
<1>9. ASSUME NEW i \in 1 .. n
      PROVE  g[i] = next(i, g[i - 1])
  <2>1. i - 1 \in 0 .. n - 1 /\ (i - 1) + 1 = i /\ i - 1 \in 0 .. n /\ i \in 0 .. n
    OBVIOUS
  <2>2. f[i][2] = next(f[i - 1][1] + 1, f[i - 1][2])
    BY <1>6, <2>1
  <2>3. f[i - 1][1] + 1 = i
    BY <1>7, <2>1
  <2> QED
    BY <2>1, <2>2, <2>3
<1>10. Fits(g)
  <2>1. ASSUME NEW i \in 0 .. n
        PROVE  g[i] = IF i = 0 THEN Begun ELSE once(i, g[i - 1])
    <3>1. CASE i = 0
      BY <1>8, <3>1
    <3>2. CASE i # 0
      <4>1. i \in 1 .. n
        BY <3>2
      <4> HIDE DEF g, once
      <4> QED
        BY <1>2, <1>9, <3>2, <4>1
    <3> QED
      BY <3>1, <3>2
  <2> HIDE DEF once
  <2> QED
    BY <2>1
<1> DEFINE e == CHOOSE ee : Fits(ee)
<1>11. Fits(e)
  <2> HIDE DEF Fits
  <2> QED
    BY <1>10
<1>12. Scanned(n) = e[n]
  BY DEF Scanned, Begun, next
<1> HIDE DEF e, g
<1>13. e[0] = Begun /\ \A i \in 1 .. n : e[i] = next(i, e[i - 1])
  <2>1. \A i \in 0 .. n : e[i] = IF i = 0 THEN Begun ELSE once(i, e[i - 1])
    <3> HIDE DEF once
    <3> QED
      BY <1>11
  <2> HIDE DEF once
  <2>2. ASSUME NEW i \in 1 .. n
        PROVE  e[i] = next(i, e[i - 1])
    BY <1>2, <2>1
  <2> QED
    BY <2>1, <2>2
<1> DEFINE R == {i \in 0 .. n : e[i] \in Scans}
<1>14. \A i \in 0 .. n : i \in R
  <2>1. 0 \in R
    BY <1>13
  <2>2. ASSUME NEW i \in 0 .. n - 1, i \in R
        PROVE  i + 1 \in R
    <3>1. i + 1 \in 1 .. n /\ (i + 1) - 1 = i /\ i + 1 \in Nat \ {0}
      OBVIOUS
    <3> QED
      BY <1>1, <1>13, <2>2, <3>1
  <2> HIDE DEF R
  <2>3. 0 .. n \subseteq R
    BY <2>1, <2>2, UpTo
  <2> QED
    BY <2>3
<1>15. e \in [0 .. n -> Scans]
  <2>1. e = [i \in 0 .. n |-> e[i]]
    <3> HIDE DEF once
    <3> QED
      BY <1>11
  <2> QED
    BY <1>14, <2>1
<1> QED
  BY <1>12, <1>13, <1>15 DEF ScanRun, next

-----------------------------------------------------------------------------
(* The pieces of one part, as another symbol is read.                      *)

\* The part is open at off since m, in a piece that begins at base.
IsOpen(w, part, cuts, base, m, off) ==
  /\ off > 0 /\ PartOf(w[off]) = part
  /\ m \in base .. off /\ m \in Starts(w, part, cuts)
  /\ \A r \in m + 1 .. off : PartOf(w[r]) = part

\* What is cut was read before this piece.
ReadSoFar(w, cuts, base, off) ==
  /\ Message(w) /\ base \in Nat /\ off \in Nat /\ base <= off /\ off <= Len(w)
  /\ cuts \subseteq 1 .. base

LEMMA StartFacts ==
  ASSUME NEW w, NEW part, NEW cuts, NEW p \in Starts(w, part, cuts)
  PROVE  /\ p \in 0 .. Len(w) - 1
         /\ \/ PartOf(w[p + 1]) = part /\ (p = 0 \/ PartOf(w[p]) # part)
            \/ part = "val" /\ w[p + 1] = "w"
            \/ p \in cuts /\ PartOf(w[p]) = part
BY DEF Starts

LEMMA IsStart ==
  ASSUME NEW w, NEW part, NEW cuts, NEW p \in 0 .. Len(w) - 1,
         \/ PartOf(w[p + 1]) = part /\ (p = 0 \/ PartOf(w[p]) # part)
         \/ part = "val" /\ w[p + 1] = "w"
         \/ p \in cuts /\ PartOf(w[p]) = part
  PROVE  p \in Starts(w, part, cuts)
BY DEF Starts

LEMMA MessageFacts ==
  ASSUME NEW w, Message(w)
  PROVE  /\ w \in Seq(STRING) /\ Len(w) \in Nat \ {0} /\ w[1] = "m"
         /\ \A i \in 1 .. Len(w) : w[i] \in STRING
         /\ \A i \in 1 .. Len(w) : w[i] = "w" => i > 1 /\ w[i - 1] = "c"
         /\ \A i \in 1 .. Len(w) : w[i] \in MsgEnd => i = Len(w)
BY DEF Message

\* An open part has no other start.
LEMMA NoStartInside ==
  ASSUME NEW w, NEW part \in InHead, NEW cuts, NEW base, NEW m, NEW off,
         ReadSoFar(w, cuts, base, off), IsOpen(w, part, cuts, base, m, off),
         NEW p \in Starts(w, part, cuts), p <= off
  PROVE  p <= m
<1>1. /\ base \in Nat /\ off \in Nat /\ off <= Len(w) /\ m \in Nat /\ base <= m /\ m <= off
      /\ Len(w) \in Nat
  BY MessageFacts DEF ReadSoFar, IsOpen
<1>2. p \in Nat /\ p < Len(w)
  BY <1>1, StartFacts
<1>3. CASE p > m
  <2>1. p \in m + 1 .. off /\ p > base /\ p # 0 /\ p + 1 \in 1 .. Len(w)
    BY <1>1, <1>2, <1>3
  <2>2. PartOf(w[p]) = part /\ p \notin cuts
    BY <1>1, <2>1 DEF IsOpen, ReadSoFar
  <2>3. part = "val" /\ w[p + 1] = "w"
    BY <2>1, <2>2, StartFacts
  <2>4. w[p] = "c"
    <3>1. (p + 1) - 1 = p
      BY <1>2
    <3> QED
      BY <2>1, <2>3, <3>1, MessageFacts DEF ReadSoFar
  <2> QED
    BY <2>2, <2>3, <2>4, PartFacts
<1> QED
  BY <1>1, <1>2, <1>3

LEMMA ClosedStays ==
  ASSUME NEW w, NEW part, NEW cuts, NEW off \in Nat, Len(w) \in Nat, NEW at \in At,
         Closed(at, w, part, cuts, off)
  PROVE  Closed(at, w, part, cuts, off + 1)
<1> DEFINE p == at.off
           e == p + at.len
<1>1. p \in Nat /\ e \in Int
  BY DEF At
<1> HIDE DEF p, e
<1>2. /\ p \in Starts(w, part, cuts) /\ p < off /\ e \in p .. off
      /\ \A r \in p + 1 .. e : PartOf(w[r]) = part /\ (r = e \/ r \notin cuts)
      /\ e \in cuts \ {p} \/ (e < off /\ PartOf(w[e + 1]) # part)
  BY DEF Closed, p, e
<1>3. p < off + 1 /\ e \in p .. off + 1 /\ (e < off => e < off + 1)
  BY <1>1, <1>2
<1> QED
  BY <1>2, <1>3 DEF Closed, p, e

\* The piece that ends where the next symbol is of another part.
LEMMA PieceCloses ==
  ASSUME NEW w, NEW part \in InHead, NEW cuts, NEW base, NEW m, NEW off,
         ReadSoFar(w, cuts, base, off), IsOpen(w, part, cuts, base, m, off),
         PartOf(w[off + 1]) # part
  PROVE  LET at == [off |-> m, len |-> off - m]
         IN  at \in At /\ Closed(at, w, part, cuts, off + 1)
<1> DEFINE at == [off |-> m, len |-> off - m]
<1>1. /\ base \in Nat /\ off \in Nat /\ off <= Len(w) /\ m \in Nat /\ base <= m /\ m <= off
      /\ Len(w) \in Nat
  BY MessageFacts DEF ReadSoFar, IsOpen
<1>2. at \in At /\ at.off = m /\ at.off + at.len = off
  BY <1>1 DEF At
<1> HIDE DEF at
<1>3. m < off + 1 /\ off \in m .. off + 1 /\ off < off + 1
  BY <1>1
<1>4. ASSUME NEW r \in m + 1 .. off
      PROVE  PartOf(w[r]) = part /\ r \notin cuts
  <2>1. r > base /\ r \in Nat
    BY <1>1
  <2> QED
    BY <1>1, <2>1 DEF IsOpen, ReadSoFar
<1>5. m \in Starts(w, part, cuts)
  BY DEF IsOpen
<1>6. Closed(at, w, part, cuts, off + 1)
  BY <1>2, <1>3, <1>4, <1>5 DEF Closed
<1> QED
  BY <1>2, <1>6 DEF at

\* The same pieces, seen from further on.
LEMMA ListsChange ==
  ASSUME NEW ats, NEW w, NEW part, NEW cuts, NEW cuts2,
         NEW m, NEW m2, NEW off, NEW off2,
         Lists(ats, w, part, cuts, m, off),
         StartsBefore(w, part, cuts2, m2) = StartsBefore(w, part, cuts, m),
         \A at \in At : Closed(at, w, part, cuts, off) => Closed(at, w, part, cuts2, off2)
  PROVE  Lists(ats, w, part, cuts2, m2, off2)
<1>1. /\ ats \in Seq(At)
      /\ {ats[i].off : i \in DOMAIN ats} = StartsBefore(w, part, cuts, m)
      /\ \A i \in DOMAIN ats : Closed(ats[i], w, part, cuts, off)
      /\ \A i, j \in DOMAIN ats : i < j => ats[i].off < ats[j].off
  BY DEF Lists
<1>2. \A i \in DOMAIN ats : Closed(ats[i], w, part, cuts2, off2)
  BY <1>1
<1> QED
  BY <1>1, <1>2 DEF Lists

LEMMA LatestChange ==
  ASSUME NEW at, NEW w, NEW part, NEW cuts, NEW cuts2,
         NEW m, NEW m2, NEW off, NEW off2,
         IsLatest(at, w, part, cuts, m, off),
         StartsBefore(w, part, cuts2, m2) = StartsBefore(w, part, cuts, m),
         Closed(at, w, part, cuts, off) => Closed(at, w, part, cuts2, off2)
  PROVE  IsLatest(at, w, part, cuts2, m2, off2)
BY DEF IsLatest, StartsBefore

\* One more piece.
LEMMA ListsAppend ==
  ASSUME NEW ats, NEW w, NEW part, NEW cuts, NEW m, NEW m2, NEW off,
         Len(w) \in Nat, m \in Int, m2 \in Int,
         Lists(ats, w, part, cuts, m, off),
         NEW at \in At, at.off = m, m \in Starts(w, part, cuts),
         Closed(at, w, part, cuts, off),
         m < m2, \A p \in Starts(w, part, cuts) : p < m2 => p <= m
  PROVE  Lists(Append(ats, at), w, part, cuts, m2, off)
<1> DEFINE u == Append(ats, at)
           n == Len(ats)
<1>1. /\ ats \in Seq(At)
      /\ {ats[i].off : i \in DOMAIN ats} = StartsBefore(w, part, cuts, m)
      /\ \A i \in DOMAIN ats : Closed(ats[i], w, part, cuts, off)
      /\ \A i, j \in DOMAIN ats : i < j => ats[i].off < ats[j].off
  BY DEF Lists
<1>2. /\ n \in Nat /\ DOMAIN ats = 1 .. n
      /\ u \in Seq(At) /\ DOMAIN u = 1 .. n + 1
      /\ \A i \in 1 .. n : u[i] = ats[i]
      /\ u[n + 1] = at
  BY <1>1
<1> HIDE DEF u, n
<1>3. \A i \in DOMAIN u : i \in 1 .. n \/ i = n + 1
  BY <1>2
<1>a. \A p \in Starts(w, part, cuts) : p \in Int
  BY StartFacts
<1>4. \A i \in 1 .. n : ats[i].off < m /\ ats[i].off \in Starts(w, part, cuts)
  BY <1>1, <1>2 DEF StartsBefore
<1>5. \A i \in DOMAIN u : Closed(u[i], w, part, cuts, off)
  BY <1>1, <1>2, <1>3
<1>6. ASSUME NEW i \in DOMAIN u, NEW j \in DOMAIN u, i < j
      PROVE  u[i].off < u[j].off
  <2>1. i \in 1 .. n
    BY <1>2, <1>6
  <2>2. CASE j \in 1 .. n
    BY <1>1, <1>2, <1>6, <2>1, <2>2
  <2>3. CASE j = n + 1
    BY <1>2, <1>4, <2>1, <2>3
  <2> QED
    BY <1>3, <2>2, <2>3
<1>7. {u[i].off : i \in DOMAIN u} = StartsBefore(w, part, cuts, m2)
  <2>1. ASSUME NEW i \in DOMAIN u
        PROVE  u[i].off \in Starts(w, part, cuts) /\ u[i].off < m2
    <3>1. CASE i \in 1 .. n
      <4>1. u[i].off \in Starts(w, part, cuts) /\ u[i].off < m
        BY <1>2, <1>4, <3>1
      <4>2. u[i].off \in Int
        BY <1>a, <4>1
      <4> QED
        BY <4>1, <4>2
    <3>2. CASE i = n + 1
      BY <1>2, <3>2
    <3> QED
      BY <1>3, <3>1, <3>2
  <2>2. ASSUME NEW p \in Starts(w, part, cuts), p < m2
        PROVE  \E i \in DOMAIN u : u[i].off = p
    <3>1. p \in Int /\ p <= m
      BY <2>2, StartFacts
    <3>2. CASE p = m
      BY <1>2, <3>2
    <3>3. CASE p < m
      <4>1. PICK i \in DOMAIN ats : ats[i].off = p
        BY <1>1, <2>2, <3>3 DEF StartsBefore
      <4> QED
        BY <1>2, <4>1
    <3> QED
      BY <3>1, <3>2, <3>3
  <2> QED
    BY <2>1, <2>2 DEF StartsBefore
<1> QED
  BY <1>2, <1>5, <1>6, <1>7 DEF Lists, u

LEMMA LatestAppend ==
  ASSUME NEW w, NEW part, NEW cuts, NEW m, NEW m2, NEW off,
         NEW at \in At, at.off = m,
         Closed(at, w, part, cuts, off),
         \A p \in Starts(w, part, cuts) : p < m2 => p <= m
  PROVE  IsLatest(at, w, part, cuts, m2, off)
BY DEF IsLatest

\* What the pieces of a part are when the symbol after off is read.
LEMMA PartGoesOn ==
  ASSUME NEW w, NEW part \in InHead, NEW cuts, NEW base, NEW m, NEW off,
         ReadSoFar(w, cuts, base, off), IsOpen(w, part, cuts, base, m, off)
  PROVE  /\ \A ats : Lists(ats, w, part, cuts, m, off) =>
              /\ Lists(ats, w, part, cuts, m, off + 1)
              /\ PartOf(w[off + 1]) # part =>
                   Lists(Append(ats, [off |-> m, len |-> off - m]), w, part, cuts,
                         off + 1, off + 1)
         /\ \A at : IsLatest(at, w, part, cuts, m, off) =>
              IsLatest(at, w, part, cuts, m, off + 1)
         /\ PartOf(w[off + 1]) # part =>
              IsLatest([off |-> m, len |-> off - m], w, part, cuts, off + 1, off + 1)
<1>1. /\ off \in Nat /\ m \in Nat /\ m <= off /\ m < off + 1 /\ Len(w) \in Nat
      /\ m \in Starts(w, part, cuts)
  BY MessageFacts DEF ReadSoFar, IsOpen
<1>2. \A at \in At : Closed(at, w, part, cuts, off) => Closed(at, w, part, cuts, off + 1)
  BY <1>1, ClosedStays
<1>3. \A p \in Starts(w, part, cuts) : p < off + 1 => p <= m
  <2>1. ASSUME NEW p \in Starts(w, part, cuts), p < off + 1
        PROVE  p <= m
    <3>1. p <= off
      BY <1>1, <2>1, StartFacts
    <3> QED
      BY <3>1, NoStartInside
  <2> QED
    BY <2>1
<1> DEFINE piece == [off |-> m, len |-> off - m]
<1>4. PartOf(w[off + 1]) # part =>
        piece \in At /\ piece.off = m /\ Closed(piece, w, part, cuts, off + 1)
  BY PieceCloses
<1> HIDE DEF piece
<1>5. ASSUME NEW ats, Lists(ats, w, part, cuts, m, off)
      PROVE  /\ Lists(ats, w, part, cuts, m, off + 1)
             /\ PartOf(w[off + 1]) # part =>
                  Lists(Append(ats, piece), w, part, cuts, off + 1, off + 1)
  <2>1. Lists(ats, w, part, cuts, m, off + 1)
    BY <1>2, <1>5, ListsChange
  <2>2. m \in Int /\ off + 1 \in Int
    BY <1>1
  <2> QED
    BY <1>1, <1>3, <1>4, <2>1, <2>2, ListsAppend
<1>6. ASSUME NEW at, IsLatest(at, w, part, cuts, m, off)
      PROVE  IsLatest(at, w, part, cuts, m, off + 1)
  <2>1. Closed(at, w, part, cuts, off) => Closed(at, w, part, cuts, off + 1)
    BY <1>2, <1>6 DEF IsLatest
  <2> QED
    BY <1>6, <2>1, LatestChange
<1>7. PartOf(w[off + 1]) # part => IsLatest(piece, w, part, cuts, off + 1, off + 1)
  BY <1>3, <1>4, LatestAppend
<1> QED
  BY <1>5, <1>6, <1>7 DEF piece

\* A part that is not open: it begins with the next symbol, or not.
LEMMA PartBegins ==
  ASSUME NEW w, NEW part \in InHead, NEW cuts, NEW base, NEW off,
         ReadSoFar(w, cuts, base, off), off < Len(w), off > 0 => PartOf(w[off]) # part
  PROVE  /\ PartOf(w[off + 1]) = part => off \in Starts(w, part, cuts)
         /\ \A ats : Lists(ats, w, part, cuts, off, off) =>
              /\ Lists(ats, w, part, cuts, off, off + 1)
              /\ PartOf(w[off + 1]) # part /\ ~(part = "val" /\ w[off + 1] = "w") =>
                   Lists(ats, w, part, cuts, off + 1, off + 1)
              /\ part = "val" /\ w[off + 1] = "w" =>
                   Lists(Append(ats, [off |-> off, len |-> 0]), w, part, cuts,
                         off + 1, off + 1)
         /\ \A at : IsLatest(at, w, part, cuts, off, off) =>
              /\ IsLatest(at, w, part, cuts, off, off + 1)
              /\ part = "url" /\ PartOf(w[off + 1]) # part =>
                   IsLatest(at, w, part, cuts, off + 1, off + 1)
<1>1. /\ off \in Nat /\ Len(w) \in Nat /\ off < off + 1 /\ off < Len(w) /\ off \in 0 .. Len(w) - 1
      /\ base \in Nat /\ base <= off /\ cuts \subseteq 1 .. base
  BY MessageFacts DEF ReadSoFar
<1>2. \A at \in At : Closed(at, w, part, cuts, off) => Closed(at, w, part, cuts, off + 1)
  BY <1>1, ClosedStays
<1>3. PartOf(w[off + 1]) = part => off \in Starts(w, part, cuts)
  BY <1>1, IsStart
<1>4. ASSUME PartOf(w[off + 1]) # part, ~(part = "val" /\ w[off + 1] = "w")
      PROVE  StartsBefore(w, part, cuts, off + 1) = StartsBefore(w, part, cuts, off)
  <2>1. off \notin Starts(w, part, cuts)
    BY <1>1, <1>4, StartFacts
  <2>2. \A p \in Starts(w, part, cuts) : p \in Int
    BY StartFacts
  <2> QED
    BY <1>1, <2>1, <2>2 DEF StartsBefore
<1> DEFINE piece == [off |-> off, len |-> 0]
<1>5. ASSUME part = "val", w[off + 1] = "w"
      PROVE  /\ piece \in At /\ piece.off = off /\ off \in Starts(w, part, cuts)
             /\ Closed(piece, w, part, cuts, off + 1)
             /\ \A p \in Starts(w, part, cuts) : p < off + 1 => p <= off
  <2>1. piece \in At /\ piece.off = off /\ piece.off + piece.len = off
    BY <1>1 DEF At
  <2>2. off \in Starts(w, part, cuts)
    BY <1>1, <1>5, IsStart
  <2>3. off \in off .. off + 1 /\ off + 1 .. off = {}
    BY <1>1
  <2>4. PartOf(w[off + 1]) # part
    BY <1>5, PartFacts
  <2> HIDE DEF piece
  <2>5. Closed(piece, w, part, cuts, off + 1)
    BY <1>1, <2>1, <2>2, <2>3, <2>4 DEF Closed
  <2>6. \A p \in Starts(w, part, cuts) : p \in Int
    BY StartFacts
  <2> QED
    BY <1>1, <2>1, <2>2, <2>5, <2>6
<1> HIDE DEF piece
<1>6. ASSUME NEW ats, Lists(ats, w, part, cuts, off, off)
      PROVE  /\ Lists(ats, w, part, cuts, off, off + 1)
             /\ PartOf(w[off + 1]) # part /\ ~(part = "val" /\ w[off + 1] = "w") =>
                  Lists(ats, w, part, cuts, off + 1, off + 1)
             /\ part = "val" /\ w[off + 1] = "w" =>
                  Lists(Append(ats, piece), w, part, cuts, off + 1, off + 1)
  <2>1. Lists(ats, w, part, cuts, off, off + 1)
    BY <1>2, <1>6, ListsChange
  <2>2. PartOf(w[off + 1]) # part /\ ~(part = "val" /\ w[off + 1] = "w") =>
          Lists(ats, w, part, cuts, off + 1, off + 1)
    BY <1>2, <1>4, <1>6, ListsChange
  <2>3. off \in Int /\ off + 1 \in Int
    BY <1>1
  <2>4. part = "val" /\ w[off + 1] = "w" =>
          Lists(Append(ats, piece), w, part, cuts, off + 1, off + 1)
    BY <1>1, <1>5, <2>1, <2>3, ListsAppend
  <2> QED
    BY <2>1, <2>2, <2>4
<1>7. ASSUME NEW at, IsLatest(at, w, part, cuts, off, off)
      PROVE  /\ IsLatest(at, w, part, cuts, off, off + 1)
             /\ part = "url" /\ PartOf(w[off + 1]) # part =>
                  IsLatest(at, w, part, cuts, off + 1, off + 1)
  <2>1. Closed(at, w, part, cuts, off) => Closed(at, w, part, cuts, off + 1)
    BY <1>2, <1>7 DEF IsLatest
  <2>2. IsLatest(at, w, part, cuts, off, off + 1)
    BY <1>7, <2>1, LatestChange
  <2>3. part = "url" => ~(part = "val" /\ w[off + 1] = "w")
    OBVIOUS
  <2> QED
    BY <1>4, <1>7, <2>1, <2>2, <2>3, LatestChange
<1> QED
  BY <1>3, <1>6, <1>7 DEF piece

-----------------------------------------------------------------------------
(* The body.                                                               *)

LEMMA BodyFacts ==
  ASSUME NEW w, NEW n \in Nat
  PROVE  Body(w, n) \subseteq 1 .. n /\ IsFiniteSet(Body(w, n))
<1>1. Body(w, n) \subseteq 1 .. n
  BY DEF Body
<1>2. IsFiniteSet(1 .. n)
  BY FS_Interval
<1> QED
  BY <1>1, <1>2, FS_Subset

LEMMA BodyStays ==
  ASSUME NEW w, NEW n \in Nat, NEW b, BodyIs(b, w, n), PartOf(w[n + 1]) # "body"
  PROVE  BodyIs(b, w, n + 1)
<1>1. Body(w, n + 1) = Body(w, n)
  BY DEF Body
<1> QED
  BY <1>1 DEF BodyIs

LEMMA BodyJoined ==
  ASSUME NEW w, PartOf(w[1]) # "body", NEW m \in Nat, NEW e \in Nat, m < e,
         NEW b, BodyIs(b, w, m),
         \A r \in m + 1 .. e : PartOf(w[r]) = "body"
  PROVE  BodyIs(Joined(b, [off |-> m, len |-> e - m]), w, e)
<1> DEFINE at == [off |-> m, len |-> e - m]
           j == Joined(b, at)
           B == Body(w, m)
           More == m + 1 .. e
<1>1. B \subseteq 1 .. m /\ IsFiniteSet(B)
  BY BodyFacts
<1>2. IsFiniteSet(More) /\ Cardinality(More) = e - m
  <2>1. m + 1 \in Int /\ e \in Int /\ ~(m + 1 > e) /\ e - (m + 1) + 1 = e - m
    OBVIOUS
  <2> QED
    BY <2>1, FS_Interval
<1>3. Body(w, e) = B \union More
  BY DEF Body
<1>4. B \cap More = {}
  BY <1>1
<1>5. Cardinality(B \union More) = Cardinality(B) + (e - m) /\ Cardinality(B) \in Nat
  <2>1. Cardinality(B \union More) = Cardinality(B) + Cardinality(More) - Cardinality(B \cap More)
    BY <1>1, <1>2, FS_Union
  <2>2. Cardinality(B \cap More) = 0
    BY <1>4, FS_EmptySet
  <2>3. Cardinality(B) \in Nat
    BY <1>1, FS_CardinalityType
  <2> HIDE DEF B, More
  <2> QED
    BY <1>2, <2>1, <2>2, <2>3
<1>6. m + 1 \in More /\ \A i \in More : m + 1 <= i
  OBVIOUS
<1>7. at \in At /\ at.off = m /\ at.len = e - m
  BY DEF At
<1>8. b \in At /\ b.off \in Nat /\ b.len \in Int
  BY DEF BodyIs, At
<1>9. 1 \notin B
  BY DEF Body
<1> HIDE DEF at, B, More
<1>10. CASE B = {}
  <2>1. j = at
    BY <1>10 DEF Joined, BodyIs, NoPart, B
  <2>2. Cardinality(B) = 0
    BY <1>10, FS_EmptySet
  <2>3. j.len = Cardinality(Body(w, e)) /\ Body(w, e) = More
    BY <1>3, <1>5, <1>7, <1>10, <2>1, <2>2
  <2> QED
    BY <1>6, <1>7, <2>1, <2>3 DEF BodyIs, at
<1>11. CASE B # {}
  <2>1. /\ b.off + 1 \in B /\ \A i \in B : b.off + 1 <= i
        /\ b.len = Cardinality(B)
    BY <1>11 DEF BodyIs, B
  <2>2. b.off # 0
    BY <1>8, <1>9, <2>1
  <2>3. j = [off |-> b.off, len |-> b.len + at.len]
    BY <2>2 DEF Joined
  <2>4. j \in At /\ j.off = b.off /\ j.len = b.len + (e - m)
    BY <1>7, <1>8, <2>3 DEF At
  <2>5. j.len = Cardinality(Body(w, e))
    BY <1>3, <1>5, <2>1, <2>4
  <2>6. \A i \in More : b.off + 1 <= i
    <3>1. b.off + 1 \in 1 .. m
      BY <1>1, <2>1
    <3>2. b.off + 1 <= m /\ b.off \in Nat
      BY <1>8, <3>1
    <3> QED
      BY <3>2 DEF More
  <2>7. b.off + 1 \in Body(w, e) /\ \A i \in Body(w, e) : b.off + 1 <= i
    BY <1>3, <2>1, <2>6
  <2> QED
    BY <2>4, <2>5, <2>7 DEF BodyIs, at
<1> QED
  BY <1>10, <1>11

LEMMA BodyIsBodyOf ==
  ASSUME NEW w \in Seq(STRING), NEW n \in Nat, n <= Len(w), NEW b, BodyIs(b, w, n)
  PROVE  b = BodyOf(SubSeq(w, 1, n))
<1> DEFINE wire == SubSeq(w, 1, n)
           at == {p \in DOMAIN wire : PartOf(wire[p]) = "body"}
           first == CHOOSE p \in at : \A e \in at : p <= e
<1>1. DOMAIN wire = 1 .. n /\ \A p \in 1 .. n : wire[p] = w[p]
  BY SubSeqProperties
<1>2. at = Body(w, n)
  BY <1>1 DEF Body
<1>3. at \subseteq 1 .. n
  BY <1>1
<1>4. BodyOf(wire) = IF at = {} THEN NoPart ELSE [off |-> first - 1, len |-> Cardinality(at)]
  BY DEF BodyOf
<1> HIDE DEF at, wire
<1>5. CASE at = {}
  BY <1>2, <1>4, <1>5 DEF BodyIs, wire
<1>6. CASE at # {}
  <2>1. /\ b \in At /\ b.off + 1 \in at /\ \A i \in at : b.off + 1 <= i
        /\ b.len = Cardinality(at)
    BY <1>2, <1>6 DEF BodyIs
  <2>2. b.off \in Nat /\ b = [off |-> b.off, len |-> b.len]
    BY <2>1 DEF At
  <2>3. first \in at /\ \A e \in at : first <= e
    BY <2>1
  <2>4. first = b.off + 1
    <3>1. first \in 1 .. n
      BY <1>3, <2>3
    <3>2. first <= b.off + 1 /\ b.off + 1 <= first
      BY <2>1, <2>3
    <3> HIDE DEF first
    <3> QED
      BY <2>2, <3>1, <3>2
  <2> HIDE DEF first
  <2>5. first - 1 = b.off
    BY <2>2, <2>4
  <2> QED
    BY <1>4, <1>6, <2>1, <2>2, <2>5 DEF wire
<1> QED
  BY <1>5, <1>6

-----------------------------------------------------------------------------
(* One symbol.                                                             *)

LEMMA OpenPart ==
  ASSUME NEW w, NEW cuts, NEW base, NEW off,
         ReadSoFar(w, cuts, base, off), off < Len(w),
         NEW f \in Scans, Opened(f, w, cuts, base, off)
  PROVE  /\ f.part \in InHead => IsOpen(w, f.part, cuts, base, f.mark, off)
         /\ \A part \in InHead \ {f.part} : off > 0 => PartOf(w[off]) # part
<1>1. off \in Nat /\ off < Len(w) /\ base \in Nat /\ Len(w) \in Nat
  BY MessageFacts DEF ReadSoFar
<1>2. ASSUME f.part \in InHead
      PROVE  IsOpen(w, f.part, cuts, base, f.mark, off)
  <2>1. off > 0 /\ PartOf(w[off]) = f.part
    BY <1>2 DEF Opened
  <2>2. f.part # "none"
    BY <1>2 DEF InHead
  <2>3. f.mark \in base .. off /\ \A r \in f.mark + 1 .. off : PartOf(w[r]) = f.part
    BY <2>2 DEF Opened
  <2>4. f.mark < Len(w)
    BY <1>1, <2>3
  <2>5. f.mark \in Starts(w, f.part, cuts)
    BY <1>2, <2>4 DEF Opened
  <2> QED
    BY <2>1, <2>3, <2>5 DEF IsOpen
<1>3. \A part \in InHead \ {f.part} : off > 0 => PartOf(w[off]) # part
  BY DEF Opened
<1> QED
  BY <1>2, <1>3

\* Marked leaves the parts as they are among off + 1 symbols, but for the one
\* that is open, and for an empty value.
LEMMA MarkedNotes ==
  ASSUME NEW w, NEW cuts, NEW base, NEW off,
         ReadSoFar(w, cuts, base, off), off < Len(w),
         x.save \in BOOLEAN, NEW f, Noted(f, w, cuts, base, off)
  PROVE  LET sym == w[off + 1]
             part == PartOf(sym)
             g == Marked(f, sym, off)
             lim(p) == IF part = p THEN g.mark ELSE off + 1
         IN  /\ g \in Scans /\ g.part = part
             /\ g.msg.complete = f.msg.complete
             /\ part # "none" =>
                  /\ g.mark \in base .. off
                  /\ \A r \in g.mark + 1 .. off + 1 : PartOf(w[r]) = part
             /\ part \in InHead => g.mark \in Starts(w, part, cuts)
             /\ x.save =>
                  /\ Lists(g.msg.keys, w, "key", cuts, lim("key"), off + 1)
                  /\ sym # "w" => Lists(g.msg.vals, w, "val", cuts, lim("val"), off + 1)
                  /\ sym = "w" =>
                       Lists(Append(g.msg.vals, [off |-> off, len |-> 0]), w, "val", cuts,
                             off + 1, off + 1)
                  /\ x.side = "rqst" =>
                       IsLatest(g.msg.url, w, "url", cuts, lim("url"), off + 1)
                  /\ BodyIs(g.msg.body, w, lim("body"))
             /\ ~x.save =>
                  g.msg.keys = <<>> /\ g.msg.vals = <<>> /\ g.msg.body = NoPart
<1> DEFINE sym == w[off + 1]
           part == PartOf(sym)
           g == Marked(f, sym, off)
           c == Called(f, off)
           piece == [off |-> f.mark, len |-> off - f.mark]
<1>1. /\ off \in Nat /\ off < Len(w) /\ base \in Nat /\ Len(w) \in Nat /\ base <= off
      /\ off + 1 \in 1 .. Len(w)
  BY MessageFacts DEF ReadSoFar
<1>2. /\ f \in Scans /\ Opened(f, w, cuts, base, off) /\ PartsNoted(f, w, cuts, off)
      /\ f.mark \in Nat /\ f.part \in Parts
  BY DEF Noted, Scans
<1>3. /\ f.part \in InHead => IsOpen(w, f.part, cuts, base, f.mark, off)
      /\ \A p \in InHead \ {f.part} : off > 0 => PartOf(w[off]) # p
  BY <1>2, OpenPart
<1>4. /\ g \in Scans /\ g.part = part
      /\ part = f.part => g = f
      /\ part # f.part => g.msg = c.msg
      /\ part # f.part /\ part # "none" => g.mark = off
  <2>1. off \in Nat /\ f \in Scans
    BY <1>1, <1>2
  <2> HIDE DEF sym
  <2>2. /\ g \in Scans /\ g.part = part
        /\ part = f.part => g = f
        /\ part # f.part => g.msg = c.msg
        /\ part # f.part /\ g.part # "none" => g.mark = off
    BY <2>1, MarkedFacts
  <2> HIDE DEF g, part, c
  <2> QED
    BY <2>2
<1>5. /\ c.msg.complete = f.msg.complete
      /\ ~x.save => c.msg = f.msg
      /\ x.save =>
           /\ c.msg.keys = IF f.part = "key" THEN Append(f.msg.keys, piece) ELSE f.msg.keys
           /\ c.msg.vals = IF f.part = "val" THEN Append(f.msg.vals, piece) ELSE f.msg.vals
           /\ c.msg.url = IF f.part = "url" /\ x.side = "rqst" THEN piece ELSE f.msg.url
           /\ c.msg.body = IF f.part # "body" THEN f.msg.body ELSE Joined(f.msg.body, piece)
  BY <1>1, <1>2, CalledFacts
<1>6. {"key", "val", "url"} \subseteq InHead /\ "body" \notin InHead /\ "none" \notin InHead
  BY DEF InHead
<1> HIDE DEF g, c, piece, part
<1>7. g.msg.complete = f.msg.complete
  BY <1>4, <1>5
<1>8. ASSUME part # "none"
      PROVE  /\ g.mark \in base .. off
             /\ \A r \in g.mark + 1 .. off + 1 : PartOf(w[r]) = part
  <2>1. CASE part = f.part
    <3>1. f.mark \in base .. off /\ \A r \in f.mark + 1 .. off : PartOf(w[r]) = part
      BY <1>2, <1>8, <2>1 DEF Opened
    <3>2. PartOf(w[off + 1]) = part
      BY DEF part
    <3>3. \A r \in f.mark + 1 .. off + 1 : r \in f.mark + 1 .. off \/ r = off + 1
      BY <1>1, <1>2
    <3> QED
      BY <1>4, <2>1, <3>1, <3>2, <3>3
  <2>2. CASE part # f.part
    <3>1. g.mark = off
      BY <1>4, <1>8, <2>2
    <3>2. off \in base .. off /\ \A r \in off + 1 .. off + 1 : r = off + 1
      BY <1>1
    <3> QED
      BY <3>1, <3>2 DEF part
  <2> QED
    BY <2>1, <2>2
<1>9. ASSUME part \in InHead
      PROVE  g.mark \in Starts(w, part, cuts)
  <2>1. CASE part = f.part
    BY <1>3, <1>4, <1>9, <2>1 DEF IsOpen
  <2>2. CASE part # f.part
    <3>1. off > 0 => PartOf(w[off]) # part
      BY <1>3, <1>9, <2>2
    <3>2. off \in Starts(w, part, cuts)
      BY <1>9, <3>1, PartBegins DEF part
    <3> QED
      BY <1>4, <1>6, <1>9, <2>2, <3>2
  <2> QED
    BY <2>1, <2>2
<1>10. ASSUME x.save
       PROVE  /\ Lists(f.msg.keys, w, "key", cuts, Limit(f, "key", off), off)
              /\ Lists(f.msg.vals, w, "val", cuts, Limit(f, "val", off), off)
              /\ x.side = "rqst" =>
                   IsLatest(f.msg.url, w, "url", cuts, Limit(f, "url", off), off)
              /\ BodyIs(f.msg.body, w, Limit(f, "body", off))
  BY <1>2, <1>10 DEF PartsNoted
<1>11. ASSUME x.save
       PROVE  Lists(g.msg.keys, w, "key", cuts, IF part = "key" THEN g.mark ELSE off + 1, off + 1)
  <2>1. CASE f.part = "key"
    <3>1. Lists(f.msg.keys, w, "key", cuts, f.mark, off)
      BY <1>10, <1>11, <2>1 DEF Limit
    <3>2. /\ Lists(f.msg.keys, w, "key", cuts, f.mark, off + 1)
          /\ part # "key" => Lists(Append(f.msg.keys, piece), w, "key", cuts, off + 1, off + 1)
      BY <1>3, <1>6, <2>1, <3>1, PartGoesOn DEF part, piece
    <3> QED
      BY <1>4, <1>5, <1>11, <2>1, <3>2
  <2>2. CASE f.part # "key"
    <3>1. Lists(f.msg.keys, w, "key", cuts, off, off)
      BY <1>10, <1>11, <2>2 DEF Limit
    <3>2. off > 0 => PartOf(w[off]) # "key"
      BY <1>3, <1>6, <2>2
    <3>3. /\ Lists(f.msg.keys, w, "key", cuts, off, off + 1)
          /\ part # "key" => Lists(f.msg.keys, w, "key", cuts, off + 1, off + 1)
      BY <1>6, <3>1, <3>2, PartBegins DEF part
    <3>4. g.msg.keys = f.msg.keys
      BY <1>4, <1>5, <1>11, <2>2
    <3> QED
      BY <1>4, <2>2, <3>3, <3>4
  <2> QED
    BY <2>1, <2>2
<1>12. ASSUME x.save, sym # "w"
       PROVE  Lists(g.msg.vals, w, "val", cuts, IF part = "val" THEN g.mark ELSE off + 1, off + 1)
  <2>1. CASE f.part = "val"
    <3>1. Lists(f.msg.vals, w, "val", cuts, f.mark, off)
      BY <1>10, <1>12, <2>1 DEF Limit
    <3>2. /\ Lists(f.msg.vals, w, "val", cuts, f.mark, off + 1)
          /\ part # "val" => Lists(Append(f.msg.vals, piece), w, "val", cuts, off + 1, off + 1)
      BY <1>3, <1>6, <2>1, <3>1, PartGoesOn DEF part, piece
    <3> QED
      BY <1>4, <1>5, <1>12, <2>1, <3>2
  <2>2. CASE f.part # "val"
    <3>1. Lists(f.msg.vals, w, "val", cuts, off, off)
      BY <1>10, <1>12, <2>2 DEF Limit
    <3>2. off > 0 => PartOf(w[off]) # "val"
      BY <1>3, <1>6, <2>2
    <3>3. /\ Lists(f.msg.vals, w, "val", cuts, off, off + 1)
          /\ part # "val" => Lists(f.msg.vals, w, "val", cuts, off + 1, off + 1)
      BY <1>6, <1>12, <3>1, <3>2, PartBegins DEF part
    <3>4. g.msg.vals = f.msg.vals
      BY <1>4, <1>5, <1>12, <2>2
    <3> QED
      BY <1>4, <2>2, <3>3, <3>4
  <2> QED
    BY <2>1, <2>2
<1>13. ASSUME x.save, sym = "w"
       PROVE  Lists(Append(g.msg.vals, [off |-> off, len |-> 0]), w, "val", cuts,
                    off + 1, off + 1)
  <2>1. (off + 1) - 1 = off
    BY <1>1
  <2>2. w[off] = "c" /\ off > 0
    BY <1>1, <1>13, <2>1, MessageFacts DEF ReadSoFar
  <2>3. PartOf(w[off]) # "val"
    BY <2>2, PartFacts
  <2>4. f.part # "val"
    BY <1>2, <1>6, <2>3 DEF Opened
  <2>5. Lists(f.msg.vals, w, "val", cuts, off, off)
    BY <1>10, <1>13, <2>4 DEF Limit
  <2>6. Lists(Append(f.msg.vals, [off |-> off, len |-> 0]), w, "val", cuts, off + 1, off + 1)
    BY <1>6, <1>13, <2>3, <2>5, PartBegins
  <2>7. g.msg.vals = f.msg.vals
    BY <1>4, <1>5, <1>13, <2>4
  <2> QED
    BY <2>6, <2>7
<1>14. ASSUME x.save, x.side = "rqst"
       PROVE  IsLatest(g.msg.url, w, "url", cuts, IF part = "url" THEN g.mark ELSE off + 1, off + 1)
  <2>1. CASE f.part = "url"
    <3>1. IsLatest(f.msg.url, w, "url", cuts, f.mark, off)
      BY <1>10, <1>14, <2>1 DEF Limit
    <3>2. /\ IsLatest(f.msg.url, w, "url", cuts, f.mark, off + 1)
          /\ part # "url" => IsLatest(piece, w, "url", cuts, off + 1, off + 1)
      BY <1>3, <1>6, <2>1, <3>1, PartGoesOn DEF part, piece
    <3> QED
      BY <1>4, <1>5, <1>14, <2>1, <3>2
  <2>2. CASE f.part # "url"
    <3>1. IsLatest(f.msg.url, w, "url", cuts, off, off)
      BY <1>10, <1>14, <2>2 DEF Limit
    <3>2. off > 0 => PartOf(w[off]) # "url"
      BY <1>3, <1>6, <2>2
    <3>3. /\ IsLatest(f.msg.url, w, "url", cuts, off, off + 1)
          /\ part # "url" => IsLatest(f.msg.url, w, "url", cuts, off + 1, off + 1)
      BY <1>6, <3>1, <3>2, PartBegins DEF part
    <3>4. g.msg.url = f.msg.url
      BY <1>4, <1>5, <1>14, <2>2
    <3> QED
      BY <1>4, <2>2, <3>3, <3>4
  <2> QED
    BY <2>1, <2>2
<1>15. ASSUME x.save
       PROVE  BodyIs(g.msg.body, w, IF part = "body" THEN g.mark ELSE off + 1)
  <2>1. CASE f.part = "body"
    <3>1. BodyIs(f.msg.body, w, f.mark)
      BY <1>10, <1>15, <2>1 DEF Limit
    <3>2. f.mark \in base .. off /\ f.mark # off /\ \A r \in f.mark + 1 .. off : PartOf(w[r]) = "body"
      BY <1>2, <2>1 DEF Opened
    <3>3. f.mark < off
      BY <1>1, <3>2
    <3>4. PartOf(w[1]) # "body"
      BY MessageFacts, PartFacts DEF ReadSoFar
    <3>5. BodyIs(Joined(f.msg.body, piece), w, off)
      BY <1>1, <1>2, <3>1, <3>2, <3>3, <3>4, BodyJoined DEF piece
    <3>6. part # "body" => BodyIs(Joined(f.msg.body, piece), w, off + 1)
      BY <1>1, <3>5, BodyStays DEF part
    <3> QED
      BY <1>4, <1>5, <1>15, <2>1, <3>1, <3>6
  <2>2. CASE f.part # "body"
    <3>1. BodyIs(f.msg.body, w, off)
      BY <1>10, <1>15, <2>2 DEF Limit
    <3>2. g.msg.body = f.msg.body
      BY <1>4, <1>5, <1>15, <2>2
    <3>3. part # "body" => BodyIs(f.msg.body, w, off + 1)
      BY <1>1, <3>1, BodyStays DEF part
    <3> QED
      BY <1>4, <2>2, <3>1, <3>2, <3>3
  <2> QED
    BY <2>1, <2>2
<1>16. ~x.save => g.msg.keys = <<>> /\ g.msg.vals = <<>> /\ g.msg.body = NoPart
  BY <1>2, <1>4, <1>5 DEF PartsNoted
<1> QED
  BY <1>4, <1>7, <1>8, <1>9, <1>11, <1>12, <1>13, <1>14, <1>15, <1>16 DEF g, part

\* One more symbol is parsed as it was sent.
LEMMA SymbolNoted ==
  ASSUME NEW w, NEW cuts, NEW base, NEW off,
         ReadSoFar(w, cuts, base, off), off < Len(w),
         x.save \in BOOLEAN, NEW f, Noted(f, w, cuts, base, off)
  PROVE  Noted(Parsed(f, w[off + 1], off), w, cuts, base, off + 1)
<1> DEFINE sym == w[off + 1]
           part == PartOf(sym)
           g == Marked(f, sym, off)
           e == Parsed(f, sym, off)
           lim(p) == IF part = p THEN g.mark ELSE off + 1
<1>1. /\ off \in Nat /\ off < Len(w) /\ base \in Nat /\ Len(w) \in Nat /\ base <= off
      /\ off + 1 \in 1 .. Len(w) /\ off + 1 \in Nat /\ sym \in STRING
      /\ base <= off + 1 /\ off + 1 > 0 /\ off + 1 # base
  BY MessageFacts DEF ReadSoFar
<1>2. /\ g \in Scans /\ g.part = part
      /\ g.msg.complete = f.msg.complete
      /\ part # "none" =>
           /\ g.mark \in base .. off
           /\ \A r \in g.mark + 1 .. off + 1 : PartOf(w[r]) = part
      /\ part \in InHead => g.mark \in Starts(w, part, cuts)
      /\ x.save =>
           /\ Lists(g.msg.keys, w, "key", cuts, lim("key"), off + 1)
           /\ sym # "w" => Lists(g.msg.vals, w, "val", cuts, lim("val"), off + 1)
           /\ sym = "w" =>
                Lists(Append(g.msg.vals, [off |-> off, len |-> 0]), w, "val", cuts,
                      off + 1, off + 1)
           /\ x.side = "rqst" => IsLatest(g.msg.url, w, "url", cuts, lim("url"), off + 1)
           /\ BodyIs(g.msg.body, w, lim("body"))
      /\ ~x.save => g.msg.keys = <<>> /\ g.msg.vals = <<>> /\ g.msg.body = NoPart
  BY MarkedNotes
<1>3. f.msg.complete <=> \E r \in 1 .. off : Completes(w[r])
  BY DEF Noted
<1>4. (\E r \in 1 .. off + 1 : Completes(w[r])) <=> f.msg.complete \/ Completes(sym)
  <2>1. \A r \in 1 .. off + 1 : r \in 1 .. off \/ r = off + 1
    BY <1>1
  <2>2. off + 1 \in 1 .. off + 1 /\ \A r \in 1 .. off : r \in 1 .. off + 1
    BY <1>1
  <2> QED
    BY <1>3, <2>1, <2>2
<1>5. part \in Parts /\ x.save \in BOOLEAN
  BY PartFacts
<1>6. f.msg.complete \in BOOLEAN /\ g.mark \in Nat
  BY <1>2 DEF Noted, Scans, Msgs
<1> HIDE DEF e, g, sym
\* What is left to show, by what e is.
<1> DEFINE Known ==
      /\ e \in Scans
      /\ e.part = part \/ (e.part = "none" /\ part \notin InHead)
      /\ e.part # "none" => e.mark = g.mark
      /\ e.msg.complete <=> f.msg.complete \/ Completes(sym)
      /\ x.save => /\ Lists(e.msg.keys, w, "key", cuts, Limit(e, "key", off + 1), off + 1)
                   /\ Lists(e.msg.vals, w, "val", cuts, Limit(e, "val", off + 1), off + 1)
                   /\ x.side = "rqst" =>
                        IsLatest(e.msg.url, w, "url", cuts, Limit(e, "url", off + 1), off + 1)
                   /\ BodyIs(e.msg.body, w, Limit(e, "body", off + 1))
      /\ ~x.save => e.msg.keys = <<>> /\ e.msg.vals = <<>> /\ e.msg.body = NoPart
<1>7. ASSUME Known
      PROVE  Noted(e, w, cuts, base, off + 1)
  <2>1. \A p \in InHead : e.part = p <=> off + 1 > 0 /\ PartOf(w[off + 1]) = p
    BY <1>1, <1>7 DEF sym, InHead
  <2>2. ASSUME e.part # "none"
        PROVE  /\ e.mark \in base .. off + 1 /\ e.mark # off + 1
               /\ \A r \in e.mark + 1 .. off + 1 : PartOf(w[r]) = e.part
               /\ e.part = part
    <3>1. e.part = part /\ e.mark = g.mark
      BY <1>7, <2>2
    <3>2. g.mark \in base .. off
      BY <1>2, <2>2, <3>1
    <3>3. g.mark \in base .. off + 1 /\ g.mark # off + 1
      BY <1>1, <3>2
    <3> QED
      BY <1>2, <2>2, <3>1, <3>3
  <2>3. e.part \in InHead => e.mark \in Starts(w, e.part, cuts)
    <3>1. e.part \in InHead => e.part # "none"
      BY DEF InHead
    <3> QED
      BY <1>2, <1>7, <2>2, <3>1
  <2>4. Opened(e, w, cuts, base, off + 1)
    BY <2>1, <2>2, <2>3 DEF Opened
  <2>5. PartsNoted(e, w, cuts, off + 1)
    BY <1>7 DEF PartsNoted
  <2> QED
    BY <1>4, <1>7, <2>4, <2>5 DEF Noted
<1>a. Known => Noted(e, w, cuts, base, off + 1)
  BY <1>7
<1>8. ASSUME sym = "w"
      PROVE  Known
  <2> DEFINE m == [g EXCEPT !.part = "val", !.mark = off]
  <2>1. m \in Scans /\ m.part = "val" /\ m.mark = off /\ m.msg = g.msg
    BY <1>1, <1>2 DEF Scans, Parts, InHead
  <2>2. e = Called(m, off)
    BY <1>8 DEF Parsed, e, g
  <2>3. part = "none" /\ ~Completes(sym)
    BY <1>8, PartFacts DEF Completes
  <2> HIDE DEF m
  <2>4. /\ e \in Scans /\ e.part = "none" /\ e.msg.complete = m.msg.complete
        /\ ~x.save => e.msg = m.msg
        /\ x.save => /\ e.msg.keys = m.msg.keys
                     /\ e.msg.vals = Append(m.msg.vals, [off |-> m.mark, len |-> off - m.mark])
                     /\ e.msg.url = m.msg.url /\ e.msg.body = m.msg.body
    <3>1. m \in Scans /\ off \in Nat /\ m.part = "val"
      BY <1>1, <2>1
    <3> DEFINE c == Called(m, off)
               at == [off |-> m.mark, len |-> off - m.mark]
    <3>2. /\ c \in Scans /\ c.part = "none" /\ c.msg.complete = m.msg.complete
          /\ ~x.save => c.msg = m.msg
          /\ x.save => /\ c.msg.keys = m.msg.keys
                       /\ c.msg.vals = Append(m.msg.vals, at)
                       /\ c.msg.url = m.msg.url /\ c.msg.body = m.msg.body
      <4>1. m.part # "key" /\ m.part # "url" /\ m.part # "body"
        BY <3>1
      <4>2. /\ c \in Scans /\ c.part = "none" /\ c.msg.complete = m.msg.complete
            /\ ~x.save => c.msg = m.msg
            /\ x.save =>
                 /\ c.msg.keys = IF m.part = "key" THEN Append(m.msg.keys, at) ELSE m.msg.keys
                 /\ c.msg.vals = IF m.part = "val" THEN Append(m.msg.vals, at) ELSE m.msg.vals
                 /\ c.msg.url = IF m.part = "url" /\ x.side = "rqst" THEN at ELSE m.msg.url
                 /\ c.msg.body = IF m.part # "body" THEN m.msg.body ELSE Joined(m.msg.body, at)
        BY <3>1, CalledFacts
      <4> HIDE DEF c, at
      <4> QED
        BY <3>1, <4>1, <4>2
    <3> QED
      BY <2>2, <3>2
  <2>5. [off |-> m.mark, len |-> off - m.mark] = [off |-> off, len |-> 0]
    BY <1>1, <2>1
  <2>6. /\ Limit(e, "key", off + 1) = off + 1 /\ Limit(e, "val", off + 1) = off + 1
        /\ Limit(e, "url", off + 1) = off + 1 /\ Limit(e, "body", off + 1) = off + 1
    BY <2>4 DEF Limit
  <2>7. x.save => /\ Lists(e.msg.keys, w, "key", cuts, off + 1, off + 1)
                  /\ Lists(e.msg.vals, w, "val", cuts, off + 1, off + 1)
                  /\ x.side = "rqst" => IsLatest(e.msg.url, w, "url", cuts, off + 1, off + 1)
                  /\ BodyIs(e.msg.body, w, off + 1)
    BY <1>2, <1>8, <2>1, <2>3, <2>4, <2>5
  <2>8. ~x.save => e.msg.keys = <<>> /\ e.msg.vals = <<>> /\ e.msg.body = NoPart
    BY <1>2, <2>1, <2>4
  <2>9. e.msg.complete <=> f.msg.complete \/ Completes(sym)
    BY <1>2, <2>1, <2>3, <2>4
  <2>10. "none" \notin InHead
    BY DEF InHead
  <2> HIDE DEF part
  <2> QED
    BY <2>3, <2>4, <2>6, <2>7, <2>8, <2>9, <2>10
<1>9. ASSUME sym = "t"
      PROVE  Known
  <2> DEFINE c == Called(g, off + 1)
             piece == [off |-> g.mark, len |-> (off + 1) - g.mark]
  <2>1. e = OnMessageComplete(c)
    BY <1>9 DEF Parsed, e, g
  <2>2. part = "body" /\ Completes(sym) /\ "body" \notin InHead
    BY <1>9, PartFacts DEF Completes, InHead
  <2>3. /\ c \in Scans /\ c.part = "none" /\ c.msg \in Msgs
        /\ ~x.save => c.msg = g.msg
        /\ x.save => /\ c.msg.keys = g.msg.keys /\ c.msg.vals = g.msg.vals
                     /\ c.msg.url = g.msg.url
                     /\ c.msg.body = Joined(g.msg.body, piece)
    <3>1. c \in Scans
      BY <1>1, <1>2, CalledFacts
    <3>2. c.msg \in Msgs
      BY <3>1 DEF Scans
    <3> QED
      BY <1>1, <1>2, <2>2, <3>2, CalledFacts
  <2> HIDE DEF c, piece
  <2>4. /\ e \in Scans /\ e.part = "none" /\ e.msg.complete = TRUE
        /\ e.msg.keys = c.msg.keys /\ e.msg.vals = c.msg.vals
        /\ e.msg.url = c.msg.url /\ e.msg.body = c.msg.body
    BY <2>1, <2>3 DEF OnMessageComplete, Scans, Msgs
  <2>5. x.save => BodyIs(Joined(g.msg.body, piece), w, off + 1)
    <3>1. x.save => BodyIs(g.msg.body, w, g.mark)
      BY <1>2, <2>2
    <3>2. /\ g.mark \in base .. off /\ g.mark < off + 1
          /\ \A r \in g.mark + 1 .. off + 1 : PartOf(w[r]) = "body"
      BY <1>1, <1>2, <2>2
    <3>3. PartOf(w[1]) # "body"
      BY MessageFacts, PartFacts DEF ReadSoFar
    <3>4. off + 1 \in Nat /\ g.mark \in Nat
      BY <1>1, <1>6
    <3> DEFINE m == g.mark
               n == off + 1
               b == g.msg.body
    <3>5. piece = [off |-> m, len |-> n - m]
      BY DEF piece
    <3>6. m \in Nat /\ n \in Nat /\ m < n /\ \A r \in m + 1 .. n : PartOf(w[r]) = "body"
      BY <3>2, <3>4
    <3> HIDE DEF m, n, b, part
    <3>7. x.save => BodyIs(b, w, m)
      BY <3>1 DEF b, m
    <3>8. x.save => BodyIs(Joined(b, piece), w, n)
      BY <3>3, <3>5, <3>6, <3>7, BodyJoined
    <3> QED
      BY <3>8 DEF b, n
  <2>6. /\ Limit(e, "key", off + 1) = off + 1 /\ Limit(e, "val", off + 1) = off + 1
        /\ Limit(e, "url", off + 1) = off + 1 /\ Limit(e, "body", off + 1) = off + 1
    BY <2>4 DEF Limit
  <2>7. x.save => /\ Lists(e.msg.keys, w, "key", cuts, off + 1, off + 1)
                  /\ Lists(e.msg.vals, w, "val", cuts, off + 1, off + 1)
                  /\ x.side = "rqst" => IsLatest(e.msg.url, w, "url", cuts, off + 1, off + 1)
                  /\ BodyIs(e.msg.body, w, off + 1)
    BY <1>2, <1>9, <2>2, <2>3, <2>4, <2>5
  <2>8. ~x.save => e.msg.keys = <<>> /\ e.msg.vals = <<>> /\ e.msg.body = NoPart
    BY <1>2, <2>3, <2>4
  <2> HIDE DEF part
  <2> QED
    BY <2>2, <2>4, <2>6, <2>7, <2>8
<1>10. ASSUME sym # "w", sym # "t"
       PROVE  Known
  <2>1. e = IF Completes(sym) THEN OnMessageComplete(g) ELSE g
    BY <1>10 DEF Parsed, e, g, Completes
  <2>2. /\ e \in Scans /\ e.part = g.part /\ e.mark = g.mark
        /\ e.msg.keys = g.msg.keys /\ e.msg.vals = g.msg.vals
        /\ e.msg.url = g.msg.url /\ e.msg.body = g.msg.body
        /\ e.msg.complete = IF Completes(sym) THEN TRUE ELSE g.msg.complete
    <3>1. CASE Completes(sym)
      <4>1. e = OnMessageComplete(g)
        BY <2>1, <3>1
      <4> QED
        BY <1>2, <3>1, <4>1 DEF OnMessageComplete, Scans, Msgs
    <3>2. CASE ~Completes(sym)
      BY <1>2, <2>1, <3>2
    <3> QED
      BY <3>1, <3>2
  <2>3. \A p \in Parts : Limit(e, p, off + 1) = lim(p)
    BY <1>2, <2>2 DEF Limit
  <2>4. {"key", "val", "url", "body"} \subseteq Parts
    BY DEF Parts, InHead
  <2>5. x.save => /\ Lists(e.msg.keys, w, "key", cuts, Limit(e, "key", off + 1), off + 1)
                  /\ Lists(e.msg.vals, w, "val", cuts, Limit(e, "val", off + 1), off + 1)
                  /\ x.side = "rqst" =>
                       IsLatest(e.msg.url, w, "url", cuts, Limit(e, "url", off + 1), off + 1)
                  /\ BodyIs(e.msg.body, w, Limit(e, "body", off + 1))
    <3> HIDE DEF part
    <3> QED
      BY <1>2, <1>10, <2>2, <2>3, <2>4
  <2>6. ~x.save => e.msg.keys = <<>> /\ e.msg.vals = <<>> /\ e.msg.body = NoPart
    BY <1>2, <2>2
  <2>7. e.msg.complete <=> f.msg.complete \/ Completes(sym)
    BY <1>2, <1>6, <2>2
  <2>8. g.part = part
    BY <1>2
  <2> HIDE DEF part
  <2> QED
    BY <2>2, <2>5, <2>6, <2>7, <2>8
<1> HIDE DEF Known
<1>11. Known
  BY <1>8, <1>9, <1>10
<1> QED
  BY <1>a, <1>11 DEF e, sym

-----------------------------------------------------------------------------
(* A piece that was read.                                                  *)

\* A cut at off, where the reading is, changes nothing before.
LEMMA CutAtEnd ==
  ASSUME NEW w, NEW part, NEW cuts, NEW off \in Nat, Len(w) \in Nat, off <= Len(w),
         NEW m \in 0 .. off
  PROVE  /\ StartsBefore(w, part, cuts \union {off}, m) = StartsBefore(w, part, cuts, m)
         /\ \A at \in At : Closed(at, w, part, cuts, off) =>
              Closed(at, w, part, cuts \union {off}, off)
<1> DEFINE cuts2 == cuts \union {off}
<1>1. ASSUME NEW p \in Nat, p < off
      PROVE  p \in Starts(w, part, cuts2) <=> p \in Starts(w, part, cuts)
  <2>1. p \in cuts2 <=> p \in cuts
    BY <1>1
  <2> HIDE DEF cuts2
  <2> QED
    BY <2>1 DEF Starts
<1>2. \A c : \A p \in Starts(w, part, c) : p \in Nat
  BY DEF Starts
<1>3. StartsBefore(w, part, cuts2, m) = StartsBefore(w, part, cuts, m)
  <2>1. \A p \in Nat : p < m => p < off
    OBVIOUS
  <2> HIDE DEF cuts2
  <2> QED
    BY <1>1, <1>2, <2>1 DEF StartsBefore
<1>4. ASSUME NEW at \in At, Closed(at, w, part, cuts, off)
      PROVE  Closed(at, w, part, cuts2, off)
  <2> DEFINE p == at.off
             e == p + at.len
  <2>1. p \in Nat /\ e \in Int
    BY DEF At
  <2> HIDE DEF p, e
  <2>2. /\ p \in Starts(w, part, cuts) /\ p < off /\ e \in p .. off
        /\ \A r \in p + 1 .. e : PartOf(w[r]) = part /\ (r = e \/ r \notin cuts)
        /\ e \in cuts \ {p} \/ (e < off /\ PartOf(w[e + 1]) # part)
    BY <1>4 DEF Closed, p, e
  <2>3. \A r \in p + 1 .. e : r = e \/ r # off
    BY <2>1, <2>2
  <2>4. p \in Starts(w, part, cuts2)
    BY <1>1, <2>1, <2>2
  <2> QED
    BY <2>2, <2>3, <2>4 DEF Closed, p, e
<1> HIDE DEF cuts2
<1> QED
  BY <1>3, <1>4 DEF cuts2

\* The part that is open when the piece ends is cut there.
LEMMA PieceIsCut ==
  ASSUME NEW w, NEW part \in InHead, NEW cuts, NEW base, NEW m, NEW off,
         ReadSoFar(w, cuts, base, off), IsOpen(w, part, cuts, base, m, off), m < off
  PROVE  LET at == [off |-> m, len |-> off - m]
             cuts2 == cuts \union {off}
         IN  /\ \A ats : Lists(ats, w, part, cuts, m, off) =>
                  Lists(Append(ats, at), w, part, cuts2, off, off)
             /\ IsLatest(at, w, part, cuts2, off, off)
<1> DEFINE at == [off |-> m, len |-> off - m]
           cuts2 == cuts \union {off}
<1>1. /\ base \in Nat /\ off \in Nat /\ off <= Len(w) /\ m \in Nat /\ base <= m
      /\ Len(w) \in Nat /\ m \in Int /\ off \in Int /\ m \in 0 .. off
  BY MessageFacts DEF ReadSoFar, IsOpen
<1>2. at \in At /\ at.off = m /\ at.off + at.len = off
  BY <1>1 DEF At
<1> HIDE DEF at
<1>3. m \in Starts(w, part, cuts)
  BY DEF IsOpen
<1>4. m \in Starts(w, part, cuts2)
  BY <1>3 DEF Starts
<1>5. ASSUME NEW r \in m + 1 .. off
      PROVE  PartOf(w[r]) = part /\ (r = off \/ r \notin cuts2)
  <2>1. r > base /\ r \in Nat
    BY <1>1
  <2>2. r \notin cuts
    BY <1>1, <2>1 DEF ReadSoFar
  <2> QED
    BY <2>2 DEF IsOpen
<1>6. off \in m .. off /\ off \in cuts2 \ {m}
  BY <1>1
<1>7. Closed(at, w, part, cuts2, off)
  BY <1>2, <1>4, <1>5, <1>6 DEF Closed
<1>a. /\ StartsBefore(w, part, cuts2, off) = StartsBefore(w, part, cuts, off)
      /\ StartsBefore(w, part, cuts2, m) = StartsBefore(w, part, cuts, m)
      /\ \A e \in At : Closed(e, w, part, cuts, off) => Closed(e, w, part, cuts2, off)
  <2>1. off \in Nat /\ Len(w) \in Nat /\ off <= Len(w) /\ off \in 0 .. off
    BY <1>1
  <2>2. StartsBefore(w, part, cuts2, off) = StartsBefore(w, part, cuts, off)
    BY <2>1, CutAtEnd
  <2>3. StartsBefore(w, part, cuts2, m) = StartsBefore(w, part, cuts, m)
    BY <1>1, <2>1, CutAtEnd
  <2>4. \A e \in At : Closed(e, w, part, cuts, off) => Closed(e, w, part, cuts2, off)
    BY <2>1, CutAtEnd
  <2> HIDE DEF cuts2
  <2> QED
    BY <1>1, <2>2, <2>3, <2>4
<1> HIDE DEF cuts2
<1>8. \A p \in Starts(w, part, cuts2) : p < off => p <= m
  <2>1. ASSUME NEW p \in Starts(w, part, cuts2), p < off
        PROVE  p <= m
    <3>1. p \in Starts(w, part, cuts)
      BY <1>a, <2>1 DEF StartsBefore
    <3>2. p \in Nat
      BY <1>1, <2>1, StartFacts
    <3> QED
      BY <1>1, <2>1, <3>1, <3>2, NoStartInside
  <2> QED
    BY <2>1
<1>9. ASSUME NEW ats, Lists(ats, w, part, cuts, m, off)
      PROVE  Lists(Append(ats, at), w, part, cuts2, off, off)
  <2>1. Lists(ats, w, part, cuts2, m, off)
    BY <1>9, <1>a, ListsChange
  <2> QED
    BY <1>1, <1>2, <1>4, <1>7, <1>8, <2>1, ListsAppend
<1>10. IsLatest(at, w, part, cuts2, off, off)
  <2> QED
    BY <1>2, <1>7, <1>8, LatestAppend
<1> QED
  BY <1>9, <1>10 DEF at, cuts2

\* A piece that was parsed is noted as it was sent, and cut where a part was
\* open.
LEMMA PieceNoted ==
  ASSUME x.save \in BOOLEAN, Message(Wire), read \in Nat,
         NEW n \in Nat \ {0}, read + n <= Len(Wire),
         cut \subseteq 1 .. read, Noted(Begun, Wire, cut, read, read)
  PROVE  LET f == Execute(n)
             off == read + n
             cuts2 == IF f.part = "none" THEN cut ELSE cut \union {off}
         IN  /\ f.part \in Parts /\ f.part # "body" /\ f.msg \in Msgs
             /\ cuts2 \subseteq 1 .. off
             /\ Noted([part |-> f.part, mark |-> off, msg |-> f.msg], Wire, cuts2, off, off)
<1> DEFINE w == Wire
           off == read + n
           f == Execute(n)
           cuts2 == IF f.part = "none" THEN cut ELSE cut \union {off}
           g == [part |-> f.part, mark |-> off, msg |-> f.msg]
<1>1. /\ off \in Nat /\ read <= off /\ read < off /\ off <= Len(w) /\ Len(w) \in Nat
      /\ off \in 0 .. off /\ off > 0
  BY MessageFacts
<1>2. PICK s : ScanRun(s, n)
  <2>1. Begun \in Scans
    BY DEF Noted
  <2> QED
    BY <2>1, ScanTurns
<1>3. /\ s \in [0 .. n -> Scans] /\ s[0] = Begun
      /\ \A i \in 1 .. n : s[i] = Parsed(s[i - 1], w[read + i], read + i - 1)
      /\ Scanned(n) = s[n]
  BY <1>2 DEF ScanRun
<1>4. \A i \in 0 .. n : Noted(s[i], w, cut, read, read + i)
  <2> DEFINE S == {i \in 0 .. n : Noted(s[i], w, cut, read, read + i)}
  <2>1. 0 \in S
    <3>1. read + 0 = read /\ 0 \in 0 .. n
      OBVIOUS
    <3> HIDE DEF w
    <3>2. Noted(s[0], w, cut, read, read + 0)
      BY <1>3, <3>1 DEF w
    <3> QED
      BY <3>1, <3>2
  <2>2. ASSUME NEW i \in 0 .. n - 1, i \in S
        PROVE  i + 1 \in S
    <3> DEFINE at == read + i
    <3>1. /\ i + 1 \in 1 .. n /\ (i + 1) - 1 = i /\ i + 1 \in 0 .. n
          /\ read + (i + 1) = at + 1 /\ read + (i + 1) - 1 = at
          /\ at \in Nat /\ read <= at /\ at < Len(w) /\ at <= Len(w)
      BY <1>1
    <3>2. ReadSoFar(w, cut, read, at)
      BY <3>1 DEF ReadSoFar
    <3>3. Noted(s[i], w, cut, read, at)
      BY <2>2
    <3> HIDE DEF w, at
    <3>4. Noted(Parsed(s[i], w[at + 1], at), w, cut, read, at + 1)
      BY <3>1, <3>2, <3>3, SymbolNoted
    <3>5. s[i + 1] = Parsed(s[i], w[at + 1], at)
      BY <1>3, <3>1
    <3> QED
      BY <3>1, <3>4, <3>5
  <2> HIDE DEF S
  <2>3. 0 .. n \subseteq S
    BY <2>1, <2>2, UpTo
  <2> QED
    BY <2>3 DEF S
<1> DEFINE z == s[n]
           c == Called(z, off)
           piece == [off |-> z.mark, len |-> off - z.mark]
<1>5. Noted(z, w, cut, read, off)
  BY <1>4
<1>6. /\ f.part = IF z.part = "body" THEN "none" ELSE z.part
      /\ f.msg = c.msg
  <2>1. (CHOOSE e \in {Scanned(n)} : TRUE) = z
    BY <1>3
  <2> QED
    BY <2>1 DEF Execute
<1> HIDE DEF w, f, z, c
<1>7. /\ z \in Scans /\ Opened(z, w, cut, read, off) /\ PartsNoted(z, w, cut, off)
      /\ z.msg.complete <=> \E r \in 1 .. off : Completes(w[r])
      /\ z.mark \in Nat /\ z.part \in Parts
  BY <1>5 DEF Noted, Scans
<1>8. /\ c \in Scans /\ c.msg \in Msgs
      /\ c.msg.complete = z.msg.complete
      /\ ~x.save => c.msg = z.msg
      /\ x.save =>
           /\ c.msg.keys = IF z.part = "key" THEN Append(z.msg.keys, piece) ELSE z.msg.keys
           /\ c.msg.vals = IF z.part = "val" THEN Append(z.msg.vals, piece) ELSE z.msg.vals
           /\ c.msg.url = IF z.part = "url" /\ x.side = "rqst" THEN piece ELSE z.msg.url
           /\ c.msg.body = IF z.part # "body" THEN z.msg.body ELSE Joined(z.msg.body, piece)
  <2>1. c \in Scans
    BY <1>1, <1>7, CalledFacts DEF c
  <2>2. c.msg \in Msgs
    BY <2>1 DEF Scans
  <2>3. /\ c.msg.complete = z.msg.complete
        /\ ~x.save => c.msg = z.msg
        /\ x.save =>
           /\ c.msg.keys = IF z.part = "key" THEN Append(z.msg.keys, piece) ELSE z.msg.keys
           /\ c.msg.vals = IF z.part = "val" THEN Append(z.msg.vals, piece) ELSE z.msg.vals
           /\ c.msg.url = IF z.part = "url" /\ x.side = "rqst" THEN piece ELSE z.msg.url
           /\ c.msg.body = IF z.part # "body" THEN z.msg.body ELSE Joined(z.msg.body, piece)
    BY <1>1, <1>7, CalledFacts DEF c
  <2> QED
    BY <2>1, <2>2, <2>3
<1>9. "body" \notin InHead /\ "none" \notin InHead /\ {"key", "val", "url"} \subseteq InHead
      /\ "none" \in Parts
  BY DEF InHead, Parts
<1>10. f.part \in Parts /\ f.part # "body" /\ f.msg \in Msgs
       /\ \A part \in InHead : f.part = part <=> z.part = part
  BY <1>6, <1>7, <1>8, <1>9
\* The part that is open began in this piece, or the piece did with it.
<1>11. z.part # "none" => /\ z.mark < off
                          /\ \A r \in z.mark + 1 .. off : PartOf(w[r]) = z.part
  <2>1. z.part # "none" =>
          /\ z.mark \in read .. off
          /\ \A r \in z.mark + 1 .. off : PartOf(w[r]) = z.part
          /\ z.mark = off => off = read
    BY <1>7 DEF Opened
  <2> QED
    BY <1>1, <1>7, <2>1
<1>12. ASSUME z.part \in InHead
       PROVE  IsOpen(w, z.part, cut, read, z.mark, off)
  <2>1. z.part # "none" /\ off > 0 /\ PartOf(w[off]) = z.part /\ z.mark < Len(w)
    BY <1>1, <1>7, <1>9, <1>11, <1>12 DEF Opened
  <2>2. z.mark \in read .. off /\ z.mark \in Starts(w, z.part, cut)
    BY <1>7, <1>12, <2>1 DEF Opened
  <2> QED
    BY <1>11, <2>1, <2>2 DEF IsOpen
<1>13. ReadSoFar(w, cut, read, off)
  BY <1>1 DEF ReadSoFar, w
<1> HIDE DEF off, piece
<1>14. /\ cuts2 \subseteq 1 .. off
       /\ f.part # "none" => off \in cuts2
       /\ f.part # "none" => cuts2 = cut \union {off}
       /\ f.part = "none" => cuts2 = cut
  BY <1>1 DEF off
<1>15. /\ \A part : StartsBefore(w, part, cuts2, off) = StartsBefore(w, part, cut, off)
       /\ \A part : \A at \in At : Closed(at, w, part, cut, off) => Closed(at, w, part, cuts2, off)
  <2>1. CASE f.part = "none"
    BY <1>14, <2>1
  <2>2. CASE f.part # "none"
    BY <1>1, <1>14, <2>2, CutAtEnd
  <2> QED
    BY <2>1, <2>2
<1> HIDE DEF cuts2
<1>16. ASSUME x.save
       PROVE  /\ Lists(z.msg.keys, w, "key", cut, Limit(z, "key", off), off)
              /\ Lists(z.msg.vals, w, "val", cut, Limit(z, "val", off), off)
              /\ x.side = "rqst" =>
                   IsLatest(z.msg.url, w, "url", cut, Limit(z, "url", off), off)
              /\ BodyIs(z.msg.body, w, Limit(z, "body", off))
  BY <1>7, <1>16 DEF PartsNoted
<1>17. ASSUME x.save
       PROVE  Lists(f.msg.keys, w, "key", cuts2, off, off)
  <2>1. CASE z.part = "key"
    <3>1. Lists(z.msg.keys, w, "key", cut, z.mark, off)
      BY <1>16, <1>17, <2>1 DEF Limit
    <3>2. Lists(Append(z.msg.keys, piece), w, "key", cut \union {off}, off, off)
      BY <1>9, <1>11, <1>12, <1>13, <2>1, <3>1, PieceIsCut DEF piece
    <3>3. cuts2 = cut \union {off}
      BY <1>9, <1>10, <1>14, <2>1
    <3> QED
      BY <1>6, <1>8, <1>17, <2>1, <3>2, <3>3
  <2>2. CASE z.part # "key"
    <3>1. Lists(z.msg.keys, w, "key", cut, off, off)
      BY <1>16, <1>17, <2>2 DEF Limit
    <3>2. Lists(z.msg.keys, w, "key", cuts2, off, off)
      BY <1>15, <3>1, ListsChange
    <3> QED
      BY <1>6, <1>8, <1>17, <2>2, <3>2
  <2> QED
    BY <2>1, <2>2
<1>18. ASSUME x.save
       PROVE  Lists(f.msg.vals, w, "val", cuts2, off, off)
  <2>1. CASE z.part = "val"
    <3>1. Lists(z.msg.vals, w, "val", cut, z.mark, off)
      BY <1>16, <1>18, <2>1 DEF Limit
    <3>2. Lists(Append(z.msg.vals, piece), w, "val", cut \union {off}, off, off)
      BY <1>9, <1>11, <1>12, <1>13, <2>1, <3>1, PieceIsCut DEF piece
    <3>3. cuts2 = cut \union {off}
      BY <1>9, <1>10, <1>14, <2>1
    <3> QED
      BY <1>6, <1>8, <1>18, <2>1, <3>2, <3>3
  <2>2. CASE z.part # "val"
    <3>1. Lists(z.msg.vals, w, "val", cut, off, off)
      BY <1>16, <1>18, <2>2 DEF Limit
    <3>2. Lists(z.msg.vals, w, "val", cuts2, off, off)
      BY <1>15, <3>1, ListsChange
    <3> QED
      BY <1>6, <1>8, <1>18, <2>2, <3>2
  <2> QED
    BY <2>1, <2>2
<1>19. ASSUME x.save, x.side = "rqst"
       PROVE  IsLatest(f.msg.url, w, "url", cuts2, off, off)
  <2>1. CASE z.part = "url"
    <3>1. IsLatest(piece, w, "url", cut \union {off}, off, off)
      BY <1>9, <1>11, <1>12, <1>13, <2>1, PieceIsCut DEF piece
    <3>2. cuts2 = cut \union {off}
      BY <1>9, <1>10, <1>14, <2>1
    <3> QED
      BY <1>6, <1>8, <1>19, <2>1, <3>1, <3>2
  <2>2. CASE z.part # "url"
    <3>1. IsLatest(z.msg.url, w, "url", cut, off, off)
      BY <1>16, <1>19, <2>2 DEF Limit
    <3>2. Closed(z.msg.url, w, "url", cut, off) => Closed(z.msg.url, w, "url", cuts2, off)
      BY <1>15, <3>1 DEF IsLatest
    <3>3. IsLatest(z.msg.url, w, "url", cuts2, off, off)
      BY <1>15, <3>1, <3>2, LatestChange
    <3> QED
      BY <1>6, <1>8, <1>19, <2>2, <3>3
  <2> QED
    BY <2>1, <2>2
<1>20. ASSUME x.save
       PROVE  BodyIs(f.msg.body, w, off)
  <2>1. CASE z.part = "body"
    <3>1. BodyIs(z.msg.body, w, z.mark)
      BY <1>16, <1>20, <2>1 DEF Limit
    <3>2. z.mark < off /\ \A r \in z.mark + 1 .. off : PartOf(w[r]) = "body"
      BY <1>11, <2>1
    <3>3. PartOf(w[1]) # "body"
      BY <1>13, MessageFacts, PartFacts DEF ReadSoFar
    <3>4. z.mark \in Nat /\ off \in Nat
      BY <1>1, <1>7 DEF off
    <3>5. BodyIs(Joined(z.msg.body, piece), w, off)
      BY <3>1, <3>2, <3>3, <3>4, BodyJoined DEF piece
    <3> QED
      BY <1>6, <1>8, <1>20, <2>1, <3>5
  <2>2. CASE z.part # "body"
    <3>1. BodyIs(z.msg.body, w, off)
      BY <1>16, <1>20, <2>2 DEF Limit
    <3> QED
      BY <1>6, <1>8, <1>20, <2>2, <3>1
  <2> QED
    BY <2>1, <2>2
<1>21. ~x.save => f.msg.keys = <<>> /\ f.msg.vals = <<>> /\ f.msg.body = NoPart
  BY <1>6, <1>7, <1>8 DEF PartsNoted
<1>22. g \in Scans /\ g.part = f.part /\ g.mark = off /\ g.msg = f.msg
  BY <1>1, <1>10 DEF Scans, off
<1> HIDE DEF g
<1>23. PartsNoted(g, w, cuts2, off)
  <2>1. /\ Limit(g, "key", off) = off /\ Limit(g, "val", off) = off
        /\ Limit(g, "url", off) = off /\ Limit(g, "body", off) = off
    BY <1>22 DEF Limit
  <2> QED
    BY <1>17, <1>18, <1>19, <1>20, <1>21, <1>22, <2>1 DEF PartsNoted
<1>24. Opened(g, w, cuts2, off, off)
  <2>1. \A part \in InHead : g.part = part <=> off > 0 /\ PartOf(w[off]) = part
    BY <1>7, <1>10, <1>22 DEF Opened
  <2>2. off \in off .. off /\ off + 1 .. off = {}
    BY <1>1 DEF off
  <2>3. ASSUME g.part # "none"
        PROVE  /\ g.mark \in off .. off
               /\ \A r \in g.mark + 1 .. off : PartOf(w[r]) = g.part
               /\ g.part # "body" /\ off = off /\ off \in cuts2
    BY <1>10, <1>14, <1>22, <2>2, <2>3
  <2>4. ASSUME g.part \in InHead, g.mark < Len(w)
        PROVE  g.mark \in Starts(w, g.part, cuts2)
    <3>1. off \in 0 .. Len(w) - 1
      BY <1>1, <1>22, <2>4 DEF off
    <3>2. PartOf(w[off]) = g.part
      BY <2>1, <2>4
    <3>3. off \in cuts2
      BY <1>9, <1>14, <1>22, <2>4
    <3>4. off \in Starts(w, g.part, cuts2)
      BY <3>1, <3>2, <3>3, IsStart
    <3> QED
      BY <1>22, <3>4
  <2> QED
    BY <2>1, <2>3, <2>4 DEF Opened
<1>25. g.msg.complete <=> \E r \in 1 .. off : Completes(w[r])
  BY <1>6, <1>7, <1>8, <1>22
<1>26. Noted(g, w, cuts2, off, off)
  BY <1>22, <1>23, <1>24, <1>25 DEF Noted
<1> QED
  BY <1>10, <1>14, <1>26 DEF f, w, off, cuts2, g

-----------------------------------------------------------------------------
(* What the invariant says of a message that is complete, or read.         *)

LEMMA ExchangeFacts ==
  ASSUME x \in Exchanges, nth \in Nat \ {0}
  PROVE  /\ x.save \in BOOLEAN /\ x.side \in {"rqst", "resp"} /\ x.patient \in BOOLEAN
         /\ Len(x.wires) \in Nat \ {0}
         /\ nth <= Len(x.wires) =>
              /\ Message(Wire) /\ Len(Wire) \in Nat \ {0}
              /\ x.side = "rqst" => x.save /\ Request(Wire)
              /\ x.side = "resp" => Response(Wire)
<1>1. /\ x \in [side : {"rqst", "resp"}, save : BOOLEAN, patient : BOOLEAN,
                wires : Seq(Seq(STRING))]
      /\ x.wires # <<>>
      /\ \A i \in DOMAIN x.wires :
           IF x.side = "rqst" THEN x.save /\ Request(x.wires[i]) ELSE Response(x.wires[i])
  BY ExchangesAssumption
<1>2. /\ x.save \in BOOLEAN /\ x.side \in {"rqst", "resp"} /\ x.patient \in BOOLEAN
      /\ x.wires \in Seq(Seq(STRING)) /\ Len(x.wires) \in Nat \ {0}
  BY <1>1
<1>3. ASSUME nth <= Len(x.wires)
      PROVE  /\ x.side = "rqst" => x.save /\ Request(Wire)
             /\ x.side = "resp" => Response(Wire)
  <2>1. nth \in DOMAIN x.wires
    BY <1>2, <1>3
  <2> QED
    BY <1>1, <2>1 DEF Wire
<1>4. nth <= Len(x.wires) => Message(Wire)
  BY <1>2, <1>3 DEF Request, Response
<1>5. nth <= Len(x.wires) => Len(Wire) \in Nat \ {0}
  BY <1>4, MessageFacts
<1> QED
  BY <1>2, <1>3, <1>4, <1>5

\* What is read of a message that is being sent.
LEMMA PlaceFacts ==
  ASSUME MsgTypes, InPlace, nth <= Len(x.wires)
  PROVE  /\ x.save \in BOOLEAN /\ x.side \in {"rqst", "resp"}
         /\ Message(Wire) /\ Len(Wire) \in Nat \ {0}
         /\ x.side = "rqst" => x.save /\ Request(Wire)
         /\ x.side = "resp" => Response(Wire)
         /\ sent <= Len(Wire) /\ read <= sent /\ read <= Len(Wire)
         /\ cut \subseteq 1 .. read /\ Noted(Begun, Wire, cut, read, read)
         /\ h.complete <=> \E r \in 1 .. read : Completes(Wire[r])
<1>1. x \in Exchanges /\ nth \in Nat \ {0} /\ sent \in Nat /\ read \in Nat
  BY DEF MsgTypes
<1>2. /\ x.save \in BOOLEAN /\ x.side \in {"rqst", "resp"}
      /\ Message(Wire) /\ Len(Wire) \in Nat \ {0}
      /\ x.side = "rqst" => x.save /\ Request(Wire)
      /\ x.side = "resp" => Response(Wire)
  BY <1>1, ExchangeFacts
<1>3. /\ sent <= Len(Wire) /\ read <= sent
      /\ cut \subseteq 1 .. read /\ Noted(Begun, Wire, cut, read, read)
  BY DEF InPlace
<1>4. h.complete <=> \E r \in 1 .. read : Completes(Wire[r])
  BY <1>3 DEF Noted, Begun
<1> QED
  BY <1>1, <1>2, <1>3, <1>4

\* A message is complete when it is read to its end, or to the end of an interim
\* response, and a request only then.
LEMMA CompleteIsWhole ==
  ASSUME MsgTypes, InPlace, h.complete
  PROVE  /\ nth <= Len(x.wires)
         /\ read = Len(Wire) \/ (x.side = "resp" /\ Interim(Wire))
<1>1. x \in Exchanges /\ nth \in Nat \ {0} /\ read \in Nat
  BY DEF MsgTypes
<1>2. nth <= Len(x.wires)
  BY DEF InPlace
<1>3. PICK r \in 1 .. read : Completes(Wire[r])
  BY <1>2, PlaceFacts
<1>4. Message(Wire) /\ Len(Wire) \in Nat /\ read <= Len(Wire) /\ r \in 1 .. Len(Wire)
  BY <1>1, <1>2, PlaceFacts
<1>5. Wire[r] \in MsgEnd \/ Wire[r] = "i"
  BY <1>3 DEF Completes, MsgEnd
<1>6. CASE Wire[r] \in MsgEnd
  <2>1. r = Len(Wire)
    BY <1>4, <1>6, MessageFacts
  <2> QED
    BY <1>1, <1>2, <1>4, <2>1
<1>7. CASE Wire[r] = "i"
  <2>1. Wire \in Seq(STRING) /\ r \in DOMAIN Wire
    BY <1>4, MessageFacts
  <2>2. x.side # "rqst"
    BY <1>2, <1>7, <2>1, PlaceFacts DEF Request
  <2>3. x.side = "resp"
    BY <1>2, <2>2, PlaceFacts
  <2> QED
    BY <1>2, <1>7, <2>1, <2>3 DEF Interim
<1> QED
  BY <1>5, <1>6, <1>7

\* A message that was read to its end and is not complete ends with the
\* connection; a request is complete.
LEMMA WholeIsComplete ==
  ASSUME MsgTypes, InPlace, read > 0, read = Len(Wire), ~h.complete
  PROVE  x.side = "resp" /\ EndsWithConn(Wire)
<1>1. nth <= Len(x.wires)
  BY DEF InPlace, MsgTypes
<1>2. /\ x.side \in {"rqst", "resp"} /\ Len(Wire) \in Nat /\ read \in 1 .. read
      /\ x.save \in BOOLEAN
  BY <1>1, PlaceFacts
<1>3. ~Completes(Last(Wire))
  BY <1>1, <1>2, PlaceFacts DEF Last
<1>4. x.side # "rqst"
  BY <1>1, <1>3, PlaceFacts DEF Request, Completes, MsgEnd
<1>5. Last(Wire) \in MsgEnd \union {"b", "i"}
  BY <1>1, <1>2, <1>4, PlaceFacts DEF Response
<1>6. EndsWithConn(Wire)
  BY <1>2, <1>3, <1>5 DEF EndsWithConn, Completes, SkipsBody, MsgEnd
<1> QED
  BY <1>2, <1>4, <1>6

LEMMA WaitsForMore ==
  ASSUME MsgInv
  PROVE  pc = "wait" /\ read > 0 /\ read = Len(Wire) => EndsWithConn(Wire)
BY WholeIsComplete DEF MsgInv, TakenInTurn

-----------------------------------------------------------------------------
(* What the session sees is what was sent.                                 *)

\* The pieces among the first n symbols are those of what was read.
LEMMA StartsRead ==
  ASSUME NEW w \in Seq(STRING), NEW part, NEW cuts, NEW n \in Nat, n <= Len(w),
         cuts \subseteq 1 .. n
  PROVE  Starts(SubSeq(w, 1, n), part, cuts) = StartsBefore(w, part, cuts, n)
<1> DEFINE wire == SubSeq(w, 1, n)
<1>1. Len(wire) = n /\ \A p \in 1 .. n : wire[p] = w[p]
  BY SubSeqProperties
<1>2. Len(w) \in Nat
  OBVIOUS
<1> HIDE DEF wire
<1>3. ASSUME NEW p \in 0 .. n - 1
      PROVE  p \in Starts(wire, part, cuts) <=> p \in Starts(w, part, cuts)
  <2>1. /\ p \in 0 .. Len(wire) - 1 /\ p \in 0 .. Len(w) - 1
        /\ p + 1 \in 1 .. n /\ wire[p + 1] = w[p + 1]
        /\ p # 0 => wire[p] = w[p]
        /\ p \in cuts => p # 0
    BY <1>1, <1>2
  <2> QED
    BY <2>1 DEF Starts
<1>4. \A p \in Starts(wire, part, cuts) : p \in 0 .. n - 1
  BY <1>1 DEF Starts
<1>5. \A p \in Starts(w, part, cuts) : p < n => p \in 0 .. n - 1
  BY <1>2 DEF Starts
<1>6. \A p \in 0 .. n - 1 : p < n
  OBVIOUS
<1> QED
  BY <1>3, <1>4, <1>5, <1>6 DEF StartsBefore, wire

LEMMA ClosedIsPiece ==
  ASSUME NEW w \in Seq(STRING), NEW part, NEW cuts, NEW n \in Nat, n <= Len(w),
         cuts \subseteq 1 .. n, NEW at \in At, Closed(at, w, part, cuts, n)
  PROVE  IsPiece(at, SubSeq(w, 1, n), part, cuts)
<1> DEFINE wire == SubSeq(w, 1, n)
           p == at.off
           e == p + at.len
<1>1. Len(wire) = n /\ \A r \in 1 .. n : wire[r] = w[r]
  BY SubSeqProperties
<1>2. p \in Nat /\ e \in Int
  BY DEF At
<1> HIDE DEF p, e
<1>3. /\ p \in Starts(w, part, cuts) /\ p < n /\ e \in p .. n
      /\ \A r \in p + 1 .. e : PartOf(w[r]) = part /\ (r = e \/ r \notin cuts)
      /\ e \in cuts \ {p} \/ (e < n /\ PartOf(w[e + 1]) # part)
  BY DEF Closed, p, e
<1>4. p \in Starts(wire, part, cuts)
  <2>1. Starts(wire, part, cuts) = StartsBefore(w, part, cuts, n)
    BY StartsRead
  <2> HIDE DEF wire
  <2> QED
    BY <1>3, <2>1 DEF StartsBefore
<1> HIDE DEF wire
<1>5. \A r \in p + 1 .. e : PartOf(wire[r]) = part /\ (r = e \/ r \notin cuts)
  <2>1. \A r \in p + 1 .. e : r \in 1 .. n
    BY <1>2, <1>3
  <2> QED
    BY <1>1, <1>3, <2>1
<1>6. e \in cuts \ {p} \/ PartOf(wire[e + 1]) # part
  <2>1. e < n => e + 1 \in 1 .. n
    BY <1>2, <1>3
  <2> QED
    BY <1>1, <1>3, <2>1
<1> QED
  BY <1>1, <1>3, <1>4, <1>5, <1>6 DEF IsPiece, p, e, wire

LEMMA ListsArePieces ==
  ASSUME NEW w \in Seq(STRING), NEW part, NEW cuts, NEW n \in Nat, n <= Len(w),
         cuts \subseteq 1 .. n, NEW ats, Lists(ats, w, part, cuts, n, n)
  PROVE  ArePieces(ats, SubSeq(w, 1, n), part, cuts)
<1>1. /\ ats \in Seq(At)
      /\ {ats[i].off : i \in DOMAIN ats} = StartsBefore(w, part, cuts, n)
      /\ \A i \in DOMAIN ats : Closed(ats[i], w, part, cuts, n)
      /\ \A i, j \in DOMAIN ats : i < j => ats[i].off < ats[j].off
  BY DEF Lists
<1>2. \A i \in DOMAIN ats : ats[i] \in At
  BY <1>1
<1>3. \A i \in DOMAIN ats : IsPiece(ats[i], SubSeq(w, 1, n), part, cuts)
  BY <1>1, <1>2, ClosedIsPiece
<1>4. Starts(SubSeq(w, 1, n), part, cuts) = StartsBefore(w, part, cuts, n)
  BY StartsRead
<1> QED
  BY <1>1, <1>3, <1>4 DEF ArePieces

\* The first byte of the url, before which the method is.
LEMMA UrlBegins ==
  ASSUME NEW w, NEW cuts, Request(w)
  PROVE  \E p \in Starts(w, "url", cuts) : p > 0 /\ p < Len(w)
<1> DEFINE S == {i \in DOMAIN w : w[i] = "u"}
<1>1. /\ w \in Seq(STRING) /\ Len(w) \in Nat /\ w[1] = "m" /\ DOMAIN w = 1 .. Len(w)
      /\ S # {}
  BY MessageFacts DEF Request
<1>2. S \in SUBSET Nat
  BY <1>1
<1>3. PICK i \in S : \A j \in S : i <= j
  <2> HIDE DEF S
  <2> QED
    BY <1>1, <1>2, LeastNatural
<1>4. i \in 2 .. Len(w) /\ w[i] = "u"
  BY <1>1, <1>3
<1>5. i - 1 \notin S /\ i - 1 \in DOMAIN w
  <2>1. i - 1 \notin S
    <3> HIDE DEF S
    <3> QED BY <1>3, <1>4
  <2> QED
    BY <1>1, <1>4, <2>1
<1>6. PartOf(w[i - 1]) # "url"
  BY <1>5 DEF PartOf
<1>7. i - 1 \in 0 .. Len(w) - 1 /\ (i - 1) + 1 = i /\ i - 1 > 0 /\ i - 1 < Len(w)
  BY <1>1, <1>4
<1>8. i - 1 \in Starts(w, "url", cuts)
  BY <1>4, <1>6, <1>7, PartFacts, IsStart
<1> QED
  BY <1>7, <1>8

LEMMA LatestIsLastPiece ==
  ASSUME NEW w, Request(w), NEW cuts, cuts \subseteq 1 .. Len(w),
         NEW at, IsLatest(at, w, "url", cuts, Len(w), Len(w))
  PROVE  /\ at \in At /\ at.off > 0
         /\ Closed(at, w, "url", cuts, Len(w))
         /\ IsLastPiece(at, SubSeq(w, 1, Len(w)), "url", cuts)
<1>1. w \in Seq(STRING) /\ Len(w) \in Nat
  BY MessageFacts DEF Request
<1>2. PICK p \in Starts(w, "url", cuts) : p > 0 /\ p < Len(w)
  BY UrlBegins
<1>3. /\ at \in At /\ Closed(at, w, "url", cuts, Len(w))
      /\ \A e \in Starts(w, "url", cuts) : e < Len(w) => e <= at.off
  BY <1>2 DEF IsLatest
<1>4. at.off > 0
  <2>1. p \in Int /\ at.off \in Int /\ p <= at.off
    BY <1>2, <1>3, StartFacts DEF At
  <2> QED
    BY <1>2, <2>1
<1> DEFINE n == Len(w)
<1>a. n \in Nat /\ n <= Len(w) /\ cuts \subseteq 1 .. n
  BY <1>1
<1>b. Closed(at, w, "url", cuts, n)
  BY <1>3
<1> HIDE DEF n
<1>5. IsPiece(at, SubSeq(w, 1, n), "url", cuts)
  BY <1>1, <1>3, <1>a, <1>b, ClosedIsPiece
<1>6. \A e \in Starts(SubSeq(w, 1, n), "url", cuts) : e <= at.off
  <2>1. Starts(SubSeq(w, 1, n), "url", cuts) = StartsBefore(w, "url", cuts, n)
    BY <1>1, <1>a, StartsRead
  <2> QED
    BY <1>3, <2>1 DEF StartsBefore, n
<1> QED
  BY <1>3, <1>4, <1>5, <1>6 DEF IsLastPiece, n

\* The parts that are noted where nothing more has been read.
LEMMA SeenParts ==
  ASSUME MsgTypes, InPlace, nth <= Len(x.wires)
  PROVE  IF x.save
         THEN /\ Lists(h.keys, Wire, "key", cut, read, read)
              /\ Lists(h.vals, Wire, "val", cut, read, read)
              /\ x.side = "rqst" => IsLatest(h.url, Wire, "url", cut, read, read)
              /\ BodyIs(h.body, Wire, read)
         ELSE h.keys = <<>> /\ h.vals = <<>> /\ h.body = NoPart
<1>1. PartsNoted(Begun, Wire, cut, read)
  BY PlaceFacts DEF Noted
<1>2. Begun.msg = h /\ \A part : Limit(Begun, part, read) = read
  BY DEF Begun, Limit
<1> QED
  BY <1>1, <1>2 DEF PartsNoted

LEMMA SeenIsAsSent ==
  ASSUME MsgTypes, InPlace, nth <= Len(x.wires),
         x.side = "rqst" => read = Len(Wire)
  PROVE  LET wire == SubSeq(Wire, 1, read)
         IN  IF ~x.save THEN h.keys = <<>> /\ h.vals = <<>> /\ h.body = NoPart
             ELSE /\ ArePieces(h.keys, wire, "key", cut)
                  /\ ArePieces(h.vals, wire, "val", cut)
                  /\ h.body = BodyOf(wire)
                  /\ x.side = "rqst" => IsLastPiece(h.url, wire, "url", cut)
<1>1. /\ x.save \in BOOLEAN /\ Wire \in Seq(STRING) /\ read \in Nat /\ read <= Len(Wire)
      /\ cut \subseteq 1 .. read
      /\ x.side = "rqst" => Request(Wire)
  BY PlaceFacts, MessageFacts DEF MsgTypes
<1>2. CASE ~x.save
  BY <1>2, SeenParts
<1>3. CASE x.save
  <2>1. /\ Lists(h.keys, Wire, "key", cut, read, read)
        /\ Lists(h.vals, Wire, "val", cut, read, read)
        /\ x.side = "rqst" => IsLatest(h.url, Wire, "url", cut, read, read)
        /\ BodyIs(h.body, Wire, read)
    BY <1>3, SeenParts
  <2> DEFINE w == Wire
             keys == h.keys
             vals == h.vals
             url == h.url
  <2>a. w \in Seq(STRING) /\ read <= Len(w) /\ cut \subseteq 1 .. read /\ read \in Nat
    BY <1>1
  <2>b. Lists(keys, w, "key", cut, read, read) /\ Lists(vals, w, "val", cut, read, read)
    BY <2>1
  <2>c. x.side = "rqst" =>
          Request(w) /\ cut \subseteq 1 .. Len(w) /\ IsLatest(url, w, "url", cut, Len(w), Len(w))
    BY <1>1, <2>1
  <2> HIDE DEF w, keys, vals, url
  <2>d. ArePieces(keys, SubSeq(w, 1, read), "key", cut)
    BY <2>a, <2>b, ListsArePieces
  <2>e. ArePieces(vals, SubSeq(w, 1, read), "val", cut)
    BY <2>a, <2>b, ListsArePieces
  <2>2. /\ ArePieces(h.keys, SubSeq(Wire, 1, read), "key", cut)
        /\ ArePieces(h.vals, SubSeq(Wire, 1, read), "val", cut)
    BY <2>d, <2>e DEF keys, vals, w
  <2>3. h.body = BodyOf(SubSeq(Wire, 1, read))
    BY <1>1, <2>1, BodyIsBodyOf
  <2>f. x.side = "rqst" => IsLastPiece(url, SubSeq(w, 1, Len(w)), "url", cut)
    BY <2>c, LatestIsLastPiece
  <2>4. x.side = "rqst" => IsLastPiece(h.url, SubSeq(Wire, 1, read), "url", cut)
    BY <2>f DEF url, w
  <2> QED
    BY <1>3, <2>2, <2>3, <2>4
<1> QED
  BY <1>1, <1>2, <1>3

-----------------------------------------------------------------------------
(* How steps carry the parts of the invariant.                             *)

\* What was seen stays.
LEMMA GotStays ==
  ASSUME MsgInv, UNCHANGED <<x, got>>, fin => fin'
  PROVE  AsSent' /\ TakenEach'
<1>1. AsSent'
  BY DEF MsgInv, AsSent
<1>2. TakenEach'
  BY DEF MsgInv, TakenEach
<1> QED
  BY <1>1, <1>2

\* What is seen now is as it was sent, and taken in time.
LEMMA GotGrows ==
  ASSUME MsgInv, nth <= Len(x.wires), Len(got) = nth - 1, x' = x, fin' = fin,
         got' = Append(got, Seen),
         x.side = "rqst" => read = Len(Wire),
         read = Len(Wire) \/ (x.side = "resp" /\ (fin \/ Interim(Wire)))
  PROVE  /\ AsSent' /\ TakenEach'
         /\ got' \in Seq(SeenRecords) /\ Len(got') = nth
<1>1. /\ got \in Seq(SeenRecords) /\ h \in Msgs /\ cut \in SUBSET Nat /\ read \in Nat
      /\ nth \in Nat \ {0}
  BY DEF MsgInv, MsgTypes
<1>2. Seen \in SeenRecords
  BY <1>1 DEF Seen, SeenRecords, Msgs
<1>3. /\ got' \in Seq(SeenRecords) /\ Len(got') = nth
      /\ DOMAIN got' = DOMAIN got \union {nth} /\ nth \notin DOMAIN got
      /\ \A i \in DOMAIN got : got'[i] = got[i]
      /\ got'[nth] = Seen
  <2> DEFINE s == Seen
             g == Append(got, s)
             n == Len(got)
  <2> HIDE DEF s
  <2>1. /\ g \in Seq(SeenRecords) /\ n \in Nat /\ Len(g) = n + 1 /\ DOMAIN got = 1 .. n
        /\ DOMAIN g = 1 .. n + 1 /\ g[n + 1] = s
        /\ \A i \in 1 .. n : g[i] = got[i]
    BY <1>1, <1>2 DEF s
  <2>2. got' = g /\ n + 1 = nth /\ n \in Nat /\ 1 .. n + 1 = 1 .. n \union {nth}
        /\ nth \notin 1 .. n
    BY <1>1, <2>1 DEF s
  <2> HIDE DEF g, n
  <2> QED
    BY <2>1, <2>2 DEF s
<1> DEFINE Sent(g, w) ==
      LET wire == SubSeq(w, 1, g.read)
      IN  IF ~x.save THEN g.keys = <<>> /\ g.vals = <<>> /\ g.body = NoPart
          ELSE /\ ArePieces(g.keys, wire, "key", g.cut)
               /\ ArePieces(g.vals, wire, "val", g.cut)
               /\ g.body = BodyOf(wire)
               /\ x.side = "rqst" => IsLastPiece(g.url, wire, "url", g.cut)
           Taken(g, w) ==
      g.read = Len(w) \/ (x.side = "resp" /\ (fin \/ Interim(w)))
<1>4. \A i \in DOMAIN got : Sent(got[i], x.wires[i])
  BY DEF MsgInv, AsSent
<1>5. \A i \in DOMAIN got : Taken(got[i], x.wires[i])
  BY DEF MsgInv, TakenEach
<1>6. Sent(Seen, x.wires[nth])
  <2> DEFINE w == Wire
  <2>1. IF ~x.save THEN h.keys = <<>> /\ h.vals = <<>> /\ h.body = NoPart
        ELSE /\ ArePieces(h.keys, SubSeq(w, 1, read), "key", cut)
             /\ ArePieces(h.vals, SubSeq(w, 1, read), "val", cut)
             /\ h.body = BodyOf(SubSeq(w, 1, read))
             /\ x.side = "rqst" => IsLastPiece(h.url, SubSeq(w, 1, read), "url", cut)
    BY SeenIsAsSent DEF MsgInv
  <2>2. /\ Seen.keys = h.keys /\ Seen.vals = h.vals /\ Seen.body = h.body
        /\ Seen.url = h.url /\ Seen.cut = cut /\ Seen.read = read
    BY DEF Seen
  <2> HIDE DEF w
  <2>3. Sent(Seen, w)
    BY <2>1, <2>2
  <2> HIDE DEF Sent
  <2> QED
    BY <2>3 DEF w, Wire
<1>7. Taken(Seen, x.wires[nth])
  BY DEF Seen, Wire
<1>8. \A i \in DOMAIN got' : Sent(got'[i], x.wires[i]) /\ Taken(got'[i], x.wires[i])
  <2> HIDE DEF Sent, Taken
  <2> QED
    BY <1>3, <1>4, <1>5, <1>6, <1>7
<1>9. AsSent'
  BY <1>8 DEF AsSent
<1>10. TakenEach'
  BY <1>8 DEF TakenEach
<1> QED
  BY <1>3, <1>9, <1>10

\* The place of a message in which the queue is where it was.
LEMMA NotedStays ==
  ASSUME InPlace, nth <= Len(x.wires), UNCHANGED <<x, nth, read, inside, cut>>,
         h'.keys = h.keys, h'.vals = h.vals, h'.url = h.url, h'.body = h.body,
         h'.complete = h.complete, h' \in Msgs, MsgTypes
  PROVE  Noted(Begun, Wire, cut, read, read)'
<1>1. Noted(Begun, Wire, cut, read, read)
  BY DEF InPlace
<1>2. /\ Begun.part = inside /\ Begun.mark = read /\ Begun.msg = h
      /\ Begun'.part = inside /\ Begun'.mark = read /\ Begun'.msg = h'
      /\ Begun' \in Scans
  BY DEF Begun, Scans, MsgTypes
<1>3. Wire' = Wire
  BY DEF Wire
<1>4. Opened(Begun', Wire, cut, read, read)
  BY <1>1, <1>2 DEF Noted, Opened
<1>5. /\ \A part : Limit(Begun', part, read) = read
      /\ \A part : Limit(Begun, part, read) = read
  BY <1>2 DEF Limit
<1>6. PartsNoted(Begun, Wire, cut, read)'
  BY <1>1, <1>2, <1>3, <1>5 DEF Noted, PartsNoted
<1>7. h'.complete <=> \E r \in 1 .. read : Completes(Wire[r])'
  BY <1>1, <1>2, <1>3 DEF Noted, Completes, SkipsBody
<1> QED
  BY <1>2, <1>3, <1>4, <1>6, <1>7 DEF Noted

LEMMA StaysInPlace ==
  ASSUME MsgTypes, InPlace, UNCHANGED <<x, nth, read, inside, cut>>,
         h'.keys = h.keys, h'.vals = h.vals, h'.url = h.url, h'.body = h.body,
         h'.complete = h.complete, h' \in Msgs,
         sent' \in Nat, sent <= sent',
         IF nth <= Len(x.wires) THEN sent' <= Len(Wire) ELSE sent' = sent
  PROVE  InPlace'
<1>1. x.side = "resp" => nth <= Len(x.wires)
  BY DEF InPlace
<1>2. CASE nth <= Len(x.wires)
  <2>1. Noted(Begun, Wire, cut, read, read)'
    BY <1>2, NotedStays
  <2>2. /\ sent <= Len(Wire) /\ read <= sent /\ cut \subseteq 1 .. read /\ inside # "body"
        /\ sent \in Nat /\ read \in Nat
    BY <1>2 DEF InPlace, MsgTypes
  <2>3. /\ nth' <= Len(x'.wires) /\ sent' <= Len(Wire') /\ read' <= sent'
        /\ cut' \subseteq 1 .. read' /\ inside' # "body"
        /\ x'.side = "resp" => nth' <= Len(x'.wires)
    BY <1>1, <1>2, <2>2 DEF Wire
  <2> QED
    BY <2>1, <2>3 DEF InPlace
<1>3. CASE ~(nth <= Len(x.wires))
  BY <1>1, <1>3 DEF InPlace
<1> QED
  BY <1>2, <1>3

\* A message of which nothing is read.
LEMMA FreshInPlace ==
  ASSUME MsgTypes, x' = x, nth' \in Nat \ {0}, x.side = "resp" => nth' <= Len(x.wires),
         read' = 0, sent' = 0, h' = Fresh, inside' = "none", cut' = {}
  PROVE  InPlace' /\ h' \in Msgs
<1>1. /\ NoPart \in At /\ <<>> \in Seq(At)
      /\ Fresh.url = NoPart /\ Fresh.keys = <<>> /\ Fresh.vals = <<>> /\ Fresh.body = NoPart
      /\ Fresh.complete = FALSE
  BY DEF NoPart, Fresh, At
<1>2. Fresh \in Msgs
  BY <1>1 DEF Fresh, Msgs
<1>3. CASE nth' <= Len(x.wires)
  <2> DEFINE w == Wire'
             b == Begun'
  <2>1. Message(w) /\ Len(w) \in Nat
    <3>1. nth' \in Nat \ {0} /\ x' \in Exchanges /\ nth' <= Len(x'.wires)
      BY <1>3 DEF MsgTypes
    <3>2. nth' \in DOMAIN x'.wires
      BY <3>1, ExchangesAssumption
    <3>3. IF x'.side = "rqst" THEN x'.save /\ Request(x'.wires[nth'])
          ELSE Response(x'.wires[nth'])
      BY <3>1, <3>2, ExchangesAssumption
    <3>4. Message(w)
      BY <3>3 DEF Request, Response, Wire
    <3> QED
      BY <3>4, MessageFacts
  <2>2. b \in Scans /\ b.part = "none" /\ b.mark = 0 /\ b.msg = Fresh
    BY <1>2 DEF Begun, Scans, Parts
  <2> HIDE DEF w, b
  <2>3. Opened(b, w, {}, 0, 0)
    BY <2>2 DEF Opened, InHead
  <2>4. \A part : StartsBefore(w, part, {}, 0) = {}
    BY <2>1, StartFacts DEF StartsBefore
  <2>5. \A part : Lists(<<>>, w, part, {}, 0, 0)
    BY <1>1, <2>4 DEF Lists
  <2>6. IsLatest(NoPart, w, "url", {}, 0, 0)
    BY <1>1, <2>4 DEF IsLatest, StartsBefore
  <2>7. BodyIs(NoPart, w, 0)
    BY <1>1 DEF BodyIs, Body
  <2>8. \A part : Limit(b, part, 0) = 0
    BY <2>2 DEF Limit
  <2>9. PartsNoted(Begun, Wire, cut, read)'
    BY <1>1, <2>2, <2>5, <2>6, <2>7, <2>8 DEF PartsNoted, b, w
  <2>10. Noted(Begun, Wire, cut, read, read)'
    BY <1>1, <2>2, <2>3, <2>9 DEF Noted, b, w
  <2>11. sent' <= Len(w) /\ read' <= sent' /\ cut' \subseteq 1 .. read' /\ inside' # "body"
    BY <2>1
  <2> QED
    BY <1>2, <1>3, <2>10, <2>11 DEF InPlace, w
<1>4. CASE ~(nth' <= Len(x.wires))
  BY <1>1, <1>2, <1>4 DEF InPlace
<1> QED
  BY <1>3, <1>4

-----------------------------------------------------------------------------
(* The steps.                                                              *)

LEMMA InitHolds == MsgInit => MsgInv
<1> SUFFICES ASSUME MsgInit PROVE MsgInv
  OBVIOUS
<1>1. /\ x \in Exchanges /\ pc = "wait" /\ nth = 1 /\ sent = 0 /\ read = 0 /\ fin = FALSE
      /\ h = Fresh /\ inside = "none" /\ continued = FALSE /\ got = <<>> /\ cut = {}
  BY DEF MsgInit
<1>2. /\ NoPart \in At /\ <<>> \in Seq(At) /\ <<>> \in Seq(SeenRecords)
  BY DEF NoPart, At
<1>3. Fresh \in Msgs /\ Fresh.complete = FALSE
  BY <1>2 DEF Fresh, Msgs
<1>4. MsgTypes
  <2>1. got \in Seq(SeenRecords)
    BY <1>1, <1>2
  <2>2. nth \in Nat \ {0} /\ sent \in Nat /\ read \in Nat /\ inside \in Parts /\ cut \in SUBSET Nat
    BY <1>1 DEF Parts
  <2> QED
    BY <1>1, <1>3, <2>1, <2>2 DEF MsgTypes
<1>5. /\ 1 <= Len(x.wires) /\ Message(Wire) /\ Len(Wire) \in Nat
  BY <1>1, ExchangeFacts
<1> DEFINE w == Wire
           b == Begun
<1>6. b \in Scans /\ b.part = "none" /\ b.mark = 0 /\ b.msg = Fresh
  BY <1>1, <1>3 DEF Begun, Scans, Parts
<1> HIDE DEF w, b
<1>7. Opened(b, w, {}, 0, 0)
  BY <1>6 DEF Opened, InHead
<1>8. \A part : StartsBefore(w, part, {}, 0) = {}
  BY <1>5, StartFacts DEF StartsBefore, w
<1>9. \A part : Lists(<<>>, w, part, {}, 0, 0)
  BY <1>2, <1>8 DEF Lists
<1>10. IsLatest(NoPart, w, "url", {}, 0, 0)
  BY <1>2, <1>8 DEF IsLatest, StartsBefore
<1>11. BodyIs(NoPart, w, 0)
  BY <1>2 DEF BodyIs, Body
<1>12. \A part : Limit(b, part, 0) = 0
  BY <1>6 DEF Limit
<1>13. /\ Fresh.url = NoPart /\ Fresh.keys = <<>> /\ Fresh.vals = <<>> /\ Fresh.body = NoPart
  BY DEF Fresh
<1>14. PartsNoted(b, w, {}, 0)
  BY <1>6, <1>9, <1>10, <1>11, <1>12, <1>13 DEF PartsNoted
<1>15. Noted(b, w, {}, 0, 0)
  BY <1>3, <1>6, <1>7, <1>14 DEF Noted
<1>16. InPlace
  BY <1>1, <1>5, <1>15 DEF InPlace, b, w
<1>17. TakenInTurn
  BY <1>1, <1>3 DEF TakenInTurn
<1>18. AsSent /\ TakenEach /\ LostIfCut
  BY <1>1 DEF AsSent, TakenEach, LostIfCut
<1> QED
  BY <1>4, <1>16, <1>17, <1>18 DEF MsgInv

\* The end of a block.
LEMMA BlockFilled ==
  ASSUME read \in Nat
  PROVE  /\ BlockRoom \in Nat \ {0}
         /\ (read + BlockRoom) % BlockBytes = 0
<1> DEFINE k == read \div BlockBytes
           j == read % BlockBytes
           m == BlockBytes
<1>1. m \in Nat \ {0}
  BY LengthsAssumption
<1>2. k \in Nat /\ j \in 0 .. m - 1 /\ read = k * m + j
  BY <1>1, DivMod
<1>3. BlockRoom = m - j
  BY DEF BlockRoom
<1> HIDE DEF k, j, m
<1>4. read + (m - j) = (k + 1) * m + 0 /\ k + 1 \in Nat /\ 0 < m
  BY <1>1, <1>2
<1>5. ((k + 1) * m + 0) % m = 0
  BY <1>1, <1>4, DivModUnique
<1>6. m - j \in Nat \ {0}
  BY <1>1, <1>2
<1>7. (read + BlockRoom) % m = 0
  BY <1>3, <1>4, <1>5
<1> QED
  BY <1>3, <1>6, <1>7 DEF m

LEMMA ReadPieceStep ==
  ASSUME MsgInv, ReadPiece
  PROVE  MsgInv'
<1>1. MsgTypes /\ InPlace /\ TakenInTurn /\ AsSent /\ TakenEach /\ LostIfCut
  BY DEF MsgInv
<1>2. /\ sent \in Nat /\ read \in Nat /\ nth \in Nat \ {0} /\ x \in Exchanges
      /\ Len(x.wires) \in Nat
  BY <1>1, ExchangeFacts DEF MsgTypes
<1> DEFINE n == IF Unread < BlockRoom THEN Unread ELSE BlockRoom
           f == Execute(n)
           off == read + n
           w == Wire
           cuts2 == IF f.part = "none" THEN cut ELSE cut \union {off}
           g == [part |-> f.part, mark |-> off, msg |-> f.msg]
<1>3. /\ pc = "read" /\ Unread > 0
      /\ read' = off /\ h' = f.msg /\ inside' = f.part /\ cut' = cuts2
      /\ pc' = IF n < BlockRoom THEN "check" ELSE "read"
      /\ UNCHANGED <<x, nth, sent, fin, continued, got>>
  BY DEF ReadPiece, netVars
<1>4. nth <= Len(x.wires)
  BY <1>1, <1>2, <1>3 DEF InPlace, Unread
<1>5. /\ x.save \in BOOLEAN /\ Message(w) /\ Len(w) \in Nat /\ sent <= Len(w)
      /\ cut \subseteq 1 .. read /\ Noted(Begun, w, cut, read, read)
      /\ BlockRoom \in Nat \ {0} /\ (read + BlockRoom) % BlockBytes = 0
  BY <1>1, <1>2, <1>4, PlaceFacts, BlockFilled
<1>6. /\ n \in Nat \ {0} /\ off <= sent /\ off <= Len(w) /\ off \in Nat
      /\ ~(n < BlockRoom) => n = BlockRoom
  BY <1>2, <1>3, <1>5 DEF Unread
<1> HIDE DEF n
<1>7. /\ f.part \in Parts /\ f.part # "body" /\ f.msg \in Msgs
      /\ cuts2 \subseteq 1 .. off
      /\ Noted(g, w, cuts2, off, off)
  BY <1>2, <1>5, <1>6, PieceNoted
<1> HIDE DEF f
<1>8. Begun' = g /\ Wire' = w
  BY <1>3 DEF Begun, Wire
<1> HIDE DEF w, off, cuts2, g
<1>9. Noted(Begun', Wire', cut', read', read')
  BY <1>3, <1>7, <1>8 DEF Noted
<1>10. InPlace'
  <2>1. Noted(Begun, Wire, cut, read, read)'
    BY <1>3, <1>9 DEF Noted, PartsNoted, Completes, SkipsBody
  <2>2. /\ nth' <= Len(x'.wires) /\ sent' <= Len(Wire') /\ read' <= sent'
        /\ cut' \subseteq 1 .. read' /\ inside' # "body"
    BY <1>3, <1>4, <1>5, <1>6, <1>7, <1>8
  <2> QED
    BY <2>1, <2>2 DEF InPlace
<1>11. cuts2 \in SUBSET Nat
  BY <1>6, <1>7
<1>12. MsgTypes'
  BY <1>1, <1>3, <1>6, <1>7, <1>11 DEF MsgTypes
<1>13. TakenInTurn'
  <2>1. pc' = "read" => read' % BlockBytes = 0
    BY <1>3, <1>5, <1>6 DEF off
  <2>2. pc' \in {"read", "check"} /\ Len(got') = nth' - 1
    BY <1>1, <1>3 DEF TakenInTurn
  <2> QED
    BY <2>1, <2>2 DEF TakenInTurn
<1>14. AsSent' /\ TakenEach'
  BY <1>3, GotStays
<1>15. LostIfCut'
  BY <1>3 DEF LostIfCut
<1> QED
  BY <1>10, <1>12, <1>13, <1>14, <1>15 DEF MsgInv

\* Steps that read nothing and take nothing.
LEMMA OtherStep ==
  ASSUME MsgInv,
         UNCHANGED <<x, nth, read, inside, cut, got>>,
         h'.keys = h.keys, h'.vals = h.vals, h'.url = h.url, h'.body = h.body,
         h'.complete = h.complete, h' \in Msgs,
         sent' \in Nat, sent <= sent',
         IF nth <= Len(x.wires) THEN sent' <= Len(Wire) ELSE sent' = sent,
         fin' \in BOOLEAN, fin => fin', continued' \in BOOLEAN,
         pc' \in {"wait", "read", "check", "idle", "closed"},
         TakenInTurn', LostIfCut'
  PROVE  MsgInv'
<1>1. MsgTypes /\ InPlace
  BY DEF MsgInv
<1>2. MsgTypes'
  BY <1>1 DEF MsgTypes
<1>3. InPlace'
  BY <1>1, StaysInPlace
<1>4. AsSent' /\ TakenEach'
  BY GotStays
<1> QED
  BY <1>2, <1>3, <1>4 DEF MsgInv

\* Those that leave all that is sent, read and noted as it is.
LEMMA PcStep ==
  ASSUME MsgInv, UNCHANGED <<x, netVars, read, msgVars, continued, got>>,
         pc' \in {"wait", "read", "check", "idle", "closed"},
         TakenInTurn', LostIfCut'
  PROVE  MsgInv'
<1>1. MsgTypes /\ InPlace
  BY DEF MsgInv
<1>2. UNCHANGED <<x, nth, sent, fin, h, read, inside, cut, got, continued>>
  BY DEF netVars, msgVars
<1>3. sent \in Nat /\ read \in Nat /\ h \in Msgs /\ fin \in BOOLEAN /\ continued \in BOOLEAN
  BY <1>1 DEF MsgTypes
<1>4. nth <= Len(x.wires) => sent <= Len(Wire)
  BY <1>1 DEF InPlace
<1>5. sent <= sent
  BY <1>3
<1> QED
  BY <1>2, <1>3, <1>4, <1>5, OtherStep

LEMMA ReadAgainStep ==
  ASSUME MsgInv, ReadAgain
  PROVE  MsgInv'
<1>1. /\ pc = "read" /\ pc' = "check"
      /\ UNCHANGED <<x, netVars, read, msgVars, continued, got>>
  BY DEF ReadAgain
<1>2. TakenInTurn' /\ LostIfCut'
  BY <1>1 DEF MsgInv, TakenInTurn, LostIfCut, netVars
<1> QED
  BY <1>1, <1>2, PcStep

LEMMA ReadableStep ==
  ASSUME MsgInv, Readable
  PROVE  MsgInv'
<1>1. /\ pc = "wait" /\ pc' = "read"
      /\ UNCHANGED <<x, netVars, read, msgVars, continued, got>>
  BY DEF Readable
<1>2. TakenInTurn' /\ LostIfCut'
  BY <1>1 DEF MsgInv, TakenInTurn, LostIfCut, netVars, msgVars
<1> QED
  BY <1>1, <1>2, PcStep

LEMMA IdleReadableStep ==
  ASSUME MsgInv, IdleReadable
  PROVE  MsgInv'
<1>1. /\ pc = "idle" /\ pc' = "closed"
      /\ UNCHANGED <<x, netVars, read, msgVars, continued, got>>
  BY DEF IdleReadable
<1>2. TakenInTurn' /\ LostIfCut'
  BY <1>1 DEF MsgInv, TakenInTurn, LostIfCut
<1> QED
  BY <1>1, <1>2, PcStep

\* The end of the connection: what was read of a request to its end ends with a
\* block, or it would have been taken before.
LEMMA ReadEofStep ==
  ASSUME MsgInv, ReadEof
  PROVE  MsgInv'
<1>1. MsgTypes /\ InPlace /\ TakenInTurn /\ AsSent /\ TakenEach /\ LostIfCut
  BY DEF MsgInv
<1>2. /\ pc = "read" /\ Unread = 0 /\ fin /\ pc' = "closed"
      /\ got' = IF x.side = "rqst" THEN got ELSE Append(got, Seen)
      /\ UNCHANGED <<x, nth, sent, fin, read, h, inside, cut, continued>>
  BY DEF ReadEof, netVars, msgVars
<1>3. LostIfCut'
  <2>1. ASSUME x.side = "rqst", read > 0, read = Len(Wire)
        PROVE  read % BlockBytes = 0
    <3>1. h.complete
      BY <1>1, <2>1, WholeIsComplete
    <3> QED
      BY <1>1, <1>2, <3>1 DEF TakenInTurn
  <2> QED
    BY <1>2, <2>1 DEF LostIfCut, Wire
<1>4. TakenInTurn'
  BY <1>2 DEF TakenInTurn
<1>5. CASE x.side = "rqst"
  <2>1. UNCHANGED <<x, netVars, read, msgVars, continued, got>>
    BY <1>2, <1>5 DEF netVars, msgVars
  <2> QED
    BY <1>2, <1>3, <1>4, <2>1, PcStep
<1>6. CASE x.side # "rqst"
  <2>1. x.side = "resp" /\ nth <= Len(x.wires)
    BY <1>1, <1>6, ExchangeFacts DEF MsgTypes, InPlace
  <2>2. Len(got) = nth - 1
    BY <1>1, <1>2 DEF TakenInTurn
  <2>3. AsSent' /\ TakenEach' /\ got' \in Seq(SeenRecords)
    BY <1>2, <1>6, <2>1, <2>2, GotGrows
  <2>4. MsgTypes'
    BY <1>1, <1>2, <2>3 DEF MsgTypes
  <2>5. sent \in Nat /\ h \in Msgs /\ sent <= sent /\ sent <= Len(Wire)
    BY <1>1, <2>1 DEF MsgTypes, InPlace
  <2>6. InPlace'
    BY <1>1, <1>2, <2>1, <2>5, StaysInPlace
  <2> QED
    BY <1>3, <1>4, <2>3, <2>4, <2>6 DEF MsgInv
<1> QED
  BY <1>5, <1>6

\* A request that is complete and has no url was cut at the end of its url.
LEMMA UrlIsCut ==
  ASSUME MsgTypes, InPlace, h.complete, UrlEmpty, x.side = "rqst"
  PROVE  \E c \in cut : PartOf(Wire[c]) = "url" /\ PartOf(Wire[c + 1]) # "url"
<1>1. nth <= Len(x.wires) /\ read = Len(Wire)
  BY CompleteIsWhole
<1>2. x.save /\ Request(Wire) /\ cut \subseteq 1 .. Len(Wire)
  BY <1>1, PlaceFacts
<1>3. IsLatest(h.url, Wire, "url", cut, Len(Wire), Len(Wire))
  BY <1>1, <1>2, SeenParts
<1> DEFINE w == Wire
           u == h.url
           n == Len(w)
<1>4. u \in At /\ u.off > 0 /\ Closed(u, w, "url", cut, n)
  BY <1>2, <1>3, LatestIsLastPiece
<1> HIDE DEF w, u, n
<1>5. u.off \in Nat /\ u.len = 0 /\ u.off + u.len = u.off
  BY <1>4 DEF At, UrlEmpty, u
<1>6. u.off \in Starts(w, "url", cut) /\ PartOf(w[u.off + 1]) # "url"
  BY <1>4, <1>5 DEF Closed
<1>7. u.off \in cut /\ PartOf(w[u.off]) = "url"
  BY <1>6, StartFacts
<1> QED
  BY <1>6, <1>7 DEF w

LEMMA CheckRqstStep ==
  ASSUME MsgInv, CheckRqst
  PROVE  MsgInv'
<1>1. MsgTypes /\ InPlace /\ TakenInTurn /\ AsSent /\ TakenEach /\ LostIfCut
  BY DEF MsgInv
<1>2. pc = "check" /\ x.side = "rqst" /\ x' = x /\ Len(got) = nth - 1
  BY <1>1 DEF CheckRqst, TakenInTurn
<1>3. CASE /\ ~h.complete
           /\ pc' = "wait"
           /\ continued' = (continued \/ h.expect)
           /\ h' = [h EXCEPT !.expect = FALSE]
           /\ UNCHANGED <<netVars, read, inside, cut, got>>
  <2>1. h \in Msgs /\ continued \in BOOLEAN /\ sent \in Nat /\ fin \in BOOLEAN
    BY <1>1 DEF MsgTypes
  <2>2. /\ h'.keys = h.keys /\ h'.vals = h.vals /\ h'.url = h.url /\ h'.body = h.body
        /\ h'.complete = h.complete /\ h' \in Msgs /\ h.expect \in BOOLEAN
    BY <1>3, <2>1 DEF Msgs
  <2>3. /\ UNCHANGED <<nth, sent, fin, read, inside, cut, got>>
    BY <1>3 DEF netVars
  <2>4. TakenInTurn' /\ LostIfCut'
    BY <1>2, <1>3, <2>2, <2>3 DEF TakenInTurn, LostIfCut
  <2>5. continued' \in BOOLEAN
    BY <1>3, <2>1, <2>2
  <2>6. nth <= Len(x.wires) => sent <= Len(Wire)
    BY <1>1 DEF InPlace
  <2>7. sent <= sent
    BY <2>1
  <2> QED
    BY <1>2, <1>3, <2>1, <2>2, <2>3, <2>4, <2>5, <2>6, <2>7, OtherStep
<1>4. CASE /\ h.complete /\ UrlEmpty
           /\ pc' = "closed"
           /\ UNCHANGED <<netVars, read, msgVars, continued, got>>
  <2>1. \E c \in cut : PartOf(Wire[c]) = "url" /\ PartOf(Wire[c + 1]) # "url"
    BY <1>1, <1>2, <1>4, UrlIsCut
  <2>2. cut' = cut /\ Wire' = Wire
    BY <1>2, <1>4 DEF msgVars, netVars, Wire
  <2>3. TakenInTurn' /\ LostIfCut'
    BY <1>4, <2>1, <2>2 DEF TakenInTurn, LostIfCut
  <2> QED
    BY <1>2, <1>4, <2>3, PcStep
<1>5. CASE /\ h.complete /\ ~UrlEmpty
           /\ pc' = "wait"
           /\ got' = Append(got, Seen)
           /\ NextMessage
  <2>1. /\ h' = Fresh /\ inside' = "none" /\ cut' = {} /\ read' = 0 /\ continued' = FALSE
        /\ nth' = nth + 1 /\ sent' = 0 /\ fin' = fin
    BY <1>5 DEF NextMessage
  <2>2. nth <= Len(x.wires) /\ read = Len(Wire)
    BY <1>1, <1>2, <1>5, CompleteIsWhole
  <2>3. /\ AsSent' /\ TakenEach' /\ got' \in Seq(SeenRecords) /\ Len(got') = nth
    BY <1>2, <1>5, <2>1, <2>2, GotGrows
  <2>4. nth \in Nat \ {0} /\ nth' \in Nat \ {0} /\ nth' - 1 = nth
    BY <1>1, <2>1 DEF MsgTypes
  <2>5. InPlace' /\ h' \in Msgs
    BY <1>1, <1>2, <2>1, <2>4, FreshInPlace
  <2>6. MsgTypes'
    BY <1>1, <1>2, <1>5, <2>1, <2>3, <2>4, <2>5 DEF MsgTypes, Parts
  <2>7. TakenInTurn'
    BY <1>5, <2>1, <2>3, <2>4 DEF TakenInTurn, Fresh
  <2>8. LostIfCut'
    BY <1>5 DEF LostIfCut
  <2> QED
    BY <2>3, <2>5, <2>6, <2>7, <2>8 DEF MsgInv
<1> QED
  BY <1>3, <1>4, <1>5 DEF CheckRqst

LEMMA CheckRespStep ==
  ASSUME MsgInv, CheckResp
  PROVE  MsgInv'
<1>1. MsgTypes /\ InPlace /\ TakenInTurn /\ AsSent /\ TakenEach /\ LostIfCut
  BY DEF MsgInv
<1>2. /\ pc = "check" /\ x.side = "resp" /\ Len(got) = nth - 1
      /\ UNCHANGED <<x, nth, sent, fin, read, h, inside, cut, continued>>
      /\ UNCHANGED <<x, netVars, read, msgVars, continued>>
  BY <1>1 DEF CheckResp, TakenInTurn, netVars, msgVars
<1>3. LostIfCut'
  BY <1>2 DEF LostIfCut
<1>4. CASE h.complete
  <2>1. pc' \in {"idle", "closed"} /\ got' = Append(got, Seen)
    BY <1>4 DEF CheckResp
  <2>2. nth <= Len(x.wires) /\ (read = Len(Wire) \/ Interim(Wire))
    BY <1>1, <1>4, CompleteIsWhole
  <2>3. AsSent' /\ TakenEach' /\ got' \in Seq(SeenRecords) /\ Len(got') = nth
    BY <1>2, <2>1, <2>2, GotGrows
  <2>4. MsgTypes'
    BY <1>1, <1>2, <2>1, <2>3 DEF MsgTypes
  <2>5. sent \in Nat /\ h \in Msgs /\ sent <= sent /\ sent <= Len(Wire)
    BY <1>1, <2>2 DEF MsgTypes, InPlace
  <2>6. InPlace'
    BY <1>1, <1>2, <2>2, <2>5, StaysInPlace
  <2>7. TakenInTurn'
    BY <1>2, <2>1, <2>3 DEF TakenInTurn
  <2> QED
    BY <1>3, <2>3, <2>4, <2>6, <2>7 DEF MsgInv
<1>5. CASE ~h.complete
  <2>1. pc' = "wait" /\ got' = got
    BY <1>5 DEF CheckResp
  <2>2. TakenInTurn'
    BY <1>2, <1>5, <2>1 DEF TakenInTurn
  <2> QED
    BY <1>2, <1>3, <2>1, <2>2, PcStep
<1> QED
  BY <1>4, <1>5

LEMMA NextSubrStep ==
  ASSUME MsgInv, NextSubr
  PROVE  MsgInv'
<1>1. MsgTypes /\ InPlace /\ TakenInTurn /\ AsSent /\ TakenEach /\ LostIfCut
  BY DEF MsgInv
<1>2. /\ pc = "idle" /\ nth < Len(x.wires) /\ pc' = "wait" /\ x' = x /\ got' = got
      /\ h' = Fresh /\ inside' = "none" /\ cut' = {} /\ read' = 0 /\ continued' = FALSE
      /\ nth' = nth + 1 /\ sent' = 0 /\ fin' = fin
  BY DEF NextSubr, NextMessage
<1>3. nth \in Nat \ {0} /\ nth' \in Nat \ {0} /\ nth' - 1 = nth /\ nth' <= Len(x.wires)
  BY <1>1, <1>2, ExchangeFacts DEF MsgTypes
<1>4. InPlace' /\ h' \in Msgs
  BY <1>1, <1>2, <1>3, FreshInPlace
<1>5. MsgTypes'
  BY <1>1, <1>2, <1>3, <1>4 DEF MsgTypes, Parts
<1>6. TakenInTurn'
  BY <1>1, <1>2, <1>3 DEF TakenInTurn, Fresh
<1>7. AsSent' /\ TakenEach'
  BY <1>2, GotStays
<1>8. LostIfCut'
  BY <1>2 DEF LostIfCut
<1> QED
  BY <1>4, <1>5, <1>6, <1>7, <1>8 DEF MsgInv

LEMMA PeerSendsStep ==
  ASSUME MsgInv, PeerSends
  PROVE  MsgInv'
<1>1. MsgTypes /\ InPlace /\ TakenInTurn /\ LostIfCut
  BY DEF MsgInv
<1>2. /\ pc # "closed" /\ nth <= Len(x.wires)
      /\ UNCHANGED <<x, pc, nth, fin, read, h, inside, cut, continued, got>>
      /\ sent' \in sent + 1 .. MaySend
  BY DEF PeerSends, msgVars
<1>3. /\ sent \in Nat /\ h \in Msgs /\ fin \in BOOLEAN /\ continued \in BOOLEAN
      /\ pc \in {"wait", "read", "check", "idle", "closed"}
  BY <1>1 DEF MsgTypes
<1>4. Message(Wire) /\ Len(Wire) \in Nat
  BY <1>1, <1>2, PlaceFacts
<1>5. HeadLen \in 1 .. Len(Wire)
  <2>1. \E i \in DOMAIN Wire : Wire[i] \in HeadEnd
    BY <1>4 DEF Message
  <2>2. HeadLen \in DOMAIN Wire
    BY <2>1 DEF HeadLen
  <2> QED
    BY <1>4, <2>2, MessageFacts
<1>6. MaySend \in Nat /\ MaySend <= Len(Wire)
  BY <1>4, <1>5 DEF MaySend
<1>7. sent' \in Nat /\ sent <= sent' /\ sent' <= Len(Wire)
  BY <1>2, <1>3, <1>4, <1>6
<1>8. TakenInTurn'
  BY <1>1, <1>2 DEF TakenInTurn
<1>9. LostIfCut'
  BY <1>2 DEF LostIfCut
<1> QED
  BY <1>2, <1>3, <1>7, <1>8, <1>9, OtherStep

LEMMA PeerClosesStep ==
  ASSUME MsgInv, PeerCloses
  PROVE  MsgInv'
<1>1. MsgTypes /\ InPlace /\ TakenInTurn /\ LostIfCut
  BY DEF MsgInv
<1>2. /\ pc # "closed" /\ fin' = TRUE
      /\ UNCHANGED <<x, pc, nth, sent, read, h, inside, cut, continued, got>>
  BY DEF PeerCloses, msgVars
<1>3. /\ sent \in Nat /\ h \in Msgs /\ continued \in BOOLEAN /\ sent <= sent
      /\ pc \in {"wait", "read", "check", "idle", "closed"}
  BY <1>1 DEF MsgTypes
<1>4. nth <= Len(x.wires) => sent <= Len(Wire)
  BY <1>1 DEF InPlace
<1>5. TakenInTurn'
  BY <1>1, <1>2 DEF TakenInTurn
<1>6. LostIfCut'
  BY <1>2 DEF LostIfCut
<1> QED
  BY <1>2, <1>3, <1>4, <1>5, <1>6, OtherStep

LEMMA MsgStuttering ==
  ASSUME MsgInv, UNCHANGED exchangeVars
  PROVE  MsgInv'
<1>1. UNCHANGED <<x, netVars, read, msgVars, continued, got>> /\ pc' = pc
  BY DEF exchangeVars
<1>2. pc \in {"wait", "read", "check", "idle", "closed"}
  BY DEF MsgInv, MsgTypes
<1>3. TakenInTurn' /\ LostIfCut'
  BY <1>1 DEF MsgInv, TakenInTurn, LostIfCut, netVars, msgVars, Wire
<1> QED
  BY <1>1, <1>2, <1>3, PcStep

LEMMA StepHolds == MsgInv /\ [MsgNext]_exchangeVars => MsgInv'
<1> SUFFICES ASSUME MsgInv, [MsgNext]_exchangeVars
             PROVE  MsgInv'
  OBVIOUS
<1>1. CASE Session
  BY <1>1, ReadableStep, ReadPieceStep, ReadAgainStep, ReadEofStep, CheckRqstStep,
     CheckRespStep DEF Session
<1>2. CASE NextSubr
  BY <1>2, NextSubrStep
<1>3. CASE IdleReadable
  BY <1>3, IdleReadableStep
<1>4. CASE PeerSends
  BY <1>4, PeerSendsStep
<1>5. CASE PeerCloses
  BY <1>5, PeerClosesStep
<1>6. CASE UNCHANGED exchangeVars
  BY <1>6, MsgStuttering
<1> QED
  BY <1>1, <1>2, <1>3, <1>4, <1>5, <1>6 DEF MsgNext

LEMMA MsgInvHolds == MsgSpec => []MsgInv
BY InitHolds, StepHolds, PTL DEF MsgSpec

(***************************************************************************)
(* What a handler sees of a request, and a subrequest of a response, is    *)
(* what the peer sent, wherever the network and the blocks of the queue    *)
(* cut it, whatever the messages, the size of a block and the name that is *)
(* looked for: every piece of its headers, the last of its url, and the    *)
(* place and the length of its body.                                       *)
(***************************************************************************)
THEOREM PartsAreAsSent == MsgSpec => []AsSent
<1>1. MsgInv => AsSent
  BY DEF MsgInv
<1> QED
  BY <1>1, MsgInvHolds, PTL

(***************************************************************************)
(* A message is taken when it was read to its end, and not before; and a   *)
(* request that was read to its end is not lost, but for the exceptions    *)
(* that TakenWhole names: an interim response, the end of the connection,  *)
(* a url that was cut at its end, and a request that ends with a block and *)
(* with the connection.                                                    *)
(***************************************************************************)
THEOREM MessagesAreTakenWhole == MsgSpec => []TakenWhole
<1>1. MsgInv => TakenWhole
  BY WaitsForMore DEF MsgInv, TakenEach, LostIfCut, TakenWhole
<1> QED
  BY <1>1, MsgInvHolds, PTL
=============================================================================
