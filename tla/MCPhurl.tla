------------------------------ MODULE MCPhurl ------------------------------
(***************************************************************************)
(* The command lines of Phurl that are checked.  With the two look-ups at  *)
(* a time of MCPhurl.cfg, three hosts of a thread are too many at once:    *)
(*   - one thread with three hosts and two connections that has enough of  *)
(*     60 percent of them;                                                 *)
(*   - one thread with two hosts and one connection, with a completion     *)
(*     time-out;                                                           *)
(*   - the same with a third host, whose name udns refuses, at its own     *)
(*     start or later, when it has waited;                                 *)
(*   - two threads with one host each, whose name is looked up on the spot, *)
(*     and a third host that nobody asks.                                  *)
(***************************************************************************)
EXTENDS Phurl

Line(t, h, a, r, q, n, b) ==
  [threads |-> t, hosts |-> h, active |-> a, ratio |-> r, timeout |-> q,
   sync |-> n, refused |-> b]

MCOptions ==
  {Line(1, 3, 2, 60, FALSE, FALSE, {}), Line(1, 2, 1, 100, TRUE, FALSE, {}),
   Line(1, 3, 2, 100, TRUE, FALSE, {3}), Line(2, 3, 1, 100, FALSE, TRUE, {})}
=============================================================================
