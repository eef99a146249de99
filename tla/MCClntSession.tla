--------------------------- MODULE MCClntSession ----------------------------
(* Instances of ClntSession for TLC. *)
EXTENDS ClntSession, TLC

\* Clients are alike, and so are sessions.
Symmetry == Permutations(Clients) \union Permutations(Sessions)

\* What is left in a free queue does not matter: it is reset when it is taken.
\* One that a session brought along may be in use although it is free.
View ==
  <<pc, writing, served,
    [t EXCEPT !.content = [q \in Nbqs |-> IF q \in t.nbqFree \ t.brought THEN <<>> ELSE @[q]]]>>

=============================================================================
