---------------------------- MODULE MCSubrQueue -----------------------------
(* Instances of SubrQueue: clients of a proxy (a, b), and hurl (d).          *)
EXTENDS SubrQueue

CONSTANTS a, b, d, x, y

Clients == {a, b}
Hurls == {d}
ServerOf == [s \in Onces \union Dupes |-> IF s = a THEN x ELSE y]

\* Three requests of two clients to two servers over one connection; and hurl,
\* which looks names up while the thread waits, with two connections.
Proxy == [dupes |-> {}, useSyncDns |-> FALSE, maxActive |-> 1, maxIdle |-> 1,
          maxRequests |-> 3]
Hurl == [dupes |-> {d}, useSyncDns |-> TRUE, maxActive |-> 2, maxIdle |-> 2,
         maxRequests |-> 0]
ProxyOrHurl == {Proxy, Hurl}
=============================================================================
