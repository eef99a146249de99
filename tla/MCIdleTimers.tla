---------------------------- MODULE MCIdleTimers ----------------------------
(* Constants of the run of IdleTimers.                                     *)
EXTENDS IdleTimers

MCData == Clients \union Upstreams
\* Clients may be idle longer than upstream servers.
MCTimeoutOf == [s \in MCData |-> IF s \in Clients THEN 2 ELSE 1]
=============================================================================
