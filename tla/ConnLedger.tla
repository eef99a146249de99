----------------------------- MODULE ConnLedger -----------------------------
(***************************************************************************)
(* What a connection pool promises about each connection object: where it  *)
(* is, and the moves between those places.  An object is handed out only   *)
(* when it is new, free or idle; it is free again only after it was given  *)
(* back or evicted; nothing moves an object that its client holds.  The    *)
(* one blemish of the code is part of the contract: the retirement of one  *)
(* connection may orphan another, idle one, once in the life of the pool.  *)
(***************************************************************************)
EXTENDS Naturals, FiniteSets

CONSTANTS
  Conns,      \* connection objects
  MaxActive,  \* no new connection is opened at this number of active ones
  MaxIdle     \* number of connections that may be idle

VARIABLES
  where,      \* the place each object is in
  lossSpent   \* the one orphaning has happened, or cannot happen any more

vars == <<where, lossSpent>>

Places == {"none", "free", "active", "idle", "orphan", "deleted"}
At(p) == {c \in Conns : where[c] = p}
Moved(c, p) == [where EXCEPT ![c] = p]

\* The first connection ever parked may leave the idle ones in any step.
MaySpend == lossSpent' \in {lossSpent, TRUE}

Init ==
  /\ where = [c \in Conns |-> "none"]
  /\ lossSpent = FALSE

\* A fresh object; a free one of the wrong scheme may be deleted for it.
Open(c) ==
  /\ where[c] = "none"
  /\ Cardinality(At("active")) < MaxActive
  /\ \/ where' = Moved(c, "active")
     \/ \E d \in At("free") : where' = [Moved(c, "active") EXCEPT ![d] = "deleted"]
  /\ UNCHANGED lossSpent

Reopen(c) ==
  /\ where[c] = "free"
  /\ Cardinality(At("active")) < MaxActive
  /\ where' = Moved(c, "active")
  /\ UNCHANGED lossSpent

\* A client parks its connection; only a full cache evicts, and one only.
Park(c) ==
  /\ where[c] = "active"
  /\ \/ Cardinality(At("idle")) < MaxIdle /\ where' = Moved(c, "idle")
     \/ /\ Cardinality(At("idle")) = MaxIdle
        /\ \E d \in At("idle") : where' = [Moved(c, "idle") EXCEPT ![d] = "free"]
  /\ MaySpend

Resume(c) ==
  /\ where[c] = "idle"
  /\ where' = Moved(c, "active")
  /\ MaySpend

Retire(c) ==
  /\ where[c] \in {"active", "idle", "orphan"}
  /\ \/ where' = Moved(c, "free") /\ MaySpend
     \/ /\ ~lossSpent
        /\ \E d \in At("idle") \ {c} :
             where' = [Moved(c, "free") EXCEPT ![d] = "orphan"]
        /\ lossSpent' = TRUE

RetireAllIdle ==
  /\ At("idle") # {}
  /\ where' = [c \in Conns |-> IF where[c] = "idle" THEN "free" ELSE where[c]]
  /\ MaySpend

Next ==
  \/ \E c \in Conns : Open(c) \/ Reopen(c) \/ Park(c) \/ Resume(c) \/ Retire(c)
  \/ RetireAllIdle

Spec == Init /\ [][Next]_vars

=============================================================================
