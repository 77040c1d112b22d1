----------------------------- MODULE FencedLease -----------------------------
(***************************************************************************)
(* What the leadership key promises to the resources that check fencing    *)
(* tokens: at any time at most one holder, a token that belongs to one     *)
(* instance for ever, a fresh token for every acquisition, and preemption  *)
(* by a strictly higher priority only.                                     *)
(***************************************************************************)
EXTENDS Integers

CONSTANTS Instances, Priority, Tokens, NoHolder

VARIABLES
  holder,     \* the lease in force, or NoHolder
  issued      \* every lease granted so far

Init == holder = NoHolder /\ issued = {}

Grant(i, t) ==
  /\ \A l \in issued : l.token # t
  /\ holder' = [id |-> i, token |-> t]
  /\ issued' = issued \cup {[id |-> i, token |-> t]}

(***************************************************************************)
(* kv.Create in attemptAcquire.                                            *)
(***************************************************************************)
Acquire(i, t) == holder = NoHolder /\ Grant(i, t)

(***************************************************************************)
(* kv.Update in attemptPriorityTakeover.                                   *)
(***************************************************************************)
Preempt(i, t) ==
  /\ holder # NoHolder
  /\ Priority[i] > Priority[holder.id]
  /\ Grant(i, t)

(***************************************************************************)
(* TTL expiry, or kv.Delete in StopWithContext.                            *)
(***************************************************************************)
Lapse ==
  /\ holder # NoHolder
  /\ holder' = NoHolder
  /\ UNCHANGED issued

(***************************************************************************)
(* A heartbeat of a superseded leader replaces the lease in force by the   *)
(* superseded one.  A heartbeat of the holder itself changes nothing here. *)
(***************************************************************************)
Reinstate(l) ==
  /\ holder # NoHolder
  /\ holder' = l
  /\ UNCHANGED issued

Next ==
  \/ \E i \in Instances, t \in Tokens : Acquire(i, t) \/ Preempt(i, t)
  \/ Lapse
  \/ \E l \in issued : Reinstate(l)

Spec == Init /\ [][Next]_<<holder, issued>>

=============================================================================
