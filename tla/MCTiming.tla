------------------------------- MODULE MCTiming -------------------------------
(***************************************************************************)
(* Configurations for model checking Timing.  The unit is half a second.   *)
(***************************************************************************)
EXTENDS Timing

Base ==
  [named |-> TRUE, TTL |-> 6, HeartbeatInterval |-> 2, ValidationInterval |-> 0,
   DisconnectGracePeriod |-> 0, MaxConsecutiveFailures |-> 0,
   AllowPriorityTakeover |-> FALSE, Priority |-> 0, HealthChecker |-> FALSE]

(***************************************************************************)
(* Intervals below, at and above the limits of validateConfig, with and    *)
(* without health checks, and one violation of each other rule.            *)
(***************************************************************************)
MCConfigs ==
  {[Base EXCEPT !.TTL = t, !.HeartbeatInterval = h, !.HealthChecker = c,
                !.MaxConsecutiveFailures = m] :
     t \in {0, 4, 5, 6, 8, 12}, h \in {0, 1, 2, 4}, c \in BOOLEAN,
     m \in {-1, 0, 1, 2}}
  \cup {[Base EXCEPT !.named = FALSE],
        [Base EXCEPT !.ValidationInterval = 1],
        [Base EXCEPT !.ValidationInterval = 2],
        [Base EXCEPT !.DisconnectGracePeriod = 3],
        [Base EXCEPT !.DisconnectGracePeriod = 4],
        [Base EXCEPT !.AllowPriorityTakeover = TRUE],
        [Base EXCEPT !.AllowPriorityTakeover = TRUE, !.Priority = 1]}

=============================================================================
