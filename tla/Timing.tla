------------------------------- MODULE Timing --------------------------------
(***************************************************************************)
(* One term of a leader in time: the ticker of heartbeatLoop               *)
(* (leader/heartbeat.go), its health check, updateTimeout and the TTL of   *)
(* the entry, for the configurations that validateConfig                   *)
(* (leader/validation.go) accepts.                                         *)
(*                                                                         *)
(* Time passes in units.  A goroutine that can run does so within a unit.  *)
(* age is the time since the server last applied a write of this leader,   *)
(* next the time to the ticker's next tick, due says that the ticker's     *)
(* channel, which holds one tick, is full, and left is what remains of the *)
(* timeout of the call under way.                                          *)
(***************************************************************************)
EXTENDS Integers

CONSTANTS
  Configs,         \* the values of ElectionConfig
  Second,          \* one second
  HealthTimeout,   \* the timeout of a health check, 100ms in the code
  GetTimeout,      \* the time a kv.Get may take (external)
  Latency,         \* longest time from the acquiring write to the ticker
  MaxFailures      \* maxFailures in heartbeatLoop

Config ==
  [named : BOOLEAN,                \* Bucket, Group and InstanceID are set
   TTL : Int, HeartbeatInterval : Int, ValidationInterval : Int,
   DisconnectGracePeriod : Int, MaxConsecutiveFailures : Int,
   AllowPriorityTakeover : BOOLEAN, Priority : Int,
   HealthChecker : BOOLEAN]

ASSUME TimingAssumption ==
  /\ Configs \subseteq Config
  /\ Second \in Nat \ {0}
  /\ HealthTimeout \in Nat
  /\ GetTimeout \in Nat
  /\ Latency \in Nat
  /\ MaxFailures \in Nat \ {0}

VARIABLES cfg, pc, left, next, due, fails, sick, age, old, late

timingVars == <<cfg, pc, left, next, due, fails, sick, age, old, late>>

(***************************************************************************)
(* Mutant of ValidConfig: two heartbeats fit into the TTL.                 *)
(***************************************************************************)
ValidConfigTwice(c) ==
  c.named /\ c.HeartbeatInterval > 0 /\ c.TTL >= 2 * c.HeartbeatInterval

(***************************************************************************)
(* validateConfig returns nil.                                             *)
(***************************************************************************)
ValidConfig(c) ==
  /\ c.named
  /\ c.TTL > 0
  /\ c.HeartbeatInterval > 0
  /\ c.TTL >= 3 * c.HeartbeatInterval
  /\ c.ValidationInterval > 0 => c.ValidationInterval >= c.HeartbeatInterval
  /\ c.DisconnectGracePeriod > 0 =>
       c.DisconnectGracePeriod >= 2 * c.HeartbeatInterval
  /\ c.MaxConsecutiveFailures >= 0
  /\ c.AllowPriorityTakeover => c.Priority > 0

MaxHealthFailures ==
  IF cfg.MaxConsecutiveFailures <= 0 THEN 3 ELSE cfg.MaxConsecutiveFailures

UpdateTimeout ==
  LET half == cfg.HeartbeatInterval \div 2
  IN IF half < Second THEN Second ELSE half

Leading == pc \notin {"rejected", "demoted"}

TimingTypeOK ==
  /\ cfg \in Configs
  /\ pc \in {"rejected", "idle", "checking", "updating", "applied", "inquiring",
            "demoted"}
  /\ left \in Nat
  /\ Leading => next \in 1..cfg.HeartbeatInterval
  /\ due \in BOOLEAN
  /\ fails \in 0..MaxFailures
  /\ sick \in Nat
  /\ age \in Nat
  /\ old \in BOOLEAN
  /\ late \in BOOLEAN

(***************************************************************************)
(* newKVElection refuses an invalid configuration.  Otherwise a term       *)
(* begins: becomeLeader has just started the loop.  healthFailureCount     *)
(* still has the value of the term before.                                 *)
(***************************************************************************)
TimingInit ==
  /\ cfg \in Configs
  /\ pc = IF ValidConfig(cfg) THEN "idle" ELSE "rejected"
  /\ left = 0
  /\ next = cfg.HeartbeatInterval
  /\ due = FALSE
  /\ fails = 0
  /\ sick \in IF Leading /\ cfg.HealthChecker THEN 0..MaxHealthFailures ELSE {0}
  /\ age \in 0..Latency
  /\ old = FALSE
  /\ late = FALSE

-----------------------------------------------------------------------------
(***************************************************************************)
(* A unit of time passes.  A tick that finds the channel full is dropped.  *)
(***************************************************************************)
Advance ==
  /\ Leading
  /\ IF pc = "idle" THEN ~due ELSE left > 0
  /\ age' = age + 1
  /\ left' = IF pc = "idle" THEN left ELSE left - 1
  /\ next' = IF next = 1 THEN cfg.HeartbeatInterval ELSE next - 1
  /\ due' = (due \/ next = 1)
  /\ UNCHANGED <<cfg, pc, fails, sick, old, late>>

BeginHeartbeat ==
  /\ pc = "idle"
  /\ due
  /\ due' = FALSE
  /\ pc' = IF cfg.HealthChecker THEN "checking" ELSE "updating"
  /\ left' = IF cfg.HealthChecker THEN HealthTimeout ELSE UpdateTimeout
  /\ UNCHANGED <<cfg, next, fails, sick, age, old, late>>

(***************************************************************************)
(* An unhealthy leader sends no heartbeat.  Check runs in the loop's own   *)
(* goroutine, which only hands it a context that ends after HealthTimeout: *)
(* that it returns by then is an assumption about the application's        *)
(* HealthChecker.                                                          *)
(***************************************************************************)
Unhealthy ==
  /\ pc = "checking"
  /\ sick' = sick + 1
  /\ pc' = IF sick' >= MaxHealthFailures THEN "demoted" ELSE "idle"
  /\ left' = 0
  /\ UNCHANGED <<cfg, next, due, fails, age, old, late>>

(***************************************************************************)
(* Mutant of Healthy: a healthy leader's failed heartbeats are forgotten.  *)
(***************************************************************************)
HealthyForgives ==
  /\ pc = "checking"
  /\ sick' = 0
  /\ fails' = 0
  /\ pc' = "updating"
  /\ left' = UpdateTimeout
  /\ UNCHANGED <<cfg, next, due, age, old, late>>

Healthy ==
  /\ pc = "checking"
  /\ sick' = 0
  /\ pc' = "updating"
  /\ left' = UpdateTimeout
  /\ UNCHANGED <<cfg, next, due, fails, age, old, late>>

(***************************************************************************)
(* kv.Update.  The server applies it if the entry is there and has the     *)
(* revision the leader knows; the answer takes its time.  A request that   *)
(* was abandoned before and is still under way is refused from now on.     *)
(***************************************************************************)
EntryIsOurs == ~old /\ age < cfg.TTL

Applies ==
  /\ pc = "updating"
  /\ EntryIsOurs
  /\ pc' = "applied"
  /\ age' = 0
  /\ late' = FALSE
  /\ UNCHANGED <<cfg, left, next, due, fails, sick, old>>

Answered ==
  /\ pc = "applied"
  /\ pc' = "idle"
  /\ left' = 0
  /\ fails' = 0
  /\ UNCHANGED <<cfg, next, due, sick, age, old, late>>

(***************************************************************************)
(* A revision mismatch is a permanent error, but the loop first asks the   *)
(* KV who the leader is.                                                   *)
(***************************************************************************)
Conflict ==
  /\ pc = "updating"
  /\ ~EntryIsOurs
  /\ pc' = "inquiring"
  /\ left' = GetTimeout
  /\ UNCHANGED <<cfg, next, due, fails, sick, age, old, late>>

HandleConflict ==
  /\ pc = "inquiring"
  /\ pc' = "demoted"
  /\ left' = 0
  /\ UNCHANGED <<cfg, next, due, fails, sick, age, old, late>>

(***************************************************************************)
(* Mutant of UpdateFails: one failure too many is tolerated.               *)
(***************************************************************************)
UpdateFailsOnceMore ==
  /\ pc \in {"updating", "applied"}
  /\ fails' = fails + 1
  /\ pc' = IF fails' > MaxFailures THEN "demoted" ELSE "idle"
  /\ left' = 0
  /\ old' = (old \/ pc = "applied")
  /\ late' = (late \/ pc = "updating")
  /\ UNCHANGED <<cfg, next, due, sick, age>>

(***************************************************************************)
(* Any other error, updateTimeout included: the request may still be under *)
(* way, and if it was applied the leader does not know the new revision.   *)
(***************************************************************************)
UpdateFails ==
  /\ pc \in {"updating", "applied"}
  /\ fails' = fails + 1
  /\ pc' = IF fails' >= MaxFailures THEN "demoted" ELSE "idle"
  /\ left' = 0
  /\ old' = (old \/ pc = "applied")
  /\ late' = (late \/ pc = "updating")
  /\ UNCHANGED <<cfg, next, due, sick, age>>

(***************************************************************************)
(* An abandoned Update arrives.                                            *)
(***************************************************************************)
LateApplies ==
  /\ Leading
  /\ late
  /\ EntryIsOurs
  /\ age' = 0
  /\ old' = TRUE
  /\ late' = FALSE
  /\ UNCHANGED <<cfg, pc, left, next, due, fails, sick>>

TimingNext ==
  \/ Advance \/ BeginHeartbeat \/ Unhealthy \/ Healthy
  \/ Applies \/ Answered \/ Conflict \/ HandleConflict
  \/ UpdateFails \/ LateApplies

TimingSpec == TimingInit /\ [][TimingNext]_timingVars

-----------------------------------------------------------------------------
(***************************************************************************)
(* Properties.                                                             *)
(***************************************************************************)

(***************************************************************************)
(* The longest time one round of the loop takes, and the longest time      *)
(* between the beginnings of two rounds: with updateTimeout's minimum of   *)
(* one second a round may outlast the interval.                            *)
(***************************************************************************)
RoundTime == UpdateTimeout + (IF cfg.HealthChecker THEN HealthTimeout ELSE 0)
Period ==
  IF cfg.HeartbeatInterval < RoundTime THEN RoundTime ELSE cfg.HeartbeatInterval

(***************************************************************************)
(* Rounds without a renewal before the leader steps down: every failed     *)
(* Update may come after MaxHealthFailures - 1 failed health checks, whose *)
(* count the healthy one in between resets.                                *)
(***************************************************************************)
RoundsPerFailure == IF cfg.HealthChecker THEN MaxHealthFailures ELSE 1

(***************************************************************************)
(* A leader that cannot renew its entry steps down within a bound that the *)
(* configuration alone determines, however ticks, health checks, timeouts  *)
(* and late Updates fall.  The bound exceeds the TTL that validateConfig   *)
(* asks for.                                                               *)
(***************************************************************************)
RenewedOrDemoted ==
  Leading => age <= Latency + MaxFailures * RoundsPerFailure * Period
                      + RoundTime + GetTimeout

(***************************************************************************)
(* What TTL >= 3 * HeartbeatInterval is for.  Where the delay of the first *)
(* tick and updateTimeout together fall short of the interval, a leader    *)
(* that lost or timed out of one heartbeat still has its entry when the    *)
(* next one reaches the server, and no conflict deposes it.  (Unless the   *)
(* lost one was applied: then the loop does not know the new revision, and *)
(* its next Update is a conflict whatever the TTL.)                        *)
(***************************************************************************)
OneMissIsSurvived ==
  (/\ Leading /\ ~cfg.HealthChecker /\ fails <= 1
   /\ Latency + UpdateTimeout < cfg.HeartbeatInterval)
    => old \/ (EntryIsOurs /\ pc # "inquiring")

=============================================================================
