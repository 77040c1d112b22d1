---------------------------- MODULE TimingProofs -----------------------------
(***************************************************************************)
(* Theorems about Timing for every configuration, every timeout and every  *)
(* number of tolerated failures.                                           *)
(*                                                                         *)
(* The argument counts rounds.  A round begins at the latest Period after  *)
(* the one before, because a tick that falls into a round stays in the     *)
(* ticker's channel.  So with m rounds missed since the last renewal the   *)
(* next one begins at an age of at most Deadline(m), and the counters      *)
(* fails and sick bound m.                                                 *)
(***************************************************************************)
EXTENDS Timing, TLAPS

SickRounds == IF sick < RoundsPerFailure THEN sick ELSE RoundsPerFailure - 1

(***************************************************************************)
(* Rounds missed, as the counters tell.  A healthy check resets sick, and  *)
(* an Update under way may have come after as many failed checks as a      *)
(* leader survives.                                                        *)
(***************************************************************************)
Missed ==
  fails * RoundsPerFailure
    + IF pc = "updating" THEN RoundsPerFailure - 1 ELSE SickRounds

Deadline(m) == Latency + (m + 1) * Period
NextRound == Deadline(Missed)

LastDeadline ==
  Latency + MaxFailures * RoundsPerFailure * Period + RoundTime + GetTimeout

(***************************************************************************)
(* The inductive invariant.  RenewedOrDemoted and OneMissIsSurvived bound  *)
(* age alone; what a step adds to age depends on the ticker, on the full   *)
(* channel and on the timeout under way.                                   *)
(***************************************************************************)
LeadingInv == Leading => ValidConfig(cfg) /\ fails < MaxFailures

IdleInv ==
  pc = "idle" =>
    /\ due => age <= NextRound
    /\ ~due => age + next <= NextRound

CheckingInv ==
  pc = "checking" =>
    /\ cfg.HealthChecker
    /\ left <= HealthTimeout
    /\ age + left + UpdateTimeout <= NextRound + RoundTime
    /\ ~due => age + next <= NextRound + Period

UpdatingInv ==
  pc = "updating" =>
    /\ left <= UpdateTimeout
    /\ age + left <= NextRound + RoundTime
    /\ ~due => age + next <= NextRound + Period

AppliedInv ==
  pc = "applied" =>
    /\ left <= UpdateTimeout
    /\ age + left <= UpdateTimeout
    /\ ~due => age + next <= cfg.HeartbeatInterval

InquiringInv ==
  pc = "inquiring" => left <= GetTimeout /\ age + left <= LastDeadline

TimeInv ==
  /\ TimingTypeOK
  /\ LeadingInv
  /\ IdleInv
  /\ CheckingInv
  /\ UpdatingInv
  /\ AppliedInv
  /\ InquiringInv

-----------------------------------------------------------------------------
(***************************************************************************)
(* What validateConfig and the timeouts it leads to guarantee.             *)
(***************************************************************************)
LEMMA ConfigFacts ==
  ASSUME cfg \in Configs, ValidConfig(cfg)
  PROVE  /\ cfg.HeartbeatInterval \in Nat \ {0}
         /\ UpdateTimeout \in Nat \ {0}
         /\ MaxHealthFailures \in Nat \ {0}
         /\ RoundsPerFailure \in Nat \ {0}
         /\ RoundTime \in Nat
         /\ Period \in Nat
         /\ cfg.HeartbeatInterval <= Period
         /\ RoundTime <= Period
         /\ UpdateTimeout <= RoundTime
         /\ cfg.HealthChecker => RoundTime = UpdateTimeout + HealthTimeout
         /\ cfg.HealthChecker => RoundsPerFailure = MaxHealthFailures
<1>1. cfg \in Config /\ cfg.HeartbeatInterval \in Nat \ {0}
  BY TimingAssumption DEF Config, ValidConfig
<1>2. cfg.HeartbeatInterval \div 2 \in Nat
  BY <1>1
<1>3. UpdateTimeout \in Nat \ {0}
  BY <1>2, TimingAssumption DEF UpdateTimeout
<1>4. MaxHealthFailures \in Nat \ {0}
  BY <1>1 DEF MaxHealthFailures, Config
<1>5. RoundsPerFailure \in Nat \ {0}
  BY <1>4 DEF RoundsPerFailure
<1>6. RoundTime \in Nat /\ UpdateTimeout <= RoundTime
  BY <1>3, TimingAssumption DEF RoundTime
<1>7. Period \in Nat /\ cfg.HeartbeatInterval <= Period /\ RoundTime <= Period
  BY <1>1, <1>6 DEF Period
<1> QED
  BY <1>1, <1>3, <1>4, <1>5, <1>6, <1>7 DEF RoundTime, RoundsPerFailure

\* The configuration of a term does not change.
LEMMA ConfigStays ==
  ASSUME cfg' = cfg
  PROVE  /\ MaxHealthFailures' = MaxHealthFailures
         /\ UpdateTimeout' = UpdateTimeout
         /\ RoundsPerFailure' = RoundsPerFailure
         /\ RoundTime' = RoundTime
         /\ Period' = Period
         /\ LastDeadline' = LastDeadline
         /\ ValidConfig(cfg)' = ValidConfig(cfg)
         /\ \A m : Deadline(m)' = Deadline(m)
BY DEF MaxHealthFailures, UpdateTimeout, RoundsPerFailure, RoundTime, Period,
       LastDeadline, Deadline, ValidConfig

\* A product of counters.
LEMMA Products ==
  ASSUME NEW a \in Nat, NEW b \in Nat
  PROVE  a * b \in Nat /\ (a > 0 /\ b > 0 => a * b > 0)
OBVIOUS

\* Every round that is missed moves the deadline by a Period.
LEMMA DeadlineGrows ==
  ASSUME cfg \in Configs, ValidConfig(cfg), NEW m \in Nat, NEW n \in Nat, m <= n
  PROVE  /\ Deadline(m) \in Nat
         /\ Period <= Deadline(m)
         /\ Deadline(m) <= Deadline(n)
         /\ m < n => Deadline(m) + Period <= Deadline(n)
<1> DEFINE P == Period
<1>1. P \in Nat
  BY ConfigFacts
<1> HIDE DEF P
<1>2. Deadline(m) = Latency + m * P + P /\ Deadline(n) = Latency + n * P + P
  BY <1>1, TimingAssumption DEF Deadline, P
<1>3. PICK d \in Nat : n = m + d
  <2>1. n - m \in Nat /\ n = m + (n - m)
    OBVIOUS
  <2> QED
    BY <2>1
<1>4. n * P = m * P + d * P
  BY <1>1, <1>3
<1>5. m * P \in Nat /\ d * P \in Nat
  BY <1>1, <1>3
<1>6. d > 0 => d * P >= P
  BY <1>1, <1>3
<1>7. m < n => d > 0
  BY <1>3
<1> QED
  BY <1>1, <1>2, <1>4, <1>5, <1>6, <1>7, TimingAssumption DEF P

\* A leader has missed fewer rounds than its counters allow.
LEMMA MissedBound ==
  ASSUME cfg \in Configs, ValidConfig(cfg), fails \in Nat, sick \in Nat,
         fails < MaxFailures
  PROVE  /\ Missed \in Nat
         /\ NextRound + RoundTime + GetTimeout <= LastDeadline
         /\ NextRound \in Nat
         /\ Period <= NextRound
<1> DEFINE R == RoundsPerFailure
           r == IF pc = "updating" THEN R - 1 ELSE SickRounds
<1>1. R \in Nat /\ R > 0 /\ r \in Nat /\ r + 1 <= R
  BY ConfigFacts DEF SickRounds
<1>2. Missed = fails * R + r
  BY DEF Missed
<1> HIDE DEF R, r
<1>3. fails * R \in Nat
  BY <1>1
<1>4. Missed \in Nat
  BY <1>1, <1>2, <1>3
<1>5. PICK d \in Nat : MaxFailures = fails + 1 + d
  <2>1. MaxFailures - fails - 1 \in Nat
    BY TimingAssumption
  <2> QED
    BY <2>1, TimingAssumption
<1>6. MaxFailures * R = fails * R + R + d * R /\ d * R \in Nat
  BY <1>1, <1>5
<1>7. Missed + 1 <= MaxFailures * R /\ MaxFailures * R \in Nat
  BY <1>1, <1>2, <1>3, <1>6
<1>8. PICK e \in Nat : MaxFailures * R = Missed + 1 + e
  <2>1. MaxFailures * R - Missed - 1 \in Nat
    BY <1>4, <1>7
  <2> QED
    BY <1>4, <1>7, <2>1
<1>9. Period \in Nat
  BY ConfigFacts
<1>10. MaxFailures * R * Period = (Missed + 1) * Period + e * Period
  BY <1>4, <1>8, <1>9
<1>11. (Missed + 1) * Period \in Nat /\ e * Period \in Nat
  BY <1>4, <1>8, <1>9
<1>12. RoundTime \in Nat
  BY ConfigFacts
<1> QED
  BY <1>4, <1>10, <1>11, <1>12, DeadlineGrows, TimingAssumption
     DEF NextRound, Deadline, LastDeadline, R

\* As counters go up the next round may begin later.
LEMMA NextRoundGrows ==
  ASSUME cfg \in Configs, ValidConfig(cfg), cfg' = cfg,
         Missed \in Nat, Missed' \in Nat, Missed <= Missed'
  PROVE  /\ NextRound' \in Nat
         /\ NextRound <= NextRound'
         /\ Missed < Missed' => NextRound + Period <= NextRound'
<1>1. NextRound' = Deadline(Missed')
  BY ConfigStays DEF NextRound, Deadline
<1> QED
  BY <1>1, DeadlineGrows DEF NextRound

-----------------------------------------------------------------------------
\* A term begins with a fresh ticker.
LEMMA TimeInit == TimingInit => TimeInv
<1> SUFFICES ASSUME TimingInit PROVE TimeInv
  OBVIOUS
<1> USE DEF TimingInit
<1>1. Leading => ValidConfig(cfg)
  BY DEF Leading
<1>2. Leading => cfg.HeartbeatInterval \in Nat \ {0} /\ MaxHealthFailures \in Nat
  BY <1>1, ConfigFacts
<1>3. sick \in Nat
  BY <1>2
<1>4. TimingTypeOK
  <2>1. due \in BOOLEAN /\ old \in BOOLEAN /\ late \in BOOLEAN
    OBVIOUS
  <2>2. Leading => next \in 1..cfg.HeartbeatInterval
    BY <1>2
  <2>3. fails \in 0..MaxFailures /\ age \in Nat /\ left \in Nat
    BY TimingAssumption
  <2>4. cfg \in Configs /\ pc \in {"rejected", "idle"}
    OBVIOUS
  <2> QED
    BY <1>3, <2>1, <2>2, <2>3, <2>4 DEF TimingTypeOK
<1>5. LeadingInv
  BY <1>1, TimingAssumption DEF LeadingInv
<1>6. IdleInv
  <2> SUFFICES ASSUME pc = "idle" PROVE age + next <= NextRound
    BY DEF IdleInv
  <2>1. ValidConfig(cfg)
    BY <1>1 DEF Leading
  <2>2. Missed \in Nat
    BY <1>3, <2>1, MissedBound, TimingAssumption
  <2>3. Deadline(0) <= NextRound
    BY <2>1, <2>2, DeadlineGrows DEF NextRound
  <2>4. Deadline(0) = Latency + Period
    BY <2>1, ConfigFacts, TimingAssumption DEF Deadline
  <2>5. NextRound \in Nat
    BY <2>1, <2>2, DeadlineGrows DEF NextRound
  <2> QED
    BY <2>1, <2>3, <2>4, <2>5, ConfigFacts, TimingAssumption
<1> QED
  BY <1>4, <1>5, <1>6
     DEF TimeInv, CheckingInv, UpdatingInv, AppliedInv, InquiringInv

\* What every step of a term starts from.
LEMMA TermFacts ==
  ASSUME TimeInv, Leading
  PROVE  /\ cfg \in Configs /\ ValidConfig(cfg)
         /\ left \in Nat /\ age \in Nat /\ sick \in Nat
         /\ next \in 1..cfg.HeartbeatInterval
         /\ fails \in Nat /\ fails < MaxFailures
         /\ Missed \in Nat
         /\ NextRound \in Nat
         /\ Period <= NextRound
         /\ NextRound + RoundTime + GetTimeout <= LastDeadline
<1>1. cfg \in Configs /\ ValidConfig(cfg) /\ fails \in Nat /\ fails < MaxFailures
  BY DEF TimeInv, TimingTypeOK, LeadingInv
<1>2. sick \in Nat
  BY DEF TimeInv, TimingTypeOK
<1> QED
  BY <1>1, <1>2, MissedBound DEF TimeInv, TimingTypeOK

\* The types and the rule for leaders, for every step.
LEMMA TimeTypes ==
  ASSUME TimeInv, TimingNext
  PROVE  TimingTypeOK' /\ LeadingInv' /\ Leading /\ cfg' = cfg
<1>1. Leading
  BY DEF TimingNext, Advance, BeginHeartbeat, Unhealthy, Healthy, Applies,
         Answered, Conflict, HandleConflict, UpdateFails, LateApplies, Leading
<1>2. /\ cfg' = cfg
      /\ pc' \in {"idle", "checking", "updating", "applied", "inquiring",
                "demoted"}
  BY <1>1 DEF TimingNext, Advance, BeginHeartbeat, Unhealthy, Healthy, Applies,
         Answered, Conflict, HandleConflict, UpdateFails, LateApplies, Leading,
         TimeInv, TimingTypeOK
<1>3. /\ TimingTypeOK
      /\ cfg.HeartbeatInterval \in Nat \ {0}
      /\ UpdateTimeout \in Nat
      /\ HealthTimeout \in Nat /\ GetTimeout \in Nat
  BY <1>1, TermFacts, ConfigFacts, TimingAssumption DEF TimeInv
<1>4. next' \in 1..cfg.HeartbeatInterval
  BY <1>1, <1>3 DEF TimingNext, Advance, BeginHeartbeat, Unhealthy, Healthy,
       Applies, Answered, Conflict, HandleConflict, UpdateFails, LateApplies,
       TimingTypeOK
<1>5. left' \in Nat
  BY <1>1, <1>3 DEF TimingNext, Advance, BeginHeartbeat, Unhealthy, Healthy,
       Applies, Answered, Conflict, HandleConflict, UpdateFails, LateApplies,
       TimingTypeOK
<1>6. age' \in Nat /\ sick' \in Nat
  BY <1>3 DEF TimingNext, Advance, BeginHeartbeat, Unhealthy, Healthy,
       Applies, Answered, Conflict, HandleConflict, UpdateFails, LateApplies,
       TimingTypeOK
<1>7. fails' \in 0..MaxFailures /\ (pc' # "demoted" => fails' < MaxFailures)
  BY <1>1, TermFacts, TimingAssumption
     DEF TimingNext, Advance, BeginHeartbeat, Unhealthy, Healthy,
         Applies, Answered, Conflict, HandleConflict, UpdateFails, LateApplies
<1>8. due' \in BOOLEAN /\ old' \in BOOLEAN /\ late' \in BOOLEAN
  BY <1>3 DEF TimingNext, Advance, BeginHeartbeat, Unhealthy, Healthy,
       Applies, Answered, Conflict, HandleConflict, UpdateFails, LateApplies,
       TimingTypeOK
<1>9. TimingTypeOK'
  BY <1>2, <1>3, <1>4, <1>5, <1>6, <1>7, <1>8 DEF TimingTypeOK
<1>10. LeadingInv'
  <2>1. ValidConfig(cfg)'
    BY <1>1, <1>2, TermFacts, ConfigStays
  <2> QED
    BY <1>7, <2>1 DEF LeadingInv, Leading
<1> QED
  BY <1>1, <1>2, <1>9, <1>10

\* The same facts after a step: there is time for one round, and after a
\* failed Update for two.
LEMMA MissedNext ==
  ASSUME cfg \in Configs, ValidConfig(cfg), cfg' = cfg, fails' \in Nat,
         sick' \in Nat
  PROVE  /\ Missed' \in Nat
         /\ Missed' = fails' * RoundsPerFailure
                        + IF pc' = "updating" THEN RoundsPerFailure - 1
                          ELSE IF sick' < RoundsPerFailure THEN sick'
                          ELSE RoundsPerFailure - 1
         /\ NextRound' \in Nat
         /\ Period <= NextRound'
         /\ fails' > 0 => Period + Period <= NextRound'
<1> DEFINE R == RoundsPerFailure
           r == IF pc' = "updating" THEN R - 1
                ELSE IF sick' < R THEN sick' ELSE R - 1
<1>1. R \in Nat /\ R > 0 /\ r \in Nat
  BY ConfigFacts
<1>2. PICK k \in Nat : k = r /\ Missed' = fails' * R + k
  BY <1>1, ConfigStays DEF Missed, SickRounds
<1> HIDE DEF R, r
<1>3. PICK n \in Nat : n = fails' * R /\ (fails' > 0 => n > 0)
  BY <1>1, Products
<1>4. Missed' \in Nat /\ (fails' > 0 => Missed' > 0)
  <2>1. Missed' = n + k
    BY <1>2, <1>3
  <2> QED
    BY <1>3, <2>1
<1>5. NextRound' = Deadline(Missed')
  BY ConfigStays DEF NextRound, Deadline
<1>6. Deadline(Missed') \in Nat /\ Period <= Deadline(Missed')
  BY <1>4, DeadlineGrows
<1>7. Missed' > 0 => Deadline(0) + Period <= Deadline(Missed')
  BY <1>4, DeadlineGrows
<1>8. Deadline(0) \in Nat /\ Period <= Deadline(0)
  BY DeadlineGrows
<1>9. Period \in Nat
  BY ConfigFacts
<1> QED
  BY <1>2, <1>4, <1>5, <1>6, <1>7, <1>8, <1>9 DEF R, r

RoundInv ==
  IdleInv /\ CheckingInv /\ UpdatingInv /\ AppliedInv /\ InquiringInv

\* Every step keeps the rounds within their deadlines.
LEMMA RoundsNext ==
  ASSUME TimeInv, TimingNext
  PROVE  RoundInv'
<1>1. TimingTypeOK' /\ Leading /\ cfg' = cfg
  BY TimeTypes
<1>2. /\ cfg \in Configs /\ ValidConfig(cfg)
      /\ left \in Nat /\ age \in Nat /\ sick \in Nat /\ fails \in Nat
      /\ next \in Nat /\ next >= 1 /\ next <= cfg.HeartbeatInterval
      /\ Missed \in Nat /\ NextRound \in Nat
      /\ NextRound + RoundTime + GetTimeout <= LastDeadline
  BY <1>1, TermFacts, ConfigFacts
<1>3. /\ cfg.HeartbeatInterval \in Nat
      /\ UpdateTimeout \in Nat
      /\ RoundTime \in Nat /\ Period \in Nat
      /\ cfg.HeartbeatInterval <= Period
      /\ RoundTime <= Period
      /\ UpdateTimeout <= RoundTime
      /\ cfg.HealthChecker => RoundTime = UpdateTimeout + HealthTimeout
      /\ HealthTimeout \in Nat /\ GetTimeout \in Nat
  BY <1>2, ConfigFacts, TimingAssumption
<1>4. LastDeadline \in Int
  <2>1. RoundsPerFailure \in Nat
    BY <1>2, ConfigFacts
  <2> QED
    BY <1>3, <2>1, TimingAssumption DEF LastDeadline
<1>5. RoundInv
  BY DEF TimeInv, RoundInv
<1>6. fails' \in Nat /\ sick' \in Nat
  BY <1>1, TimingAssumption DEF TimingTypeOK
<1>7. PICK M \in Nat :
        /\ M = Missed'
        /\ M = fails' * RoundsPerFailure
                 + IF pc' = "updating" THEN RoundsPerFailure - 1
                   ELSE IF sick' < RoundsPerFailure THEN sick'
                   ELSE RoundsPerFailure - 1
  BY <1>1, <1>2, <1>6, MissedNext
<1>8. PICK N \in Nat :
        /\ N = NextRound'
        /\ Period <= N
        /\ fails' > 0 => Period + Period <= N
        /\ Missed <= M => NextRound <= N
        /\ Missed < M => NextRound + Period <= N
  BY <1>1, <1>2, <1>6, <1>7, MissedNext, NextRoundGrows
(***************************************************************************)
(* The goal, with the values that the step leaves alone unprimed.          *)
(***************************************************************************)
<1> DEFINE Idle ==
             pc' = "idle" => /\ due' => age' <= N
                             /\ ~due' => age' + next' <= N
           Checking ==
             pc' = "checking" =>
               /\ cfg.HealthChecker
               /\ left' <= HealthTimeout
               /\ age' + left' + UpdateTimeout <= N + RoundTime
               /\ ~due' => age' + next' <= N + Period
           Updating ==
             pc' = "updating" =>
               /\ left' <= UpdateTimeout
               /\ age' + left' <= N + RoundTime
               /\ ~due' => age' + next' <= N + Period
           Applied ==
             pc' = "applied" =>
               /\ left' <= UpdateTimeout
               /\ age' + left' <= UpdateTimeout
               /\ ~due' => age' + next' <= cfg.HeartbeatInterval
           Inquiring ==
             pc' = "inquiring" =>
               left' <= GetTimeout /\ age' + left' <= LastDeadline
<1>9. SUFFICES Idle /\ Checking /\ Updating /\ Applied /\ Inquiring
  BY <1>1, <1>8, ConfigStays
     DEF RoundInv, IdleInv, CheckingInv, UpdatingInv, AppliedInv, InquiringInv
(***************************************************************************)
(* The number of missed rounds, before and after.                          *)
(***************************************************************************)
<1> DEFINE R == RoundsPerFailure
           r == IF sick < R THEN sick ELSE R - 1
<1>10. /\ R \in Nat /\ R > 0
       /\ cfg.HealthChecker => R = MaxHealthFailures
  BY <1>2, ConfigFacts
<1>11. Missed = fails * R + IF pc = "updating" THEN R - 1 ELSE r
  BY DEF Missed, SickRounds
<1>12. M = fails' * R + IF pc' = "updating" THEN R - 1
                        ELSE IF sick' < R THEN sick' ELSE R - 1
  BY <1>7
<1> HIDE DEF R
<1>13. fails * R \in Nat /\ (fails + 1) * R = fails * R + R
  BY <1>2, <1>10
<1> USE DEF RoundInv, IdleInv, CheckingInv, UpdatingInv, AppliedInv, InquiringInv
<1>14. CASE Advance
  <2>1. M = Missed
    BY <1>11, <1>12, <1>14 DEF Advance
  <2>2. N >= NextRound
    BY <1>2, <1>8, <2>1
  <2>3. /\ age' = age + 1
        /\ pc' = pc
        /\ pc # "idle" => left' = left - 1 /\ left > 0
        /\ next' = IF next = 1 THEN cfg.HeartbeatInterval ELSE next - 1
        /\ pc = "idle" => ~due
    BY <1>14 DEF Advance
  <2>4. ~due' => ~due /\ next # 1
    BY <1>14 DEF Advance
  <2>5. due' /\ ~due => next = 1
    BY <1>14 DEF Advance
  <2> QED
    BY <1>2, <1>3, <1>4, <1>5, <2>2, <2>3, <2>4, <2>5
<1>15. CASE BeginHeartbeat
  <2>1. M >= Missed
    BY <1>2, <1>10, <1>11, <1>12, <1>13, <1>15 DEF BeginHeartbeat
  <2>2. N >= NextRound
    BY <1>2, <1>8, <2>1
  <2> QED
    BY <1>2, <1>3, <1>5, <1>15, <2>2 DEF BeginHeartbeat
<1>16. CASE Unhealthy
  <2>1. pc' = "idle" => M > Missed
    BY <1>2, <1>5, <1>10, <1>11, <1>12, <1>13, <1>16 DEF Unhealthy
  <2>2. pc' = "idle" => N >= NextRound + Period
    BY <1>2, <1>8, <2>1
  <2> QED
    BY <1>2, <1>3, <1>5, <1>16, <2>2 DEF Unhealthy
<1>17. CASE Healthy
  <2>1. M >= Missed
    BY <1>2, <1>10, <1>11, <1>12, <1>13, <1>17 DEF Healthy
  <2>2. N >= NextRound
    BY <1>2, <1>8, <2>1
  <2> QED
    BY <1>2, <1>3, <1>5, <1>17, <2>2 DEF Healthy
<1>18. CASE Applies
  BY <1>2, <1>3, <1>5, <1>18 DEF Applies
<1>19. CASE Answered
  BY <1>2, <1>3, <1>5, <1>8, <1>19 DEF Answered
<1>20. CASE Conflict
  BY <1>2, <1>3, <1>4, <1>5, <1>20 DEF Conflict
<1>21. CASE HandleConflict
  BY <1>21 DEF HandleConflict
<1>22. CASE UpdateFails
  <2>1. CASE pc = "updating"
    <3>1. M > Missed
      BY <1>2, <1>6, <1>10, <1>11, <1>12, <1>13, <1>22, <2>1 DEF UpdateFails
    <3>2. N >= NextRound + Period
      BY <1>2, <1>8, <3>1
    <3> QED
      BY <1>2, <1>3, <1>5, <1>22, <2>1, <3>2 DEF UpdateFails
  <2>2. CASE pc = "applied"
    <3>1. Period + Period <= N
      BY <1>2, <1>8, <1>22 DEF UpdateFails
    <3> QED
      BY <1>2, <1>3, <1>5, <1>22, <2>2, <3>1 DEF UpdateFails
  <2> QED
    BY <1>22, <2>1, <2>2 DEF UpdateFails
<1>23. CASE LateApplies
  <2>1. age' = 0 /\ left' = left /\ next' = next /\ pc' = pc
    BY <1>23 DEF LateApplies
  <2>2. Period <= N
    BY <1>8
  <2> QED
    BY <1>2, <1>3, <1>4, <1>5, <2>1, <2>2
<1> QED
  BY <1>14, <1>15, <1>16, <1>17, <1>18, <1>19, <1>20, <1>21, <1>22, <1>23
     DEF TimingNext

\* A step keeps the inductive invariant.
LEMMA TimeNext == TimeInv /\ [TimingNext]_timingVars => TimeInv'
<1>1. ASSUME TimeInv, TimingNext
      PROVE  TimeInv'
  BY <1>1, TimeTypes, RoundsNext DEF TimeInv, RoundInv
<1>2. ASSUME TimeInv, UNCHANGED timingVars
      PROVE  TimeInv'
  BY <1>2 DEF timingVars, TimeInv, TimingTypeOK, LeadingInv, IdleInv,
       CheckingInv, UpdatingInv, AppliedInv, InquiringInv, Leading, ValidConfig,
       UpdateTimeout, MaxHealthFailures, RoundTime, Period, RoundsPerFailure,
       SickRounds, Missed, Deadline, NextRound, LastDeadline
<1> QED
  BY <1>1, <1>2

\* The inductive invariant holds throughout a term.
LEMMA TimeHolds == TimingSpec => []TimeInv
BY TimeInit, TimeNext, PTL DEF TimingSpec

(***************************************************************************)
(* The counters, timers and flags of a term of heartbeatLoop keep their    *)
(* types, for every configuration: a leader's ticker stays within its      *)
(* interval, no timeout runs below zero, and no failed heartbeat is        *)
(* counted beyond MaxFailures.                                             *)
(***************************************************************************)
THEOREM TimingTypeCorrect == TimingSpec => []TimingTypeOK
<1>1. TimeInv => TimingTypeOK
  BY DEF TimeInv
<1> QED
  BY <1>1, TimeHolds, PTL

(***************************************************************************)
(* For every configuration that validateConfig accepts, a leader of        *)
(* heartbeat.go whose heartbeats no longer reach the key gives up within   *)
(* MaxFailures times RoundsPerFailure rounds of at most Period, the last   *)
(* round, and the kv.Get of a conflict, wherever ticks, health checks,     *)
(* timeouts and late Updates fall.                                         *)
(***************************************************************************)
THEOREM LeaderGivesUpInTime == TimingSpec => []RenewedOrDemoted
<1>1. ASSUME TimeInv
      PROVE  RenewedOrDemoted
  <2> SUFFICES ASSUME Leading PROVE age <= LastDeadline
    BY DEF RenewedOrDemoted, LastDeadline
  <2>1. /\ ValidConfig(cfg) /\ cfg \in Configs
        /\ age \in Nat /\ left \in Nat /\ NextRound \in Nat /\ next \in Nat
        /\ Period <= NextRound
        /\ NextRound + RoundTime + GetTimeout <= LastDeadline
    BY <1>1, TermFacts, ConfigFacts
  <2>2. /\ RoundTime \in Nat /\ UpdateTimeout \in Nat /\ Period \in Nat
        /\ GetTimeout \in Nat /\ RoundsPerFailure \in Nat
        /\ UpdateTimeout <= RoundTime
    BY <2>1, ConfigFacts, TimingAssumption
  <2>3. LastDeadline \in Int
    BY <2>2, TimingAssumption DEF LastDeadline
  <2>4. pc \in {"idle", "checking", "updating", "applied", "inquiring"}
    BY <1>1 DEF TimeInv, TimingTypeOK, Leading
  <2>5. CASE pc = "inquiring"
    BY <1>1, <2>1, <2>3, <2>5, TimingAssumption DEF TimeInv, InquiringInv
  <2>6. CASE pc # "inquiring"
    <3>1. age <= NextRound + RoundTime
      BY <1>1, <2>1, <2>2, <2>4, <2>6
         DEF TimeInv, IdleInv, CheckingInv, UpdatingInv, AppliedInv
    <3> QED
      BY <2>1, <2>2, <2>3, <3>1
  <2> QED
    BY <2>5, <2>6
<1> QED
  BY <1>1, TimeHolds, PTL

-----------------------------------------------------------------------------
(***************************************************************************)
(* The configurations OneMissIsSurvived is about, and a leader that has    *)
(* missed one heartbeat at most.                                           *)
(***************************************************************************)
OneMiss ==
  /\ Leading /\ ~cfg.HealthChecker /\ fails <= 1
  /\ Latency + UpdateTimeout < cfg.HeartbeatInterval

\* The entry's age stays below three intervals until a conflict is found.
LEMMA OneMissAge ==
  ASSUME TimeInv, OneMiss, pc # "inquiring"
  PROVE  age < cfg.TTL
<1> DEFINE H == cfg.HeartbeatInterval
           U == UpdateTimeout
<1>1. /\ ValidConfig(cfg) /\ cfg \in Configs
      /\ age \in Nat /\ left \in Nat /\ next \in Nat
      /\ fails \in Nat /\ sick \in Nat
  BY TermFacts, ConfigFacts DEF OneMiss
<1>2. /\ H \in Nat /\ U \in Nat /\ cfg.TTL \in Int
      /\ cfg.TTL >= 3 * H
  BY <1>1, ConfigFacts, TimingAssumption DEF ValidConfig, Config
<1>3. Latency + U < H
  BY DEF OneMiss
<1>4. RoundTime = U /\ Period = H
  BY <1>2, <1>3, TimingAssumption DEF RoundTime, Period, OneMiss
<1>5. Missed = fails
  BY <1>1 DEF Missed, SickRounds, RoundsPerFailure, OneMiss
<1>6. NextRound = Latency + (fails + 1) * H
  BY <1>4, <1>5 DEF NextRound, Deadline
<1>7. pc \in {"idle", "updating", "applied"}
  BY DEF TimeInv, TimingTypeOK, Leading, CheckingInv, OneMiss
<1> HIDE DEF H, U
<1>8. NextRound <= Latency + 2 * H /\ NextRound \in Nat
  <2>1. fails = 0 \/ fails = 1
    BY <1>1 DEF OneMiss
  <2> QED
    BY <1>2, <1>6, <2>1, TimingAssumption
<1>9. age <= NextRound + U \/ age <= U
  BY <1>1, <1>2, <1>4, <1>7, <1>8
     DEF TimeInv, IdleInv, UpdatingInv, AppliedInv, U
<1> QED
  BY <1>1, <1>2, <1>3, <1>8, <1>9, TimingAssumption

(***************************************************************************)
(* What validateConfig's TTL >= 3 * HeartbeatInterval buys a leader of     *)
(* heartbeat.go without a health checker, for every configuration in which *)
(* the first tick's delay and updateTimeout fall short of the interval:    *)
(* after one lost or slow heartbeat its entry has not expired, and no      *)
(* conflict deposes it but the one of its own Update, applied unseen.      *)
(***************************************************************************)
THEOREM OneMissSurvived == TimingSpec => []OneMissIsSurvived
<1>1. TimeInv /\ pc # "inquiring" => OneMissIsSurvived
  BY OneMissAge DEF OneMissIsSurvived, OneMiss, EntryIsOurs
<1>2. TimingInit => OneMissIsSurvived
  <2>1. TimingInit => pc # "inquiring"
    BY DEF TimingInit
  <2> QED
    BY <1>1, <2>1, TimeInit
<1>3. ASSUME TimeInv, OneMissIsSurvived, [TimingNext]_timingVars
      PROVE  OneMissIsSurvived'
  <2>1. TimeInv'
    BY <1>3, TimeNext
  <2>2. CASE pc' # "inquiring"
    <3>1. (pc # "inquiring")'
      BY <2>2
    <3> QED
      BY <1>1, <2>1, <3>1, PTL
  <2>3. CASE pc' = "inquiring"
    <3>1. SUFFICES ASSUME OneMiss' PROVE old'
      BY DEF OneMissIsSurvived, OneMiss
    <3>2. TimingNext => Leading /\ cfg' = cfg
      BY <1>3, TimeTypes
    <3>3. TimingNext =>
            pc \in {"updating", "inquiring"} /\ fails' = fails /\ (old => old')
      BY <2>3 DEF TimingNext, Advance, BeginHeartbeat, Unhealthy, Healthy,
           Applies, Answered, Conflict, HandleConflict, UpdateFails, LateApplies
    <3>4. TimingNext => OneMiss
      BY <3>1, <3>2, <3>3, ConfigStays DEF OneMiss
    <3>5. CASE TimingNext /\ pc = "inquiring"
      BY <1>3, <3>3, <3>4, <3>5 DEF OneMissIsSurvived, OneMiss
    <3>6. CASE TimingNext /\ pc = "updating"
      <4>1. Conflict
        BY <2>3, <3>6 DEF TimingNext, Advance, BeginHeartbeat, Unhealthy,
             Healthy, Applies, Answered, Conflict, HandleConflict, UpdateFails,
             LateApplies
      <4>2. age < cfg.TTL
        BY <1>3, <3>4, <3>6, OneMissAge
      <4> QED
        BY <3>3, <3>6, <4>1, <4>2 DEF Conflict, EntryIsOurs
    <3>7. CASE UNCHANGED timingVars
      BY <1>3, <2>3, <3>1, <3>7, ConfigStays
         DEF timingVars, OneMissIsSurvived, OneMiss, Leading
    <3> QED
      BY <1>3, <3>3, <3>5, <3>6, <3>7
  <2> QED
    BY <2>2, <2>3
<1> QED
  BY <1>2, <1>3, TimeHolds, PTL DEF TimingSpec

=============================================================================
