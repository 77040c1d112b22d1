----------------------------- MODULE RetryProofs ------------------------------
(***************************************************************************)
(* Any number of goroutines behind one circuit breaker, with any threshold *)
(* and cooldown: its fields agree whenever cb.mu is free, and it never     *)
(* lets a call through within the cooldown.                                *)
(*                                                                         *)
(* BreakerConsistent alone is not inductive.  What it rests on is that     *)
(* Call keeps cb.mu from the check of the state to the record of the       *)
(* result: the holder of cb.mu is the one caller in the function (MuInv),  *)
(* and while it is there the breaker is closed and below the threshold, or *)
(* half-open and at it (StateInv).                                         *)
(***************************************************************************)
EXTENDS Retry, TLAPS

MuInv ==
  \A c \in Callers :
    /\ pc[c] = "lock" => c \in WithBreaker
    /\ c \in WithBreaker => (pc[c] = "fn" <=> mu = c)

SleepInv == \A c \in Callers : pc[c] = "sleep" => ~LastAttempt(c)

StateInv ==
  /\ state = "open" => mu = NoCaller
  /\ state = "halfOpen" => mu # NoCaller
  /\ state = "closed" => ~Tripped
  /\ FailureThreshold > 0 /\ state # "closed" => Tripped

RetryInv == RetryTypeOK /\ MuInv /\ SleepInv /\ StateInv

LEMMA RetryInvInit == RetryInit => RetryInv
<1> SUFFICES ASSUME RetryInit
             PROVE  RetryInv
  OBVIOUS
<1> USE RetryAssumption DEF RetryInit
<1>1. RetryTypeOK
  BY DEF RetryTypeOK
<1>2. MuInv
  BY DEF MuInv
<1>3. SleepInv /\ StateInv
  BY DEF SleepInv, StateInv, Tripped
<1> QED
  BY <1>1, <1>2, <1>3 DEF RetryInv

(***************************************************************************)
(* A caller's step outside the breaker.                                    *)
(***************************************************************************)
LEMMA CallerPreserves ==
  ASSUME RetryInv, NEW c \in Callers,
         Begin(c) \/ Cancel(c) \/ CheckContext(c) \/ BackoffOver(c)
           \/ BackoffCancelled(c) \/ Refused(c)
  PROVE  RetryInv'
<1> USE RetryAssumption DEF RetryInv
<1>1. UNCHANGED breakerVars
  BY DEF Begin, Cancel, CheckContext, BackoffOver, BackoffCancelled, Refused
<1>2. StateInv'
  BY <1>1 DEF StateInv, Tripped, breakerVars
<1>3. CASE Begin(c)
  BY <1>1, <1>2, <1>3
     DEF Begin, Goto, RetryTypeOK, MuInv, SleepInv, LastAttempt, breakerVars
<1>4. CASE Cancel(c)
  BY <1>1, <1>2, <1>4
     DEF Cancel, RetryTypeOK, MuInv, SleepInv, LastAttempt, breakerVars
<1>5. CASE CheckContext(c)
  BY <1>1, <1>2, <1>5
     DEF CheckContext, AttemptPc, Goto, RetryTypeOK, MuInv, SleepInv,
         LastAttempt, breakerVars
<1>6. CASE BackoffOver(c)
  <2>1. MaxAttempts[c] > 0 => attempt[c] + 1 < MaxAttempts[c]
    BY <1>6 DEF BackoffOver, SleepInv, LastAttempt, RetryTypeOK
  <2> QED
    BY <1>1, <1>2, <1>6, <2>1
       DEF BackoffOver, Goto, RetryTypeOK, MuInv, SleepInv, LastAttempt,
           breakerVars
<1>7. CASE BackoffCancelled(c) \/ Refused(c)
  BY <1>1, <1>2, <1>7
     DEF BackoffCancelled, Refused, Goto, RetryTypeOK, MuInv, SleepInv,
         LastAttempt, breakerVars
<1> QED
  BY <1>3, <1>4, <1>5, <1>6, <1>7

LEMMA AdmittedPreserves ==
  ASSUME RetryInv, NEW c \in Callers, Admitted(c)
  PROVE  RetryInv'
<1> USE RetryAssumption DEF RetryInv, Admitted, Goto
<1>1. c \in WithBreaker
  BY DEF MuInv
<1>2. RetryTypeOK'
  BY <1>1 DEF RetryTypeOK
<1>3. MuInv'
  BY <1>1 DEF MuInv, RetryTypeOK
<1>4. SleepInv'
  BY DEF SleepInv, LastAttempt, RetryTypeOK
<1>5. StateInv'
  BY <1>1 DEF StateInv, Tripped, RetryTypeOK
<1> QED
  BY <1>2, <1>3, <1>4, <1>5

(***************************************************************************)
(* Recorded, on its own: what Call leaves when it unlocks cb.mu.           *)
(***************************************************************************)
LEMMA RecordedEffect ==
  ASSUME RetryInv, mu # NoCaller, NEW e, Recorded(e)
  PROVE  /\ state' \in {"closed", "open"}
         /\ failures' \in 0..FailureThreshold
         /\ since' \in 0..CooldownPeriod
         /\ state' = "closed" => ~Tripped'
         /\ FailureThreshold > 0 /\ state' = "open" => Tripped'
<1> USE RetryAssumption DEF RetryInv, RetryTypeOK, StateInv, Tripped, Recorded
<1>1. CASE e = NoError
  BY <1>1
<1>2. CASE e # NoError
  BY <1>2
<1> QED
  BY <1>1, <1>2

LEMMA FnReturnsPreserves ==
  ASSUME RetryInv, NEW c \in Callers, NEW e, FnReturns(c, e)
  PROVE  RetryInv'
<1> USE RetryAssumption DEF RetryInv
<1>1. /\ pc[c] = "fn"
      /\ pc' = [pc EXCEPT ![c] = IF Returns(c, e) THEN "idle" ELSE "sleep"]
      /\ UNCHANGED <<attempt, cancelled>>
  BY DEF FnReturns, Goto
<1>2. pc'[c] = "sleep" => ~LastAttempt(c)
  BY <1>1 DEF Returns, RetryTypeOK
<1>3. SleepInv'
  BY <1>1, <1>2 DEF SleepInv, LastAttempt, RetryTypeOK
<1>4. pc' \in [Callers -> {"idle", "check", "lock", "fn", "sleep"}]
  BY <1>1 DEF RetryTypeOK
<1>5. CASE c \in WithBreaker
  <2>1. Recorded(e) /\ mu' = NoCaller /\ mu = c /\ mu # NoCaller
    BY <1>1, <1>5 DEF FnReturns, MuInv
  <2>2. RetryTypeOK'
    BY <1>1, <1>4, <2>1, RecordedEffect DEF RetryTypeOK
  <2>3. MuInv'
    BY <1>1, <2>1 DEF MuInv, RetryTypeOK
  <2>4. StateInv'
    BY <2>1, RecordedEffect DEF StateInv
  <2> QED
    BY <1>3, <2>2, <2>3, <2>4
<1>6. CASE c \notin WithBreaker
  <2>1. UNCHANGED breakerVars
    BY <1>6 DEF FnReturns
  <2> QED
    BY <1>1, <1>3, <1>4, <1>6, <2>1
       DEF RetryTypeOK, MuInv, StateInv, Tripped, breakerVars
<1> QED
  BY <1>5, <1>6

LEMMA RetryInvNext == RetryInv /\ [RetryNext]_retryVars => RetryInv'
<1> SUFFICES ASSUME RetryInv, [RetryNext]_retryVars
             PROVE  RetryInv'
  OBVIOUS
<1>1. CASE TimePasses
  BY <1>1, RetryAssumption
     DEF TimePasses, callerVars, RetryInv, RetryTypeOK, MuInv, SleepInv,
         LastAttempt, StateInv, Tripped
<1>2. CASE UNCHANGED retryVars
  BY <1>2 DEF retryVars, RetryInv, RetryTypeOK, MuInv, SleepInv, LastAttempt,
              StateInv, Tripped
<1> QED
  BY <1>1, <1>2, CallerPreserves, AdmittedPreserves, FnReturnsPreserves
     DEF RetryNext, Progress, EntersBreaker

LEMMA RetryInvHolds == RetrySpec => []RetryInv
BY RetryInvInit, RetryInvNext, PTL DEF RetrySpec

(***************************************************************************)
(* The circuit breaker's state, failureCount and cb.mu agree after any     *)
(* number of calls of any number of goroutines: open exactly at the        *)
(* threshold while cb.mu is free, half-open only during the one probe.     *)
(***************************************************************************)
THEOREM BreakerSafe == RetrySpec => []BreakerConsistent
<1>1. RetryInv => BreakerConsistent
  BY DEF RetryInv, RetryTypeOK, StateInv, BreakerConsistent
<1> QED
  BY <1>1, RetryInvHolds, PTL

(***************************************************************************)
(* RetryWithBackoff and CircuitBreaker stay in their types for any number  *)
(* of callers, any MaxAttempts and any threshold: no caller goes beyond    *)
(* its last attempt, and the breaker does not count beyond the threshold.  *)
(***************************************************************************)
THEOREM RetryTypeCorrect == RetrySpec => []RetryTypeOK
<1>1. RetryInv => RetryTypeOK
  BY DEF RetryInv
<1> QED
  BY <1>1, RetryInvHolds, PTL

(***************************************************************************)
(* A tripped breaker calls nothing within the cooldown: not even for a     *)
(* goroutine that was waiting for cb.mu when it tripped.                   *)
(***************************************************************************)
THEOREM BreakerRefuses == RetrySpec => NoCallWhileTripped
<1>1. ASSUME RetryInv, [RetryNext]_retryVars
      PROVE  [CallStep]_retryVars
  <2> SUFFICES ASSUME NEW c \in WithBreaker, pc[c] # "fn", pc'[c] = "fn", Tripped
               PROVE  since = CooldownPeriod
    BY DEF CallStep
  <2> USE RetryAssumption DEF RetryInv
  <2>1. c \in Callers
    OBVIOUS
  <2>2. RetryNext
    BY <1>1 DEF retryVars
  <2>3. Admitted(c)
    <3>1. ASSUME NEW d \in Callers,
                 Begin(d) \/ Cancel(d) \/ Progress(d) \/ Refused(d)
          PROVE  FALSE
      BY <1>1, <2>1, <3>1
         DEF Begin, Cancel, Progress, Refused, CheckContext, AttemptPc,
             FnReturns, BackoffOver, BackoffCancelled, Goto, RetryTypeOK
    <3>2. ~TimePasses
      BY DEF TimePasses, callerVars
    <3>3. ASSUME NEW d \in Callers, Admitted(d)
          PROVE  d = c
      BY <1>1, <2>1, <3>3 DEF Admitted, Goto, RetryTypeOK
    <3> QED
      BY <2>2, <3>1, <3>2, <3>3 DEF RetryNext, EntersBreaker
  <2>4. mu = NoCaller /\ ~Cooling
    BY <2>3 DEF Admitted
  <2>5. state = "open"
    BY <1>1, <2>4 DEF StateInv, RetryTypeOK
  <2> QED
    BY <1>1, <2>4, <2>5 DEF Cooling, RetryTypeOK
<1> QED
  BY <1>1, RetryInvHolds, PTL DEF RetrySpec, NoCallWhileTripped

=============================================================================
