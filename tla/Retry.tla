-------------------------------- MODULE Retry ---------------------------------
(***************************************************************************)
(* RetryWithBackoff and CircuitBreaker of leader/retry.go, with the error  *)
(* classification of leader/error.go: callers that retry a function, some  *)
(* of them through one shared circuit breaker.                             *)
(*                                                                         *)
(* Call holds cb.mu while the function runs; mu is the caller that has it. *)
(* since is the time since lastFailureTime, counted up to cooldownPeriod,  *)
(* and failures is counted up to failureThreshold: larger values are not   *)
(* told apart.                                                             *)
(***************************************************************************)
EXTENDS Naturals

CONSTANTS
  Callers,           \* goroutines that call RetryWithBackoff
  WithBreaker,       \* those whose RetryConfig has the circuit breaker
  MaxAttempts,       \* MaxAttempts[c], 0 for no limit
  FailureThreshold, CooldownPeriod,
  Errors,            \* the errors the function may return
  NoError, NoCaller

(***************************************************************************)
(* What the code asks of an error: is its type *TimeoutError, does it wrap *)
(* context.Canceled or DeadlineExceeded, is one of permanentPatterns in    *)
(* its text, does it wrap one of the three permanent errors, and is its    *)
(* text that of an open breaker.                                           *)
(***************************************************************************)
ErrorRec ==
  [timeout : BOOLEAN, context : BOOLEAN, permanentText : BOOLEAN,
   permanentCause : BOOLEAN, openText : BOOLEAN]

ASSUME RetryAssumption ==
  /\ WithBreaker \subseteq Callers
  /\ MaxAttempts \in [Callers -> Nat]
  /\ FailureThreshold \in Nat
  /\ CooldownPeriod \in Nat
  /\ Errors \subseteq ErrorRec
  /\ NoError \notin ErrorRec
  /\ NoCaller \notin Callers

VARIABLES pc, attempt, cancelled, state, failures, since, mu

callerVars == <<pc, attempt, cancelled>>
breakerVars == <<state, failures, since, mu>>
retryVars == <<pc, attempt, cancelled, state, failures, since, mu>>

RetryTypeOK ==
  /\ pc \in [Callers -> {"idle", "check", "lock", "fn", "sleep"}]
  /\ attempt \in [Callers -> Nat]
  /\ \A c \in Callers : MaxAttempts[c] > 0 => attempt[c] < MaxAttempts[c]
  /\ cancelled \in [Callers -> BOOLEAN]
  /\ state \in {"closed", "open", "halfOpen"}
  /\ failures \in 0..FailureThreshold
  /\ since \in 0..CooldownPeriod
  /\ mu \in WithBreaker \cup {NoCaller}

RetryInit ==
  /\ pc = [c \in Callers |-> "idle"]
  /\ attempt = [c \in Callers |-> 0]
  /\ cancelled = [c \in Callers |-> FALSE]
  /\ state = "closed"
  /\ failures = 0
  /\ since = 0
  /\ mu = NoCaller

-----------------------------------------------------------------------------
(***************************************************************************)
(* IsPermanentError.  Every other error is transient (IsTransientError).   *)
(***************************************************************************)
IsPermanentError(e) ==
  /\ e # NoError
  /\ ~e.timeout /\ ~e.context
  /\ e.permanentText \/ e.permanentCause

Goto(c, p) == pc' = [pc EXCEPT ![c] = p]

(***************************************************************************)
(* RetryWithBackoff is called; each call has a context of its own.         *)
(***************************************************************************)
Begin(c) ==
  /\ pc[c] = "idle"
  /\ Goto(c, "check")
  /\ attempt' = [attempt EXCEPT ![c] = 0]
  /\ cancelled' = [cancelled EXCEPT ![c] = FALSE]
  /\ UNCHANGED breakerVars

Cancel(c) ==
  /\ pc[c] # "idle"
  /\ cancelled' = [cancelled EXCEPT ![c] = TRUE]
  /\ UNCHANGED <<pc, attempt, breakerVars>>

AttemptPc(c) == IF c \in WithBreaker THEN "lock" ELSE "fn"

(***************************************************************************)
(* Mutant of CheckContext: ctx.Err() is not looked at.                     *)
(***************************************************************************)
CheckContextSkipped(c) ==
  /\ pc[c] = "check"
  /\ Goto(c, AttemptPc(c))
  /\ UNCHANGED <<attempt, cancelled, breakerVars>>

CheckContext(c) ==
  /\ pc[c] = "check"
  /\ Goto(c, IF cancelled[c] THEN "idle" ELSE AttemptPc(c))
  /\ UNCHANGED <<attempt, cancelled, breakerVars>>

-----------------------------------------------------------------------------
(***************************************************************************)
(* CircuitBreaker.Call up to the call of the function: an open breaker     *)
(* refuses, and RetryWithBackoff returns, until cooldownPeriod has passed. *)
(***************************************************************************)
Cooling == state = "open" /\ since < CooldownPeriod

Refused(c) ==
  /\ pc[c] = "lock"
  /\ mu = NoCaller
  /\ Cooling
  /\ Goto(c, "idle")
  /\ UNCHANGED <<attempt, cancelled, breakerVars>>

(***************************************************************************)
(* Mutant of Admitted: the state is read before cb.mu is locked, so that a *)
(* breaker that opens during the wait does not refuse.                     *)
(***************************************************************************)
AdmittedUnseen(c) ==
  /\ pc[c] = "lock"
  /\ mu = NoCaller
  /\ state' = IF state = "open" THEN "halfOpen" ELSE state
  /\ mu' = c
  /\ Goto(c, "fn")
  /\ UNCHANGED <<attempt, cancelled, failures, since>>

Admitted(c) ==
  /\ pc[c] = "lock"
  /\ mu = NoCaller
  /\ ~Cooling
  /\ state' = IF state = "open" THEN "halfOpen" ELSE state
  /\ mu' = c
  /\ Goto(c, "fn")
  /\ UNCHANGED <<attempt, cancelled, failures, since>>

(***************************************************************************)
(* Mutant of Recorded: a success closes the breaker and keeps the count.   *)
(***************************************************************************)
RecordedUnreset(e) ==
  LET count == IF failures < FailureThreshold THEN failures + 1 ELSE failures
  IN IF e = NoError
       THEN state' = "closed" /\ UNCHANGED <<failures, since>>
       ELSE /\ failures' = count
            /\ since' = 0
            /\ state' = IF count >= FailureThreshold THEN "open" ELSE state

(***************************************************************************)
(* CircuitBreaker.Call after the function has returned e.                  *)
(***************************************************************************)
Recorded(e) ==
  LET count == IF failures < FailureThreshold THEN failures + 1 ELSE failures
  IN IF e = NoError
       THEN state' = "closed" /\ failures' = 0 /\ UNCHANGED since
       ELSE /\ failures' = count
            /\ since' = 0
            /\ state' = IF count >= FailureThreshold THEN "open" ELSE state

(***************************************************************************)
(* Mutant of LastAttempt: attempt, which counts from 0, is compared as is. *)
(***************************************************************************)
LastAttemptOffByOne(c) == MaxAttempts[c] > 0 /\ attempt[c] >= MaxAttempts[c]

(***************************************************************************)
(* What RetryWithBackoff makes of the answer: return, or back off.         *)
(***************************************************************************)
LastAttempt(c) == MaxAttempts[c] > 0 /\ attempt[c] + 1 >= MaxAttempts[c]

Returns(c, e) ==
  \/ e = NoError
  \/ c \in WithBreaker /\ e.openText
  \/ IsPermanentError(e)
  \/ LastAttempt(c)

FnReturns(c, e) ==
  /\ pc[c] = "fn"
  /\ IF c \in WithBreaker THEN Recorded(e) /\ mu' = NoCaller
                          ELSE UNCHANGED breakerVars
  /\ Goto(c, IF Returns(c, e) THEN "idle" ELSE "sleep")
  /\ UNCHANGED <<attempt, cancelled>>

(***************************************************************************)
(* The select on ctx.Done() and time.After(CalculateBackoff(...)): the     *)
(* backoff takes some time.  Attempts are counted where there is a limit.  *)
(***************************************************************************)
BackoffOver(c) ==
  /\ pc[c] = "sleep"
  /\ Goto(c, "check")
  /\ attempt' = [attempt EXCEPT ![c] = IF MaxAttempts[c] > 0 THEN @ + 1 ELSE @]
  /\ UNCHANGED <<cancelled, breakerVars>>

BackoffCancelled(c) ==
  /\ pc[c] = "sleep"
  /\ cancelled[c]
  /\ Goto(c, "idle")
  /\ UNCHANGED <<attempt, cancelled, breakerVars>>

TimePasses ==
  /\ since < CooldownPeriod
  /\ since' = since + 1
  /\ UNCHANGED <<callerVars, state, failures, mu>>

Progress(c) ==
  \/ CheckContext(c)
  \/ \E e \in Errors \cup {NoError} : FnReturns(c, e)
  \/ BackoffOver(c) \/ BackoffCancelled(c)

EntersBreaker(c) == Refused(c) \/ Admitted(c)

RetryNext ==
  \/ \E c \in Callers : Begin(c) \/ Cancel(c) \/ Progress(c) \/ EntersBreaker(c)
  \/ TimePasses

RetrySpec == RetryInit /\ [][RetryNext]_retryVars

(***************************************************************************)
(* The function returns, timers fire, and a goroutine that waits for cb.mu *)
(* gets it some day: sync.Mutex does not starve a waiter.                  *)
(***************************************************************************)
FairRetrySpec ==
  /\ RetrySpec
  /\ \A c \in Callers : WF_retryVars(Progress(c)) /\ SF_retryVars(EntersBreaker(c))

-----------------------------------------------------------------------------
(***************************************************************************)
(* Properties.                                                             *)
(***************************************************************************)
Tripped == failures >= FailureThreshold /\ failures > 0

(***************************************************************************)
(* The breaker's three fields agree whenever cb.mu is free: it is open     *)
(* exactly if failureThreshold failures in a row have been recorded, and   *)
(* half-open is only seen while the one probe runs, whatever callers queue *)
(* up and however their calls end.                                         *)
(***************************************************************************)
BreakerConsistent ==
  /\ FailureThreshold > 0 /\ mu = NoCaller => (state = "open" <=> Tripped)
  /\ state = "halfOpen" => mu # NoCaller
  /\ state = "closed" => ~Tripped

CallStep ==
  \A c \in WithBreaker :
    (pc[c] # "fn" /\ pc'[c] = "fn" /\ Tripped) => since = CooldownPeriod

(***************************************************************************)
(* docs/FEATURES.md: "Circuit breaker prevents retry storms": once         *)
(* failureThreshold failures in a row have been recorded, no caller, those *)
(* that were already waiting included, calls the function again within     *)
(* cooldownPeriod of the last failure.                                     *)
(***************************************************************************)
NoCallWhileTripped == [][CallStep]_retryVars

(***************************************************************************)
(* RetryWithBackoff returns: a call with a limit or a cancelled context    *)
(* comes to an end behind any number of other callers and whatever the     *)
(* function answers.                                                       *)
(***************************************************************************)
RetryReturns ==
  \A c \in Callers :
    (pc[c] # "idle" /\ (MaxAttempts[c] > 0 \/ cancelled[c])) ~> pc[c] = "idle"

=============================================================================
