-------------------------- MODULE MonitoredElection ---------------------------
(***************************************************************************)
(* The election group with its connections and callbacks: KVElection,      *)
(* Connection and Callbacks composed.  A step of an election goroutine is  *)
(* a step of KVElection that                                               *)
(*   - is answered by the KV if and only if the connection is up,          *)
(*   - waits for e.mu where the code locks it, and                         *)
(*   - owes the callbacks that go with it.                                 *)
(* halt[i] follows Stop and StopWithContext through what they do with the  *)
(* disconnectHandler ("lock"), the monitor ("monitor"), the wait ("wait")  *)
(* and the final OnDemote ("notify", "notifyLocked").                      *)
(***************************************************************************)
EXTENDS Connection, Callbacks

VARIABLE halt

HaltPcs == {"none", "lock", "monitor", "wait", "notify", "notifyLocked", "done"}

allVars == <<vars, connVars, app, halt>>

MTypeOK ==
  /\ ConnTypeOK
  /\ AppTypeOK
  /\ halt \in [Instances -> HaltPcs]

MInit ==
  /\ Init
  /\ ConnInit
  /\ AppInit
  /\ halt = [i \in Instances |-> "none"]

-----------------------------------------------------------------------------
(***************************************************************************)
(* Start also starts the monitor, which stores Connected and registers its *)
(* handlers.                                                               *)
(***************************************************************************)
MStart(i) ==
  /\ Start(i)
  /\ MuFree(i)
  /\ conn' = IF i \in Monitored
               THEN [conn EXCEPT ![i].on = TRUE, ![i].status = "connected"]
               ELSE conn
  /\ UNCHANGED <<dh, emu, vf, app, halt>>

(***************************************************************************)
(* attemptAcquire and its callers.  A KV call succeeds if the server       *)
(* agrees and can be reached, and ends in an error otherwise.              *)
(***************************************************************************)
AcqAnswered(i, s) ==
  LET pc == acq[i][s].pc
      next == acq'[i][s].pc
  IN /\ pc = "create" => (next = "promote" <=> Online(i) /\ ~alive)
     /\ pc = "get" => (next = "compare" <=> Online(i) /\ alive)
     /\ pc = "update" =>
          (next = "storeRev" <=> Online(i) /\ CasHolds(acq[i][s].rev))
     /\ pc = "check" /\ ~isLeader[i] => (next = "note" <=> Online(i) /\ alive)

AcqTakesMu(g) == g.pc = "promote" \/ (g.pc = "failed" /\ GivesUp(g))

MAcq(i, s) ==
  /\ AcqProgress(i, s)
  /\ AcqTakesMu(acq[i][s]) => MuFree(i)
  /\ AcqAnswered(i, s)
  /\ IF acq[i][s].pc = "enter" THEN Promotes(i) ELSE UNCHANGED app
  /\ UNCHANGED <<connVars, halt>>

(***************************************************************************)
(* heartbeatLoop.  Offline the Update of a waiting loop fails in the end.  *)
(***************************************************************************)
MHbCall(i, h) ==
  /\ \/ HbExit(i, h) \/ HbTick(i, h) \/ HbLoad(i, h) \/ HbSend(i, h)
     \/ HbOk(i, h)
     \/ Online(i) /\ (HbApplied(i, h) \/ HbRejected(i, h))
     \/ ~Online(i) /\ HbLost(i, h)
  /\ UNCHANGED <<connVars, app, halt>>

MHbFailure(i, h) ==
  /\ HbFailure(i, h)
  /\ IF HbDemotes(hb[i][h]) THEN MuFree(i) /\ Owes(i) ELSE UNCHANGED app
  /\ UNCHANGED <<connVars, halt>>

MHbUnhealthy(i, h) ==
  /\ HbUnhealthy(i, h)
  /\ IF UnhealthyDemotes(i) THEN MuFree(i) /\ Owes(i) ELSE UNCHANGED app
  /\ UNCHANGED <<connVars, halt>>

MHbProgress(i, h) == MHbCall(i, h) \/ MHbFailure(i, h)

(***************************************************************************)
(* validationLoop and ValidateTokenOrDemote.                               *)
(***************************************************************************)
VlAnswered(i, v) ==
  LET g == vl[i][v]
      valid == vl'[i][v].pc \in {"free", "idle"} /\ vl'[i][v].fails = 0
  IN g.pc = "get" =>
       /\ valid => Online(i)
       /\ Online(i) /\ ctx[i] = "live" /\ TokenMatches(i, g.tok) => valid

MVlCall(i, v) ==
  /\ VlExit(i, v) \/ VlTick(i, v) \/ VlValid(i, v) \/ VlInvalid(i, v)
  /\ VlAnswered(i, v)
  /\ UNCHANGED <<connVars, app, halt>>

MVlDemote(i, v) ==
  LET g == vl[i][v]
  IN /\ VlDemote(i, v)
     /\ IF DemotesInvalid(i, g)
          THEN MuFree(i) /\ (IF g.kind = "api" THEN OwesApi(i) ELSE Owes(i))
          ELSE UNCHANGED app
     /\ UNCHANGED <<connVars, halt>>

MValidateTokenOrDemote(i) ==
  ValidateTokenOrDemote(i) /\ UNCHANGED <<connVars, app, halt>>

(***************************************************************************)
(* watchLoop.  Its demotion owes no OnDemote.                              *)
(***************************************************************************)
WatchAnswered(i) ==
  /\ watch[i].pc = "open" => (watch'[i].pc = "idle" <=> Online(i))
  /\ watch[i].pc = "get" => (watch'[i].pc = "store" <=> Online(i) /\ alive)

MWatchProgress(i) ==
  /\ WatchProgress(i)
  /\ watch[i].pc = "demote" => MuFree(i)
  /\ WatchAnswered(i)
  /\ UNCHANGED <<connVars, app, halt>>

MWatchEvent(i) ==
  /\ IF Online(i) THEN \E r \in 1..Rev : WatchEvent(i, r) ELSE WatchClosed(i)
  /\ UNCHANGED <<connVars, app, halt>>

-----------------------------------------------------------------------------
(***************************************************************************)
(* Stop and StopWithContext of a monitored instance keep e.mu while they   *)
(* wait for d.mu to stop the grace timer, and then stop the monitor.       *)
(***************************************************************************)
MStop(i) ==
  /\ Stop(i) \/ StopWithContext(i)
  /\ MuFree(i)
  /\ emu' = [emu EXCEPT ![i] = IF i \in Monitored THEN "stop" ELSE @]
  /\ halt' = [halt EXCEPT ![i] = IF i \in Monitored THEN "lock" ELSE "wait"]
  /\ UNCHANGED <<conn, dh, vf, app>>

HandlerStop(i) ==
  /\ halt[i] = "lock"
  /\ DmuFree(i)
  /\ dh' = [dh EXCEPT ![i].timer = FALSE]
  /\ emu' = [emu EXCEPT ![i] = "free"]
  /\ halt' = [halt EXCEPT ![i] = "monitor"]
  /\ UNCHANGED <<vars, conn, vf, app>>

(***************************************************************************)
(* Callbacks that wait in the queue find no handler any more.              *)
(***************************************************************************)
MonitorStop(i) ==
  /\ halt[i] = "monitor"
  /\ conn' = [conn EXCEPT ![i].on = FALSE, ![i].queue = <<>>,
                          ![i].status = "disconnected"]
  /\ halt' = [halt EXCEPT ![i] = "wait"]
  /\ UNCHANGED <<vars, dh, emu, vf, app>>

(***************************************************************************)
(* e.wg counts verifications, OnPromote calls and the loops that have yet  *)
(* to call OnDemote as well.                                               *)
(***************************************************************************)
MWgDone(i) ==
  /\ WgDone(i)
  /\ \A v \in VfSlots : vf[i][v].pc = "free"
  /\ app[i].promoting = 0 /\ app[i].owed = 0

(***************************************************************************)
(* The rest of both calls.  Each calls OnDemote last if the instance was   *)
(* leader, but StopWithContext not after a timeout.                        *)
(***************************************************************************)
AfterStop(i) ==
  IF ~(stop[i].wasLeader /\ i \in Callbacks) THEN "done"
  ELSE CASE stop[i].pc = "wait" -> "notify"
         [] stop[i].pc = "drain" -> "done"
         [] OTHER -> "notifyLocked"

MStopProgress(i) ==
  /\ halt[i] = "wait"
  /\ \/ (StopReturn(i) \/ StopDrained(i)) /\ MWgDone(i)
     \/ StopClear(i) /\ MuFree(i)
     \/ StopDelete(i) /\ (IF Online(i) THEN ~alive' ELSE UNCHANGED kvVars)
  /\ halt' = [halt EXCEPT ![i] = IF stop'[i].pc = "done" THEN AfterStop(i) ELSE @]
  /\ UNCHANGED <<connVars, app>>

MStopTimeout(i) ==
  /\ halt[i] = "wait"
  /\ StopTimeout(i)
  /\ halt' = [halt EXCEPT ![i] = AfterStop(i)]
  /\ UNCHANGED <<connVars, app>>

StopCallsOnDemote(i) ==
  /\ halt[i] = "notify" \/ (halt[i] = "notifyLocked" /\ MuFree(i))
  /\ OnDemote(i)
  /\ halt' = [halt EXCEPT ![i] = "done"]
  /\ UNCHANGED <<vars, connVars>>

HaltProgress(i) ==
  \/ HandlerStop(i) \/ MonitorStop(i) \/ MStopProgress(i) \/ StopCallsOnDemote(i)

(***************************************************************************)
(* Mutant of GraceDemotes: isLeader is cleared, becomeFollower not called. *)
(***************************************************************************)
GraceForgetsRole(i) ==
  /\ dh[i].holder = "demote"
  /\ MuFree(i)
  /\ isLeader' = [isLeader EXCEPT ![i] = FALSE]
  /\ dh' = [dh EXCEPT ![i].holder = "notify"]
  /\ UNCHANGED <<kvVars, leaderID, token, revision, state, healthFailureCount,
                 ctx, watcherRunning, acq, hb, late, vl, watch, stop>>
  /\ UNCHANGED <<conn, emu, vf, app, halt>>

(***************************************************************************)
(* handleGracePeriodExpired holds d.mu and calls becomeFollower, then      *)
(* reads onDemote under e.mu and calls it.                                 *)
(***************************************************************************)
GraceDemotes(i) ==
  /\ dh[i].holder = "demote"
  /\ MuFree(i)
  /\ GracePeriodDemotes(i)
  /\ dh' = [dh EXCEPT ![i].holder = "notify"]
  /\ UNCHANGED <<conn, emu, vf, app, halt>>

(***************************************************************************)
(* Mutant of GraceCallsOnDemote: onDemote is read without e.mu.            *)
(***************************************************************************)
GraceReadsUnlocked(i) ==
  /\ dh[i].holder = "notify"
  /\ i \in Callbacks => ctx[i] # "nil"
  /\ OnDemote(i)
  /\ dh' = [dh EXCEPT ![i].holder = "none"]
  /\ UNCHANGED <<vars, conn, emu, vf, halt>>

GraceCallsOnDemote(i) ==
  /\ dh[i].holder = "notify"
  /\ MuFree(i)
  /\ i \in Callbacks => ctx[i] # "nil"
  /\ OnDemote(i)
  /\ dh' = [dh EXCEPT ![i].holder = "none"]
  /\ UNCHANGED <<vars, conn, emu, vf, halt>>

(***************************************************************************)
(* The calls of the callbacks; all but OnPromote read onDemote under e.mu. *)
(***************************************************************************)
AppStep(i) ==
  /\ \/ OnPromote(i)
     \/ MuFree(i) /\ (LoopCallsOnDemote(i) \/ ApiCallsOnDemote(i))
  /\ UNCHANGED <<vars, connVars, halt>>

(***************************************************************************)
(* The network, the monitor's callbacks, the grace timer, and one          *)
(* verification.                                                           *)
(***************************************************************************)
LinkStep(i) ==
  (LinkDown(i) \/ LinkUp(i) \/ LinkClosed(i)) /\ UNCHANGED <<app, halt>>

MonitorStep(i) ==
  /\ \/ MonitorDisconnect(i) \/ MonitorReconnect(i) \/ MonitorClosed(i)
     \/ HandleDisconnect(i) \/ HandleReconnect(i)
  /\ UNCHANGED <<app, halt>>

GraceStep(i) ==
  \/ GraceTimerFires(i) /\ UNCHANGED <<app, halt>>
  \/ GracePeriodExpired(i) /\ UNCHANGED <<app, halt>>
  \/ GraceDemotes(i)
  \/ GraceCallsOnDemote(i)

VerifyStep(i, v) ==
  /\ \/ VerifyGet(i, v) \/ VerifyToken(i, v)
     \/ VerificationPassed(i, v) \/ VerificationFailed(i, v)
  /\ UNCHANGED <<app, halt>>

(***************************************************************************)
(* A process that died starts again with a new connection.                 *)
(***************************************************************************)
AppUsesCtx(i) ==
  ~NoCallPending(i) \/ (dh[i].holder = "notify" /\ i \in Callbacks)

MDies(i) ==
  /\ \/ Crash(i)
     \/ Panic(i) /\ (UsesCtx(i) \/ ConnUsesCtx(i) \/ AppUsesCtx(i))
  /\ conn' = [conn EXCEPT ![i] = [NewConn EXCEPT !.flaps = conn[i].flaps]]
  /\ dh' = [dh EXCEPT ![i] = NewHandler]
  /\ emu' = [emu EXCEPT ![i] = "free"]
  /\ vf' = [vf EXCEPT ![i] = [v \in VfSlots |-> FreeVf]]
  /\ app' = [app EXCEPT ![i] = NewApp]
  /\ halt' = [halt EXCEPT ![i] = IF @ = "none" THEN @ ELSE "done"]

MCancel(i) == CancelContext(i) /\ UNCHANGED <<connVars, app, halt>>

(***************************************************************************)
(* Steps that no goroutine of the group takes.                             *)
(***************************************************************************)
Elsewhere ==
  /\ Expire \/ (\E u \in late : LateUpdate(u)) \/ BoundReached
  /\ UNCHANGED <<connVars, app, halt>>

GoroutineStep(i) ==
  \/ \E s \in AcqSlots : MAcq(i, s)
  \/ \E h \in HbSlots : MHbProgress(i, h) \/ MHbUnhealthy(i, h)
  \/ \E v \in VlSlots : MVlCall(i, v) \/ MVlDemote(i, v)
  \/ MWatchProgress(i) \/ MWatchEvent(i)
  \/ MonitorStep(i) \/ GraceStep(i) \/ \E v \in VfSlots : VerifyStep(i, v)
  \/ AppStep(i)

ApplicationStep(i) ==
  \/ MStart(i) \/ MValidateTokenOrDemote(i) \/ MCancel(i)
  \/ MStop(i) \/ HaltProgress(i) \/ MStopTimeout(i)

MNext ==
  \/ \E i \in Instances :
       GoroutineStep(i) \/ ApplicationStep(i) \/ LinkStep(i) \/ MDies(i)
  \/ Elsewhere

MSpec == MInit /\ [][MNext]_allVars

(***************************************************************************)
(* Fairness.  Every goroutine takes the steps it can take, with the help   *)
(* of its tickers, timers and timeouts; the network and the application    *)
(* promise nothing.                                                        *)
(***************************************************************************)
MFairSpec ==
  /\ MSpec
  /\ \A i \in Instances :
       /\ \A s \in AcqSlots : WF_allVars(MAcq(i, s))
       /\ \A h \in HbSlots : WF_allVars(MHbProgress(i, h))
       /\ WF_allVars(MWatchProgress(i))
       /\ WF_allVars(MonitorStep(i))
       /\ WF_allVars(GraceStep(i))
       /\ \A v \in VfSlots : WF_allVars(VerifyStep(i, v))
       /\ WF_allVars(AppStep(i))

(***************************************************************************)
(* The same with Stop, whose wait needs every select with a case           *)
(* <-ctx.Done() to choose it some day.                                     *)
(***************************************************************************)
MFairStopSpec ==
  /\ MFairSpec
  /\ \A i \in Instances :
       /\ WF_allVars(HaltProgress(i))
       /\ SF_allVars(WatchCancelled(i) /\ UNCHANGED <<connVars, app, halt>>)
       /\ \A v \in VlSlots : WF_allVars(MVlCall(i, v) \/ MVlDemote(i, v))

-----------------------------------------------------------------------------
(***************************************************************************)
(* Properties.                                                             *)
(***************************************************************************)

(***************************************************************************)
(* With connections and callbacks the group is still the group of          *)
(* KVElection: whatever the handlers of leader/connection.go do to an      *)
(* instance is a step that KVElection allows, so that what is shown there  *)
(* (fencing tokens, takeovers, the fenced lease) holds here.               *)
(***************************************************************************)
ElectionImplemented == Init /\ [][Next]_vars

(***************************************************************************)
(* The deadlocks of the code: a verification waits for the e.mu it holds,  *)
(* and Stop holds e.mu and waits for d.mu while the grace timer's          *)
(* goroutine holds d.mu and waits for e.mu, in becomeFollower or to read   *)
(* onDemote.                                                               *)
(***************************************************************************)
SelfDeadlock(i) == emu[i] = "verify"
LockCycle(i) == emu[i] = "stop" /\ dh[i].holder # "none"

(***************************************************************************)
(* A running leader that is cut off, or whose entry is gone, does not stay *)
(* leader: the failing heartbeats, the grace timer or the watch depose it, *)
(* or it is connected and holds the key again, whatever order the          *)
(* connection's callbacks, the timer and the verifications come in.  The   *)
(* self-deadlock is left aside, and so is the bound on writes.             *)
(***************************************************************************)
PartitionedLeaderStepsDown ==
  \A i \in Instances :
    []<>(\/ ~InOffice(i)
         \/ Online(i) /\ (~Stale(i) \/ HeldUp(i))
         \/ SelfDeadlock(i))

(***************************************************************************)
(* Stop and StopWithContext return without the help of their timeouts,     *)
(* connected or not: loops, verifications, callbacks and the grace timer's *)
(* goroutine all end once e.ctx is cancelled, in whatever order they meet  *)
(* e.mu, d.mu and e.wg.  The deadlocks are left aside.                     *)
(***************************************************************************)
HaltCompletes ==
  \A i \in Instances :
    halt[i] # "none" ~> \/ halt[i] = "done" \/ LockCycle(i) \/ SelfDeadlock(i)
                        \/ OutOfRevisions

DeadlockStep ==
  \A i \in Instances :
    /\ SelfDeadlock(i) => SelfDeadlock(i)' \/ state'[i] = "INIT"
    /\ LockCycle(i) => LockCycle(i)' \/ state'[i] = "INIT"

(***************************************************************************)
(* What the two properties above leave aside is beyond repair: whatever    *)
(* the monitor, the grace timer, the verifications, the loops and the      *)
(* callbacks of an instance do, in whatever order they get e.mu and d.mu,  *)
(* neither deadlock ever resolves.  Only the end of the process (an object *)
(* back in INIT) does it.                                                  *)
(***************************************************************************)
DeadlocksAreForGood == [][DeadlockStep]_allVars

-----------------------------------------------------------------------------
(***************************************************************************)
(* What the repository's documents say and the code does not keep.         *)
(***************************************************************************)

(***************************************************************************)
(* docs/design.md: "Verify leadership status ... Not leader ... Transition *)
(* to Follower": a reconnected leader whose entry is not its own any more  *)
(* becomes follower.                                                       *)
(***************************************************************************)
ReconnectedLeaderStepsDown ==
  \A i \in Instances :
    (InOffice(i) /\ Online(i) /\ ~Holds(i))
      ~> (~InOffice(i) \/ ~Online(i) \/ Holds(i) \/ HeldUp(i))

(***************************************************************************)
(* leader/election.go, StopWithContext: "Timeout: Maximum time to wait":   *)
(* a stop that has begun returns.                                          *)
(***************************************************************************)
StopReturns == \A i \in Instances : halt[i] # "none" ~> halt[i] = "done"

LossStep ==
  \A i \in Callbacks :
    isLeader[i] /\ ~isLeader'[i] /\ ctx'[i] # "nil"
      => app'[i] # app[i] \/ dh'[i].holder = "notify" \/ halt'[i] # "none"

(***************************************************************************)
(* docs/FEATURES.md: OnDemote is "Called when instance loses leadership":  *)
(* the goroutine that takes an instance's leadership goes on to call       *)
(* OnDemote.                                                               *)
(***************************************************************************)
LossIsAnnounced == [][LossStep]_allVars

=============================================================================
