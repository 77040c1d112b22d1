----------------------------- MODULE KVElection ------------------------------
(***************************************************************************)
(* An election group: every instance runs the handlers of                  *)
(* leader/kv_election.go, leader/heartbeat.go, leader/watcher.go and       *)
(* leader/fencing.go against one key of a KV bucket.                       *)
(***************************************************************************)
EXTENDS Acquire, Heartbeat, Watcher, Fencing, Shutdown

Init == ElectionInit

(***************************************************************************)
(* The entry outlived the bucket's TTL.  MaxAge expiry sends no event to   *)
(* watchers.                                                               *)
(***************************************************************************)
Expire ==
  /\ \E i \in Instances : Fault("expire", i)
  /\ ExpireKey
  /\ UNCHANGED <<atomVars, healthFailureCount, ctx, watcherRunning, acq, hb,
                 late, vl, watch, stop>>

(***************************************************************************)
(* handleGracePeriodExpired of leader/connection.go calls becomeFollower.  *)
(* What brings it about is the subject of Connection; to the other         *)
(* goroutines it may happen at any time.                                   *)
(***************************************************************************)
GracePeriodDemotes(i) ==
  /\ i \in Monitored
  /\ BecomeFollower(i)
  /\ UNCHANGED <<kvVars, leaderID, token, revision, healthFailureCount, ctx,
                 acq, hb, late, vl, stop>>

(***************************************************************************)
(* The steps of one goroutine, first those that are not faults: the Go     *)
(* scheduler, the tickers and the answers of the server bring them about.  *)
(***************************************************************************)
AcqProgress(i, s) ==
  \/ AcqWake(i, s) \/ AcqCreateWins(i, s) \/ AcqCreateFails(i, s)
  \/ AcqGet(i, s) \/ AcqCompare(i, s)
  \/ AcqUpdateWins(i, s) \/ AcqUpdateFails(i, s)
  \/ AcqStoreRev(i, s) \/ AcqStoreTok(i, s)
  \/ AcqPromote(i, s) \/ AcqEnter(i, s) \/ AcqGiveUp(i, s) \/ AcqBackoff(i, s)
  \/ AcqCheck(i, s) \/ AcqNote(i, s)

AcqStep(i) == \E s \in AcqSlots : AcqProgress(i, s)

HbProgress(i, h) ==
  \/ HbExit(i, h) \/ HbTick(i, h) \/ HbLoad(i, h) \/ HbSend(i, h)
  \/ HbApplied(i, h) \/ HbRejected(i, h) \/ HbOk(i, h) \/ HbFailure(i, h)

HbStep(i) ==
  \E h \in HbSlots : HbProgress(i, h) \/ HbUnhealthy(i, h) \/ HbLost(i, h)

VlProgress(i, v) ==
  \/ VlExit(i, v) \/ VlTick(i, v)
  \/ VlValid(i, v) \/ VlInvalid(i, v) \/ VlDemote(i, v)

VlStep(i) == ValidateTokenOrDemote(i) \/ \E v \in VlSlots : VlProgress(i, v)

WatchProgress(i) ==
  \/ WatchOpen(i) \/ WatchFollow(i) \/ WatchDemote(i) \/ WatchNil(i)
  \/ WatchTick(i) \/ WatchGet(i) \/ WatchStore(i)
  \/ WatchCancelled(i) \/ WatchExit(i)

WatchStep(i) ==
  \/ WatchProgress(i)
  \/ WatchClosed(i)
  \/ \E r \in 1..Rev : WatchEvent(i, r)

StopProgress(i) ==
  StopReturn(i) \/ StopDrained(i) \/ StopClear(i) \/ StopDelete(i)

StopStep(i) ==
  \/ Stop(i) \/ StopWithContext(i) \/ StopProgress(i) \/ StopTimeout(i)
  \/ CancelContext(i) \/ Crash(i) \/ Panic(i)

(***************************************************************************)
(* The bound on writes was reached.  The model stops there, not the        *)
(* system: a state below the bound without a step is a real deadlock.      *)
(***************************************************************************)
BoundReached == Rev = MaxRev /\ UNCHANGED vars

Next ==
  \/ \E i \in Instances :
       Start(i) \/ AcqStep(i) \/ HbStep(i) \/ VlStep(i) \/ WatchStep(i)
         \/ StopStep(i) \/ GracePeriodDemotes(i)
  \/ \E u \in late : LateUpdate(u)
  \/ Expire
  \/ BoundReached

Spec == Init /\ [][Next]_vars

-----------------------------------------------------------------------------
(***************************************************************************)
(* Fairness.  Every goroutine that can take a step which is not a fault    *)
(* takes one eventually: the Go scheduler runs it, its tickers and         *)
(* timers fire, and the server answers.                                    *)
(***************************************************************************)
FairSpec ==
  /\ Spec
  /\ \A i \in Instances :
       /\ \A s \in AcqSlots : WF_vars(AcqProgress(i, s))
       /\ \A h \in HbSlots : WF_vars(HbProgress(i, h))
       /\ WF_vars(WatchProgress(i))

(***************************************************************************)
(* The same with validations and Stop, whose wait needs every select with  *)
(* a case <-ctx.Done() to choose it some day: Go's select chooses at       *)
(* random among the cases that are ready.                                  *)
(***************************************************************************)
FairStopSpec ==
  /\ FairSpec
  /\ \A i \in Instances :
       /\ \A v \in VlSlots : WF_vars(VlProgress(i, v)) /\ SF_vars(VlExit(i, v))
       /\ SF_vars(WatchCancelled(i))
       /\ WF_vars(StopProgress(i))

-----------------------------------------------------------------------------
(***************************************************************************)
(* Properties.                                                             *)
(***************************************************************************)
Holds(i) == alive /\ log[Rev].id = i

(***************************************************************************)
(* A fencing token identifies one instance: no two instances ever hold the *)
(* same token, and an entry that carries an instance's token carries its   *)
(* id.  So validateToken can succeed for one instance at most, whatever    *)
(* heartbeats, takeovers and late Updates did to the entry.                *)
(***************************************************************************)
FencingTokenExclusive ==
  /\ \A i, j \in Instances :
       token[i] = token[j] /\ token[i] # NoToken => i = j
  /\ alive => \A i \in Instances : log[Rev].token = token[i] => log[Rev].id = i

TakeoverStep ==
  (alive /\ Len(log') = Rev + 1 /\ log'[Rev + 1].token = Rev + 1)
    => Priority[log'[Rev + 1].id] > Priority[log[Rev].id]

(***************************************************************************)
(* attemptPriorityTakeover replaces an existing entry by one with a new    *)
(* token only if the entry replaced, not just the one it had read, has a   *)
(* strictly lower priority.                                                *)
(***************************************************************************)
TakeoverOnlyStrictlyHigher == [][TakeoverStep]_vars

(***************************************************************************)
(* isLeader and state are stored one after the other by becomeLeader,      *)
(* becomeFollower and Stop, all under e.mu, and Status() takes e.mu to     *)
(* read both.  So it never reports a leader that is not in state LEADER or *)
(* the reverse: no demotion and no stop comes between the stores of a      *)
(* becomeLeader under way and leaves the two apart for good.               *)
(***************************************************************************)
RoleAgrees ==
  \A i \in Instances :
    Entering(i) \/ (isLeader[i] <=> state[i] = "LEADER")

(***************************************************************************)
(* An instance that says it is leader has a heartbeatLoop that can find    *)
(* out when it no longer is, or becomeLeader is about to start one: no     *)
(* order of demotions, promotions and loop exits leaves a leader that      *)
(* nobody checks.                                                          *)
(***************************************************************************)
LeaderIsHeartbeating ==
  \A i \in Instances :
    isLeader[i] /\ ctx[i] = "live" =>
      Entering(i) \/ \E h \in HbSlots : hb[i][h].pc # "free"

(***************************************************************************)
(* The same for the background validation of a term: as long as the        *)
(* instance says it is leader, some validationLoop still compares its      *)
(* token with the entry.                                                   *)
(***************************************************************************)
LeaderIsValidated ==
  \A i \in Validated :
    isLeader[i] /\ ctx[i] = "live" =>
      \/ Entering(i)
      \/ \E v \in VlSlots : vl[i][v].pc # "free" /\ vl[i][v].kind = "loop"

(***************************************************************************)
(* docs/design.md, of the periodic check: "This ensures reliable detection *)
(* even if watcher channel is slow or blocked".  Where kv.Watch works, no  *)
(* order of promotions, demotions, failing retries and exits leaves a      *)
(* running follower without a watch loop.                                  *)
(***************************************************************************)
FollowerIsWatching ==
  \A i \in Instances :
    state[i] = "FOLLOWER" /\ ctx[i] = "live" /\ ~Fault("failWatch", i) =>
      watch[i].pc \notin {"off", "exit"}

LeaseHolder == IF alive THEN log[Rev] ELSE NoInstance
LeaseIssued == {log[r] : r \in 1..Rev}

Lease == INSTANCE FencedLease
           WITH Tokens <- 1..MaxRev, NoHolder <- NoInstance,
                holder <- LeaseHolder, issued <- LeaseIssued

(***************************************************************************)
(* The key implements the fenced lease: whatever the goroutines of all     *)
(* instances do with Create, Update and Delete is what FencedLease allows. *)
(***************************************************************************)
LeaseRefined == Lease!Spec

(***************************************************************************)
(* The bound on writes, and not the code, stops a heartbeat of i.          *)
(***************************************************************************)
HeldUp(i) ==
  Rev = MaxRev /\ \E h \in HbSlots : hb[i][h].pc = "wait" /\ CasHolds(hb[i][h].rev)

(***************************************************************************)
(* A running leader whose entry is gone, names another instance or carries *)
(* another token than its own, of an earlier or a later term.              *)
(***************************************************************************)
InOffice(i) == isLeader[i] /\ ctx[i] = "live"
Stale(i) == InOffice(i) /\ ~TokenMatches(i, token[i])

(***************************************************************************)
(* No leader stays stale: it stops being leader, or the entry carries its  *)
(* id and its token again (the bound on writes apart).                     *)
(***************************************************************************)
StaleLeaderStepsDown ==
  \A i \in Instances : []<>(~Stale(i) \/ HeldUp(i))

(***************************************************************************)
(* The bound on writes, and not the code, keeps a missing key missing.     *)
(***************************************************************************)
OutOfRevisions == Rev = MaxRev /\ ~alive

SomeoneRuns == \E i \in Instances : ctx[i] = "live"

(***************************************************************************)
(* While some instance runs, a missing key is created again: a stale       *)
(* leader demotes itself and watches, a follower's periodic check finds    *)
(* the key missing and a retry goroutine wins it (the bound on writes      *)
(* apart).                                                                 *)
(***************************************************************************)
KeyIsReclaimed == []<>(SomeoneRuns => alive \/ OutOfRevisions)

(***************************************************************************)
(* Stop and StopWithContext return without the help of their timeouts: the *)
(* goroutines they wait for all end, whatever they are doing when e.ctx is *)
(* cancelled, although retry goroutines may start new ones during the wait *)
(* (the bound on writes apart).                                            *)
(***************************************************************************)
ShutdownCompletes ==
  \A i \in Instances :
    stop[i].pc \in {"wait", "drain"} ~> (stop[i].pc = "done" \/ OutOfRevisions)

-----------------------------------------------------------------------------
(***************************************************************************)
(* What the repository's documents say and the code does not keep.         *)
(***************************************************************************)

RenewalStep ==
  (Len(log') = Rev + 1 /\ log'[Rev + 1].token # Rev + 1)
    => log'[Rev + 1].id = log[Rev].id

(***************************************************************************)
(* docs/design.md: "Avoid blind Put writes which can overwrite other       *)
(* leader entries".  A write under an old token is a heartbeat and renews  *)
(* an entry of the same instance.                                          *)
(***************************************************************************)
HeartbeatRenewsOwnEntry == [][RenewalStep]_vars

=============================================================================
