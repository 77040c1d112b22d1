# Verification of NATS-Leader-Election

TLA+ models of the Go package `leader` of this repository: several instances
compete for one key of a NATS JetStream KV bucket, the one whose entry is in the
key is the leader, heartbeats keep the entry alive, and a fencing token tells
the terms apart. The models are checked with TLC on small instances; the
safety results are proved with TLAPS for every number of instances, goroutines
and writes.

## 1. Inventory

| Component | State | Operations | Talks to |
|---|---|---|---|
| KV bucket (`internal/natsmock/keyvalue.go`, adapters in `leader/election.go`) | entry, revision, TTL | Create, Update (compare and swap), Get, Delete, Watch, expiry | all instances |
| Election object (`leader/kv_election.go`) | atomics `isLeader`, `leaderID`, `token`, `revision`, `state`; `e.ctx`, `e.wg`, `watcherRunning` | `becomeLeader`, `becomeFollower`, `Status`, `Token` | every goroutine of the instance |
| Acquisition (`kv_election.go`) | goroutines, retry counters | `Start`, `attemptAcquire`, `attemptAcquireWithRetry`, `attemptPriorityTakeover` | KV, election object |
| Heartbeat (`heartbeat.go`) | loop per term, failure counters | tick, health check, Update, demotion | KV, health checker |
| Watcher (`watcher.go`) | one loop, its channel | events, periodic check, re-election | KV, acquisition |
| Fencing (`fencing.go`, `kv_election.go`) | loop per term, failure counter | `validationLoop`, `ValidateToken`, `ValidateTokenOrDemote` | KV |
| Shutdown (`kv_election.go`) | `wasLeader`, the wait for `e.wg` | `Stop`, `StopWithContext` | all of the above |
| Connection monitor (`connection.go`) | status, grace-period timer | disconnect, reconnect, verification | election object |
| Callbacks (`kv_election.go`) | `onPromote`, `onDemote` | calls with a context and a token | application |
| Retry and circuit breaker (`retry.go`), errors (`error.go`) | attempts; `state`, `failures`, `lastFailureTime`, `cb.mu` | `RetryWithBackoff`, `Call`, `IsPermanentError` | heartbeat (classification only) |
| Configuration (`validation.go`, `election.go`) | TTL, intervals, thresholds | `validateConfig` | heartbeat, connection monitor |
| Metrics, logging | none | output | |

**What is hard.** The five atomics are read and written without a common lock by
up to five kinds of goroutine per instance; a goroutine decides on what it read
before a KV call and acts after it. Goroutines of an old term live on into the
next one. The server may apply a write whose acknowledgement never arrives, or
apply it long after the caller stopped waiting. The TTL expires without an event.
A process may die between any two steps. `Stop` cancels, waits and cleans up
while goroutines it does not know of are still running. The connection's callbacks,
the grace timer and the verification after a reconnect run beside all of this, under
two locks that are taken in both orders.

**What makes it correct.**
- *KV bucket*: one entry; a write succeeds only on the condition it names.
- *Election object*: the role it reports is one role, although promotions, demotions
  and stops of several goroutines meet in it.
- *Acquisition*: a token stays with one instance; a takeover only by a strictly
  higher priority, also when the entry changes between comparison and write.
- *Heartbeat, fencing*: a leader is always observed by a loop, and one that lost
  its entry stops being leader.
- *Watcher*: a missing key leads to a new election.
- *Shutdown*: the wait ends, whatever goroutines are still being started.
- *Connection monitor*: a leader that is cut off steps down, whatever order the
  connection's callbacks, the timer and the verifications come in; no lock cycle.
- *Callbacks*: the application hears of every loss of leadership.
- *Retry, breaker*: a call ends; an open breaker calls nothing within its cooldown.
- *Configuration*: an accepted configuration bounds the time a leader goes without
  renewing, and lets it survive a lost heartbeat.

The full list of hazards, each at its line, is in `PROJECT.json`.

## 2. Modules

| Module | Models |
|---|---|
| `KVBucket` | the key: `log[r]` is the payload of revision `r`, `alive` says whether the key exists |
| `ElectionState` | the fields of every `kvElection`, the program counters of its goroutines, `BecomeLeader` and `EnterTerm`, `BecomeFollower` |
| `Acquire` | `Start` and the acquisition goroutines (`acq`), one step per KV call |
| `Heartbeat` | `heartbeatLoop` (`hb`) and Updates nobody waits for any more (`late`) |
| `Watcher` | `watchLoop`, `handleWatchEvent`, `checkKeyAndReelect` (`watch`) |
| `Fencing` | `validationLoop`, `validateToken`, `ValidateTokenOrDemote` (`vl`) |
| `Shutdown` | `Stop`, `StopWithContext` (`stop`), cancellation of Start's context, crash with restart, panic on a nil `e.ctx` |
| `KVElection` | the composition of these: `Next`, `Spec`, fairness, properties |
| `FencedLease` | the abstract specification: what the key promises |
| `Connection` | `nats.Conn` (`conn`), the monitor, the grace timer (`dh`), the verification after a reconnect (`vf`), `e.mu` where it is kept over a wait (`emu`) |
| `Callbacks` | `OnPromote` and `OnDemote` and the application behind them (`app`) |
| `MonitoredElection` | `KVElection`, `Connection` and `Callbacks` composed; both stopping calls step by step (`halt`) |
| `Timing` | `validateConfig`, and one term of a leader with a clock |
| `Retry` | `RetryWithBackoff`, `CircuitBreaker`, `IsPermanentError` |
| `MCKVElection`, `MCMonitoredElection`, `MCTiming`, `MCRetry` | values for TLC |
| `TypeProofs`, `KVElectionProofs`, `LoopProofs`, `MonitoredProofs`, `TimingProofs`, `RetryProofs` | theorems and proofs |

`KVElection` knows of the connection only that a monitored instance may be demoted
by its grace timer at any time (`GracePeriodDemotes`) and that KV calls may fail
(`Faults`). `MonitoredElection` says when: each of its steps is a step of
`KVElection` with more guards and more effects, or touches none of its variables.
That is the property `ElectionImplemented`, and a theorem.

### How the model corresponds to the code

- A goroutine is a *slot* of `acq[i]`, `hb[i]`, `vl[i]` or `vf[i]`, or the one watch
  loop; its `pc` names the point between two KV calls or between reading an atomic
  and using it. The number of slots bounds how many of a kind run at once; a step
  that needs a slot waits until one is free. `becomeLeader` needs the slots of its
  loops when it begins (`HasFree`), and calls of `ValidateTokenOrDemote` leave one
  free, so that the bound never stops a promotion halfway.
- `becomeLeader` runs under `e.mu`, but `IsLeader()`, `Token()` and the loops read its
  atomics without it. It is two steps: `BecomeLeader` stores `isLeader` and
  `leaderID`, `EnterTerm` the token, the revision and the state and starts the loops.
  In between the instance is `Entering`, which is how the model says that this
  goroutine holds `e.mu`. The rest may be one step: a loop loads the revision first
  and the token second, `becomeLeader` stores them in the opposite order, so every
  pair a loop can load is loaded with the two stores together as well; `state` is
  read under `e.mu` only.
- `attemptPriorityTakeover` stores revision and token before it calls `becomeLeader`,
  in the loops' order and without `e.mu`: one step each (`AcqStoreRev`,
  `AcqStoreTok`). A heartbeat loads the revision (`HbLoad`) and the token (`HbSend`)
  in two steps, so that a loop of an earlier term may pair the one of one term with the
  other of the next.
- `becomeFollower` makes its stores in one step: `isLeader` is the only one that is
  read without `e.mu`.
- Other critical sections of `e.mu` and `d.mu` are single steps. Where the code keeps a
  lock and waits for another, the lock is state: `emu[i]` is "stop" while a stopping
  call waits for `d.mu` and "verify" in the self-deadlock; `dh[i].holder` is the
  timer goroutine that keeps `d.mu` through `becomeFollower` and `onDemote`.
- `ValidateTokenOrDemote` on an instance that is not leader fails at once and asks
  `IsLeader()` again: an instance promoted in between is demoted.
- A token is a fresh UUID per acquisition. It is represented by the revision of the
  acquiring write, which is as fresh; heartbeats carry it on unchanged.
- The priority in an entry is the configured priority of its writer.
- In the election modules time is absent: tickers, timeouts and the TTL may fire
  whenever the code waits for them, in any order. Which of them may fire in a run is
  the constant `Faults`. In `MonitoredElection` a KV call fails if the connection is
  down; with the fault "timeout" heartbeats and verifications may also fail on a
  connection that is up. `Timing` is about the clock alone.
- `CasErrorClass` is what `IsPermanentError` makes of a failed compare-and-swap.
  The in-memory store's "revision mismatch" is permanent; another wording makes it
  transient and costs the leader `MaxFailures` heartbeats.
- Watch entries may be skipped: `watchLoop` calls `Updates()` in every iteration and
  each call of `natsWatcherAdapter.Updates` starts a goroutine that may take an
  entry into a channel nobody reads.
- `Panic`: after `StopWithContext` set `e.ctx` to nil, any goroutine that logs with
  `logWithContext(e.ctx)` or begins a loop with it dereferences nil and takes the
  process down. The handlers of `connection.go` do so as well (`ConnUsesCtx`).
- `nats.Conn` is external: it queues its callbacks and runs them one after the
  other; a callback that waits in the queue when the monitor stops finds no handler.
- In `Timing`, a goroutine that can run does so before the next unit of time passes,
  a tick that finds the ticker's channel full is dropped, and `age` is measured from
  the last write the server applied. `Latency` is the time from that write to the
  first tick's start. The application's `HealthChecker.Check` is assumed to return
  when the context it is given ends: the loop calls it in its own goroutine, and one
  that does not return holds the loop up for good.
- In `Retry`, an error is what the code asks of it: its type, what it wraps, and
  whether its text holds one of the patterns.

### Simplifications

Stop is called at most once per instance and a stopped instance is not started
again (a crashed one is): after a second `Start` every goroutine would need the
context of its own life. There is one watch loop per instance: the second one that
`becomeFollower` can start after `Stop` cleared `watcherRunning` finds its context
cancelled and is not told from the first. The health failure counter and the
breaker's failure count are not counted beyond their thresholds. Callbacks return;
the timeout of `WaitForDemote` is not modelled.

## 3. Runs

The runs of the election use instances `a` and `b`, `b` of higher priority. Unless
noted, thresholds are 1, so that one failure demotes, and `MaxRetries` is 0: larger
values only repeat steps. `MaxRev` bounds the successful writes; heartbeats count
as well. `BoundReached` lets the model stutter where the bound, and not the code,
stops it, so that TLC's deadlock check is about the code. It is off where the system
really may stop: `Shutdown`, `Halt` (a stopped instance has nothing left to do),
`Connection` (a closed connection, a cancelled context, the self-deadlock) and
`Timing` (the term is over).

| Run | Checks | Bounds and why |
|---|---|---|
| `Group` | `TypeOK`, `FencingTokenExclusive`, `TakeoverOnlyStrictlyHigher`, `LeaseRefined` | two instances with two acquisition goroutines each, `b` takes over and may lose acknowledgements, heartbeats may time out and arrive late, either may be killed and started again; three writes: create, takeover, and a write by a third goroutine, a late Update or a restarted process |
| `Terms` | `LeaderIsHeartbeating`, `LeaderIsValidated`, `RoleAgrees` | one monitored instance, two terms, two loops of each kind, thresholds 2, health checks, expiry: old and new loops overlap |
| `Shutdown` | `ShutdownCompletes` | one instance, its acquisition, heartbeat, validation and watch goroutines, expiry, cancellation, failing watches, timeouts of the wait, failing deletion |
| `Liveness` | `FollowerIsWatching`, `StaleLeaderStepsDown`, `KeyIsReclaimed` | two instances, expiry at any time; two writes let the second instance lead while the first still believes it does; a refused Update is transient and the second in a row demotes, which is the longest way to find out |
| `Connection` | `ElectionImplemented`, `PartitionedLeaderStepsDown` | one monitored instance, one loss or close of the connection at any point, one verification, health checks, API validations, expiry, late Updates, timeouts on a connection that is up, cancellation, crash |
| `Halt` | `HaltCompletes`, `DeadlocksAreForGood` | one monitored instance with callbacks, one loss of the connection, both stopping calls with their timeouts |
| `Timing` | `TimingTypeOK`, `RenewedOrDemoted`, `OneMissIsSurvived` | 199 configurations on both sides of every limit of `validateConfig`, with and without health checks; the unit is half a second, so that `updateTimeout` is below, at and above the interval. Time needs no bound: the invariant bounds `age` |
| `Retry` | `RetryTypeOK`, `BreakerConsistent`, `NoCallWhileTripped`, `RetryReturns` | three callers, two behind the breaker, limits 2, 3 and none; threshold 2, cooldown 2 |

- `FencingTokenExclusive`: no two instances hold one token, and an entry with an
  instance's token has its id. It needs that late Updates, restarts and stale
  revisions never put a token next to a foreign id.
- `TakeoverOnlyStrictlyHigher`: an entry is replaced under a new token only by a
  strictly higher priority than that of the entry *replaced*, not merely of the one
  compared. That two takeovers of one instance overtake each other needs five writes
  and is left to the theorem, and so is a heartbeat that pairs loads of two terms
  and is accepted.
- `LeaseRefined`: the key with all writers is a `FencedLease`. A deletion of another
  instance's entry by `StopWithContext` is a `Lapse` like any other.
- `LeaderIsHeartbeating`, `LeaderIsValidated`: whatever the order in which loops of
  two terms end, a leader has a loop that will notice the loss of its entry.
- `RoleAgrees`: except inside `becomeLeader`, `isLeader` holds exactly in state
  `LEADER`. A promotion, two kinds of demotion and a grace timer meet in the run; if
  any of them did without `e.mu`, a demotion between the stores of `becomeLeader` would
  leave a `LEADER` that `IsLeader()` denies and whose loops end.
- `FollowerIsWatching`: a running follower whose `kv.Watch` works has its watch loop
  (what happens when it fails is below).
- `StaleLeaderStepsDown`: a leader without its entry steps down or overwrites the
  entry with its own (the `Renewal` run shows that it can).
- `KeyIsReclaimed`: a missing key is created again while someone runs.
- `ShutdownCompletes`: `Stop` and `StopWithContext` get to their end without their
  timeouts, even though a retry goroutine may promote the instance during the wait.
- `PartitionedLeaderStepsDown`: a leader that is cut off, or whose entry is gone,
  steps down or is connected and holds the key again. Three hazards lead here: no
  timer for an instance promoted while disconnected, a timer goroutine that could not
  be stopped, and the status Closed. A fourth, a late `SetStatus(Connected)` after the
  connection was lost again, needs `MaxFlaps = 2`: with that, and without health
  checks, API validations, cancellation and crashes, the property holds too (1.1 million states, just
  over five minutes), but it is not one of the runs.
- `HaltCompletes`: both stopping calls return although verifications, callbacks and
  the timer's goroutine meet them at `e.mu`, `d.mu` and `e.wg`, except in the two
  deadlocks, which have runs of their own.
- `DeadlocksAreForGood`: what `PartitionedLeaderStepsDown` and `HaltCompletes` leave
  aside is no passing delay: from the self-deadlock and from the cycle of `e.mu` and
  `d.mu` no step of any goroutine leads out, only the end of the process.
- `RenewedOrDemoted`: a leader is deposed, or has renewed, within
  `Latency + MaxFailures * RoundsPerFailure * Period + RoundTime + GetTimeout`. The
  bound is tight: TLC refutes it with one unit less. It is well above the TTL that
  `validateConfig` requires, so during the difference another leader may exist.
  `RoundsPerFailure` is the surprise: failed health checks skip the heartbeat without
  counting as heartbeat failures, so the two thresholds multiply.
- `OneMissIsSurvived`: `TTL >= 3 * HeartbeatInterval` lets a leader's entry outlive one
  lost or slow heartbeat: the next Update still finds it, provided that the delay of
  the first tick and `updateTimeout` together are below the interval. Where they are
  not, it is false: with an interval of 2, a TTL of 6 and a delay of 1 the second Update may
  arrive at age 6, when the entry is gone. Nor does the TTL help if the lost Update had
  been applied: the loop then does not know its revision.
- `BreakerConsistent`, `NoCallWhileTripped`, `RetryReturns`: see section 4.

Each property has a mutant, a plausible slip in the code, that breaks it.

**Fairness.** `FairSpec`: weak fairness of every goroutine's steps that are not
faults, as the Go scheduler runs goroutines, tickers tick and a reachable server
answers. Faults, watch events and API calls need not happen. `FairStopSpec` adds
the validations, the stopping call, and strong fairness of `case <-ctx.Done()` in
the selects of the watch and validation loops: Go's `select` picks at random among
ready cases, so a case that is ready again and again is picked. `MFairSpec` and
`MFairStopSpec` are the same for monitored instances, with the callbacks of
`nats.Conn`, the timer, the verifications and the application's callbacks; the
network promises nothing, so a lost connection need not come back. `FairRetrySpec`:
the function returns, timers fire, and `cb.mu` does not starve a waiter (strong
fairness; `sync.Mutex` hands over after a millisecond). The liveness properties
except the behaviours that the bound on writes holds up (`OutOfRevisions`, `HeldUp`).

### Runs that refute a document

| Run | Property | What TLC finds |
|---|---|---|
| `Renewal` | `HeartbeatRenewsOwnEntry` | `handleWatchEvent` finds `IsLeader()` false, the instance is promoted, the handler then stores the revision of another leader's entry, and the next heartbeat overwrites that entry |
| `Reconnect` | `ReconnectedLeaderStepsDown` | after a reconnect the verification finds the entry gone, locks `e.mu` and calls `becomeFollower`, which locks `e.mu`: the leader stays leader and the instance is stuck |
| `StopDeadlock` | `StopReturns` | the grace timer's goroutine has `d.mu` and waits for `e.mu`, `Stop` has `e.mu` and waits for `d.mu`; no timeout is running yet |
| `Unannounced` | `LossIsAnnounced` | a retry goroutine that is out of attempts demotes an instance that another goroutine made leader, and nobody calls `OnDemote`; the watcher's demotion does not either |

The quotations are in `PROJECT.json` under `findings`.

### Divergences without a run

The models have these behaviours as well; they follow from the traces above or from
single lines.

- A takeover makes a second instance report `IsLeader()` until the first one's next
  heartbeat or watch event (`docs/readme.md:472`: "Only one instance will be leader at
  a time."). `StaleLeaderStepsDown` and the fencing tokens are what holds.
- If `kv.Watch` fails, `watchLoop` returns before the periodic check starts and nothing
  starts it again (`watcher.go:13-21`): the follower never stands for election again.
- An acquisition under way when `Stop` is called makes the stopped instance leader; its
  heartbeat loop ends without resetting `isLeader` (`kv_election.go:353`).
- `StopWithContext` deletes the key on the strength of a `wasLeader` read before the
  wait, and so may delete the next leader's key (`kv_election.go:602`, `687`).
- Cancelling the context given to `Start` ends the loops and leaves `isLeader` true,
  although `election.go:56-57` says that the election "will stop gracefully".
- `Token()` keeps returning the last token after a demotion although its comment says
  "Returns empty string if not leader".
- `validateToken` returns an error with every mismatch, so the branch of
  `validationLoop` that demotes at once on a mismatch is never taken and a single
  mismatch is tolerated like a failed read.
- The context given to `OnPromote` is not cancelled by a demotion
  (`docs/FEATURES.md:448`: "Context cancelled when demoted/stopped").

## 4. Proofs

`TypeProofs` shows, action by action, that `TypeOK` is preserved.
`KVElectionProofs` proves, for all constants that satisfy the named assumptions (any
non-empty set of instances, any priorities in `Nat`, any sets of slots, thresholds,
fault sets and any `MaxRev`):

| Theorem | States |
|---|---|
| `TypeCorrect` | `Spec => []TypeOK` |
| `FencingTokenSafe` | `Spec => []FencingTokenExclusive` |
| `TakeoverSafe` | `Spec => TakeoverOnlyStrictlyHigher` |
| `LeaseImplemented` | `Spec => LeaseRefined` |

The inductive invariant is `IInv`, the conjunction of
- `TypeOK`;
- `ReadInv`: a revision a goroutine or the watch loop has read is one of the key's
  history (without it `log[r]` means nothing, and `TypeOK` is not inductive), and an
  existing key has a history;
- `TokenInv`: every token anywhere (in the history, in an object, in an acquisition
  not yet applied, in an Update under way or abandoned) was *issued* to the instance
  that uses it, where token `t` is issued to `i` if revision `t` was written by `i`
  under token `t`. `FencingTokenExclusive` alone is not inductive: it says nothing of
  requests under way or of a promotion still to come;
- `CompareInv`: a takeover about to be written outranks the entry at the revision it
  read. The compare-and-swap then makes it the entry replaced.

The proof does not go through each action for each conjunct. A first layer of lemmas
shows that every action has one of a few *effects* on the key (`KVEffect`), the
acquisition goroutines (`AcqEffect`), the heartbeats (`HbEffect`), the tokens
(`TokenEffect`), the late Updates (`LateEffect`) and the watch loop
(`WatchEffect`); a second layer shows that the effects preserve the invariant,
because the history only grows and an issued token stays issued.
`LeaseImplemented` reads the step of the abstract lease off `KVEffect`.

`LoopProofs` is about the goroutines that go with a role, for any number of slots,
retries, faults and writes:

| Theorem | States |
|---|---|
| `LeaderHeartbeats` | `Spec => []LeaderIsHeartbeating` |
| `LeaderValidates` | `Spec => []LeaderIsValidated` |
| `FollowerWatches` | `Spec => []FollowerIsWatching` |
| `RolesAgree` | `Spec => []RoleAgrees` |

All come from one invariant, `LInv`. None is inductive by itself: `Start` makes
`e.ctx` live without a look at the role, so an object in `INIT` must have no role and
no watch loop; `becomeFollower` starts a watch loop only if `watcherRunning` is false,
so the flag must imply a loop for as long as `e.ctx` is live; and the end of
`becomeLeader` must find the instance still leader, so at most one goroutine may be
inside it (`OneEnters`). Every action is, for every instance, one of eight *moves*
(`Goes`, `Starts`, `Promoted`, `TakesOffice`, `Demoted`, `WatchEnds`, `Halts`, `Dies`),
and the moves preserve `LInv`. A loop may end only if it finds `isLeader` false, makes
it so, or finds the context cancelled; that is what `HbStays` and `VlStays` say of a
step. `EnterStays` says that no other step enters or leaves `becomeLeader`.

`TimingProofs`, for every set of configurations, every latency and timeout and any
`MaxFailures`:

| Theorem | States |
|---|---|
| `TimingTypeCorrect` | `TimingSpec => []TimingTypeOK` |
| `LeaderGivesUpInTime` | `TimingSpec => []RenewedOrDemoted` |
| `OneMissSurvived` | `TimingSpec => []OneMissIsSurvived` |

`TimeInv` counts rounds. With `m` rounds missed since the last renewal (`Missed`, read
off `fails` and `sick`), the next round begins at an age of at most
`Deadline(m) = Latency + (m + 1) * Period`: an idle loop with an empty channel has
`age + next` below that, a loop in a round has what is left of the round on top, and a
tick that falls into a round waits in the channel. The bounds on `age` alone are not
inductive, because they do not say when the next tick comes or how long the call under
way may still take.

`MonitoredProofs` carries these results over to connections and callbacks, for any
number of instances, connection losses and verifications:

| Theorem | States |
|---|---|
| `MonitoredImplements` | `MSpec => ElectionImplemented` |
| `MonitoredTokenSafe` | `MSpec => []FencingTokenExclusive` |
| `MonitoredLeaseImplemented` | `MSpec => LeaseRefined` |
| `MonitoredTakeoverSafe` | `MSpec => TakeoverOnlyStrictlyHigher` |
| `MonitoredLeaderLoops` | `MSpec => [](LeaderIsHeartbeating /\ LeaderIsValidated)` |
| `MonitoredRolesAgree` | `MSpec => []RoleAgrees` |
| `MonitoredTypeCorrect` | `MSpec => []MTypeOK` |
| `DeadlocksHold` | `MSpec => DeadlocksAreForGood` |

The refinement mapping is the identity on the variables of `KVElection`. Every action
of `MonitoredElection` is a conjunction with an action of `KVElection`, or leaves its
variables alone; the proof goes through them by kind. `FollowerWatches` is not carried
over: it speaks of instances whose `kv.Watch` cannot fail, and that of a monitored one
can. The last two theorems need an invariant of their own, `MInv`: `MTypeOK` with
`StopHoldsMu` (a stopping call that waits for `d.mu` has `e.mu`), without which
the step that unlocks `e.mu` after the wait might unlock it for the self-deadlocked
verification. `DeadlocksHold` then follows from how locks change hands (`LockMove`).

`RetryProofs`, for any number of callers, any limits, threshold and cooldown:

| Theorem | States |
|---|---|
| `RetryTypeCorrect` | `RetrySpec => []RetryTypeOK` |
| `BreakerSafe` | `RetrySpec => []BreakerConsistent` |
| `BreakerRefuses` | `RetrySpec => NoCallWhileTripped` |

The inductive invariant `RetryInv` is `RetryTypeOK` with `MuInv` (the holder of
`cb.mu` is the one caller behind the breaker that is in the function), `SleepInv` (a
caller that backs off has an attempt left, without which the bound on `attempt` is
not inductive) and `StateInv` (open and half-open mean that the threshold was
reached, and a breaker whose lock is held is not open). `BreakerConsistent` alone
says nothing of a breaker whose probe is running, so it is not preserved when the
probe returns.

Only model-checked: the liveness properties `ShutdownCompletes`,
`StaleLeaderStepsDown`, `KeyIsReclaimed`, `PartitionedLeaderStepsDown`, `HaltCompletes`
and `RetryReturns`, since reasoning about fairness is out of the prover's reach. Every
invariant and every action property of the passing runs is a theorem. The other way
round, `MTypeOK` has a theorem and no run. The four
violations are TLC's.

## 5. Not modelled

- **A second `Stop` and `Start` after `Stop`**: the goroutines of two lives would each
  need the context they were started with, where the model has one per instance. With
  a connection monitor the second `Start` always fails (`m.ctx` is never reset).
- **The rule of `sync.WaitGroup`** that an `Add` at zero must not race with `Wait`
  (`connection.go:268`): the goroutine added during the wait is modelled, a panic of
  the group is not.
- **The length of a backoff** (`CalculateBackoff`: floating point and random jitter);
  the models let every wait take any time.
- **Metrics, logging**: output; the one effect on the election is `Panic`.
- **Error texts and types** beyond what `IsPermanentError` asks of them.
- **Embedded server, demo, examples, test adapters**: set-up without election logic.

## 6. Plan

Done: the modules of section 2 and the proofs of section 4. What is left:

1. The safety part of the liveness results, as theorems: a goroutine that `e.wg`
   counts and that is at its `select` when the context is cancelled has its exit as an
   enabled step (`ShutdownCompletes`), and a leader without its entry has an Update
   under way or to come that the server refuses (`StaleLeaderStepsDown`).
2. What the stopping calls leave behind: after a wait that was not cut short, which
   goroutines of the instance can still run.
3. The callbacks: how many calls of `OnPromote` and `OnDemote` a history of terms owes.
