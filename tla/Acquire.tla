------------------------------- MODULE Acquire -------------------------------
(***************************************************************************)
(* Start, attemptAcquire, attemptAcquireWithRetry and                      *)
(* attemptPriorityTakeover of leader/kv_election.go.  A goroutine is a     *)
(* slot of acq[i]: kind "start" runs attemptAcquire once and becomes       *)
(* follower on an error, kind "retry" is attemptAcquireWithRetry, kind     *)
(* "takeover" is the attempt handleWatchEvent starts, which ignores        *)
(* errors.  Only "retry" goroutines are not counted by e.wg.               *)
(***************************************************************************)
EXTENDS ElectionState

acqUnchanged == <<healthFailureCount, ctx, late, stop>>

Start(i) ==
  /\ state[i] = "INIT"
  /\ ctx[i] = "nil"
  /\ ctx' = [ctx EXCEPT ![i] = "live"]
  /\ state' = [state EXCEPT ![i] = "CANDIDATE"]
  /\ SpawnAcquire(i, "start", "create")
  /\ UNCHANGED <<kvVars, isLeader, leaderID, token, revision,
                 healthFailureCount, watcherRunning, hb, late, vl, watch, stop>>

AcqGoto(i, s, pc) == acq' = [acq EXCEPT ![i][s].pc = pc]
AcqGotoWith(i, s, pc, rev) ==
  acq' = [acq EXCEPT ![i][s] = [pc |-> pc, kind |-> acq[i][s].kind,
                                retry |-> acq[i][s].retry, rev |-> rev]]
AcqEnd(i, s) == acq' = [acq EXCEPT ![i][s] = FreeAcq]

(***************************************************************************)
(* The initial jitter or a backoff ended; the loop head checks ctx.        *)
(***************************************************************************)
AcqWake(i, s) ==
  /\ acq[i][s].pc = "jitter"
  /\ IF ctx[i] = "live" THEN AcqGoto(i, s, "create") ELSE AcqEnd(i, s)
  /\ UNCHANGED <<kvVars, atomVars, watcherRunning, hb, vl, watch, acqUnchanged>>

(***************************************************************************)
(* attemptAcquire: kv.Create.  On any error an instance with priority      *)
(* takeover goes on to read the current entry.                             *)
(***************************************************************************)
AfterCreateError(i) == IF i \in Takeover THEN "get" ELSE "failed"

AcqCreateWins(i, s) ==
  /\ acq[i][s].pc = "create"
  /\ CreateOk(i)
  /\ AcqGotoWith(i, s, "promote", Rev + 1)
  /\ UNCHANGED <<atomVars, watcherRunning, hb, vl, watch, acqUnchanged>>

AcqCreateFails(i, s) ==
  /\ acq[i][s].pc = "create"
  /\ \/ /\ alive \/ Fault("failCreate", i)
        /\ UNCHANGED kvVars
     \/ Fault("lostAck", i) /\ CreateOk(i)
  /\ AcqGoto(i, s, AfterCreateError(i))
  /\ UNCHANGED <<atomVars, watcherRunning, hb, vl, watch, acqUnchanged>>

(***************************************************************************)
(* attemptPriorityTakeover: kv.Get, compare priorities, kv.Update at the   *)
(* revision that was read.                                                 *)
(***************************************************************************)
AcqGet(i, s) ==
  /\ acq[i][s].pc = "get"
  /\ \/ alive /\ AcqGotoWith(i, s, "compare", Rev)
     \/ GetFails(i) /\ AcqGoto(i, s, "failed")
  /\ UNCHANGED <<kvVars, atomVars, watcherRunning, hb, vl, watch, acqUnchanged>>

(***************************************************************************)
(* Mutant of AcqCompare: an entry of the same priority is replaced too.    *)
(***************************************************************************)
AcqCompareTies(i, s) ==
  LET r == acq[i][s].rev IN
  /\ acq[i][s].pc = "compare"
  /\ AcqGoto(i, s, IF Priority[i] < Priority[log[r].id] THEN "failed" ELSE "update")
  /\ UNCHANGED <<kvVars, atomVars, watcherRunning, hb, vl, watch, acqUnchanged>>

AcqCompare(i, s) ==
  LET r == acq[i][s].rev IN
  /\ acq[i][s].pc = "compare"
  /\ IF Priority[i] <= Priority[log[r].id]
       THEN /\ leaderID' = [leaderID EXCEPT ![i] = log[r].id]
            /\ revision' = [revision EXCEPT ![i] = r]
            /\ AcqGoto(i, s, "failed")
       ELSE /\ AcqGoto(i, s, "update")
            /\ UNCHANGED <<leaderID, revision>>
  /\ UNCHANGED <<kvVars, isLeader, token, state, watcherRunning, hb, vl, watch,
                 acqUnchanged>>

AcqUpdateWins(i, s) ==
  /\ acq[i][s].pc = "update"
  /\ UpdateOk(i, Rev + 1, acq[i][s].rev)
  /\ AcqGotoWith(i, s, "storeRev", Rev + 1)
  /\ UNCHANGED <<atomVars, watcherRunning, hb, vl, watch, acqUnchanged>>

AcqUpdateFails(i, s) ==
  /\ acq[i][s].pc = "update"
  /\ \/ /\ ~CasHolds(acq[i][s].rev) \/ Fault("failUpdate", i)
        /\ UNCHANGED kvVars
     \/ Fault("lostAck", i) /\ UpdateOk(i, Rev + 1, acq[i][s].rev)
  /\ AcqGoto(i, s, "failed")
  /\ UNCHANGED <<atomVars, watcherRunning, hb, vl, watch, acqUnchanged>>

(***************************************************************************)
(* The takeover succeeded: revision and token are stored one after the     *)
(* other and without e.mu, before becomeLeader stores them again.  A       *)
(* heartbeat loop of an earlier term can load one of them between.         *)
(***************************************************************************)
AcqStoreRev(i, s) ==
  /\ acq[i][s].pc = "storeRev"
  /\ ctx[i] # "nil"
  /\ revision' = [revision EXCEPT ![i] = acq[i][s].rev]
  /\ AcqGoto(i, s, "storeTok")
  /\ UNCHANGED <<kvVars, isLeader, leaderID, token, state, watcherRunning, hb,
                 vl, watch, acqUnchanged>>

AcqStoreTok(i, s) ==
  /\ acq[i][s].pc = "storeTok"
  /\ token' = [token EXCEPT ![i] = acq[i][s].rev]
  /\ AcqGoto(i, s, "promote")
  /\ UNCHANGED <<kvVars, isLeader, leaderID, revision, state, watcherRunning,
                 hb, vl, watch, acqUnchanged>>

(***************************************************************************)
(* The KV write was acknowledged: becomeLeader, without a look at ctx or   *)
(* at the state in the meantime.                                           *)
(***************************************************************************)
AcqPromote(i, s) ==
  /\ acq[i][s].pc = "promote"
  /\ BecomeLeader(i)
  /\ AcqGoto(i, s, "enter")
  /\ UNCHANGED <<kvVars, token, revision, state, watcherRunning, hb, vl, watch,
                 acqUnchanged>>

AcqEnter(i, s) ==
  /\ acq[i][s].pc = "enter"
  /\ EnterTerm(i, acq[i][s].rev)
  /\ AcqEnd(i, s)
  /\ UNCHANGED <<kvVars, isLeader, leaderID, watcherRunning, watch,
                 acqUnchanged>>

(***************************************************************************)
(* attemptAcquire returned an error.  The start goroutine and an exhausted *)
(* retry goroutine call becomeFollower, a retry goroutine backs off, a     *)
(* takeover goroutine ends.                                                *)
(***************************************************************************)
GivesUp(g) == g.kind = "start" \/ (g.kind = "retry" /\ g.retry = MaxRetries)

(***************************************************************************)
(* After StopWithContext set e.ctx to nil, a goroutine that comes back     *)
(* from attemptAcquire calls logWithContext(e.ctx), which panics: the      *)
(* success and the plain failure path log it, and so do becomeFollower and *)
(* the takeover goroutine of handleWatchEvent.                             *)
(***************************************************************************)
AcqUsesCtx(i, g) ==
  \/ g.pc \in {"storeRev", "promote"}
  \/ g.pc = "failed" /\ (i \notin Takeover \/ GivesUp(g) \/ g.kind = "takeover")

AcqGiveUp(i, s) ==
  /\ acq[i][s].pc = "failed"
  /\ GivesUp(acq[i][s])
  /\ BecomeFollower(i)
  /\ AcqEnd(i, s)
  /\ UNCHANGED <<kvVars, leaderID, token, revision, hb, vl, acqUnchanged>>

AcqBackoff(i, s) ==
  LET g == acq[i][s] IN
  /\ g.pc = "failed"
  /\ ~GivesUp(g)
  /\ ctx[i] # "nil" \/ ~AcqUsesCtx(i, g)
  /\ IF g.kind = "takeover"
       THEN AcqEnd(i, s)
       ELSE acq' = [acq EXCEPT ![i][s] = [pc |-> "jitter", kind |-> g.kind,
                                          retry |-> g.retry + 1, rev |-> 0]]
  /\ UNCHANGED <<kvVars, atomVars, watcherRunning, hb, vl, watch, acqUnchanged>>

=============================================================================
