------------------------------ MODULE Shutdown -------------------------------
(***************************************************************************)
(* Stop and StopWithContext of leader/kv_election.go, and the ways in      *)
(* which the process of an instance dies.  An application stops an         *)
(* instance at most once and does not start it again.                      *)
(***************************************************************************)
EXTENDS Acquire, Heartbeat, Watcher, Fencing

(***************************************************************************)
(* The critical section both calls begin with: cancel e.ctx and leave the  *)
(* leader role.  The goroutines are still running.                         *)
(***************************************************************************)
StopCritical(i, pc) ==
  /\ i \in Stoppable
  /\ stop[i].pc = "none"
  /\ ctx[i] # "nil"
  /\ ~Entering(i)
  /\ ctx' = [ctx EXCEPT ![i] = "done"]
  /\ isLeader' = [isLeader EXCEPT ![i] = FALSE]
  /\ state' = [state EXCEPT ![i] = "STOPPED"]
  /\ watcherRunning' = [watcherRunning EXCEPT ![i] = FALSE]
  /\ stop' = [stop EXCEPT ![i] = [pc |-> pc, wasLeader |-> isLeader[i]]]
  /\ UNCHANGED <<kvVars, leaderID, token, revision, healthFailureCount, acq, hb,
                 late, vl, watch>>

Stop(i) == StopCritical(i, "wait")
StopWithContext(i) == StopCritical(i, "drain")

(***************************************************************************)
(* The application cancels the context it gave to Start, and with it       *)
(* e.ctx.  Nothing else happens by itself: the loops find ctx.Done().      *)
(***************************************************************************)
CancelContext(i) ==
  /\ i \in Cancellable
  /\ ctx[i] = "live"
  /\ ctx' = [ctx EXCEPT ![i] = "done"]
  /\ UNCHANGED <<kvVars, atomVars, healthFailureCount, watcherRunning, acq, hb,
                 late, vl, watch, stop>>

(***************************************************************************)
(* e.wg counts every goroutine but those of attemptAcquireWithRetry and of *)
(* the asynchronous checkKeyAndReelect, and not the application's calls.   *)
(***************************************************************************)
WgDone(i) ==
  /\ \A h \in HbSlots : hb[i][h].pc = "free"
  /\ \A v \in VlSlots : vl[i][v].pc = "free" \/ vl[i][v].kind = "api"
  /\ \A s \in AcqSlots : acq[i][s].pc = "free" \/ acq[i][s].kind = "retry"
  /\ watch[i].pc \in {"off", "exit"}

StopUnchanged ==
  UNCHANGED <<atomVars, healthFailureCount, watcherRunning, acq, hb, late, vl>>

(***************************************************************************)
(* Stop returns after wg.Wait and changes nothing more.                    *)
(***************************************************************************)
StopReturn(i) ==
  /\ stop[i].pc = "wait"
  /\ WgDone(i)
  /\ stop' = [stop EXCEPT ![i].pc = "done"]
  /\ StopUnchanged
  /\ UNCHANGED <<kvVars, ctx, watch>>

(***************************************************************************)
(* StopWithContext: wg.Wait returned.                                      *)
(***************************************************************************)
StopDrained(i) ==
  /\ stop[i].pc = "drain"
  /\ WgDone(i)
  /\ stop' = [stop EXCEPT ![i].pc = "drained"]
  /\ StopUnchanged
  /\ UNCHANGED <<kvVars, ctx, watch>>

(***************************************************************************)
(* StopWithContext after the wait: e.ctx = nil, then Delete if the caller  *)
(* asked for it and the instance was leader when the call began.           *)
(***************************************************************************)
StopClear(i) ==
  /\ stop[i].pc = "drained"
  /\ ~Entering(i)
  /\ ctx' = [ctx EXCEPT ![i] = "nil"]
  /\ \/ stop' = [stop EXCEPT ![i].pc = "done"]
     \/ stop[i].wasLeader /\ stop' = [stop EXCEPT ![i].pc = "delete"]
  /\ StopUnchanged
  /\ UNCHANGED <<kvVars, watch>>

(***************************************************************************)
(* Five seconds, opts.Timeout or the caller's ctx ended the wait: the call *)
(* returns, StopWithContext with an error.                                 *)
(***************************************************************************)
StopTimeout(i) ==
  /\ stop[i].pc \in {"wait", "drain"}
  /\ Fault("stopTimeout", i)
  /\ stop' = [stop EXCEPT ![i].pc = "done"]
  /\ StopUnchanged
  /\ UNCHANGED <<kvVars, ctx, watch>>

(***************************************************************************)
(* kv.Delete removes the key whoever wrote it; open watchers get an empty  *)
(* entry.  An error is logged and otherwise ignored.                       *)
(***************************************************************************)
Watching(i) == watch[i].pc \notin {"off", "open", "exit"}

StopDelete(i) ==
  /\ stop[i].pc = "delete"
  /\ stop' = [stop EXCEPT ![i].pc = "done"]
  /\ \/ /\ DeleteKey
        /\ watch' = [j \in Instances |->
                       [watch[j] EXCEPT !.nil = @ \/ Watching(j)]]
     \/ Fault("failDelete", i) /\ UNCHANGED <<kvVars, watch>>
  /\ StopUnchanged
  /\ UNCHANGED ctx

(***************************************************************************)
(* The process is gone with all its goroutines; it may start again with    *)
(* the same InstanceID.  Requests that left the process stay under way.    *)
(***************************************************************************)
ProcessDies(i) ==
  /\ isLeader' = [isLeader EXCEPT ![i] = FALSE]
  /\ leaderID' = [leaderID EXCEPT ![i] = NoInstance]
  /\ token' = [token EXCEPT ![i] = NoToken]
  /\ revision' = [revision EXCEPT ![i] = 0]
  /\ state' = [state EXCEPT ![i] = "INIT"]
  /\ healthFailureCount' = [healthFailureCount EXCEPT ![i] = 0]
  /\ ctx' = [ctx EXCEPT ![i] = "nil"]
  /\ watcherRunning' = [watcherRunning EXCEPT ![i] = FALSE]
  /\ acq' = [acq EXCEPT ![i] = [s \in AcqSlots |-> FreeAcq]]
  /\ hb' = [hb EXCEPT ![i] = [h \in HbSlots |-> FreeHb]]
  /\ vl' = [vl EXCEPT ![i] = [v \in VlSlots |-> FreeVl]]
  /\ watch' = [watch EXCEPT ![i] = WatchOff]
  /\ stop' = [stop EXCEPT ![i].pc = IF @ = "none" THEN @ ELSE "done"]
  /\ late' = late \cup {Request(i, h) :
                          h \in {q \in HbSlots : hb[i][q].pc = "wait"}}
  /\ UNCHANGED kvVars

Crash(i) ==
  /\ i \in Crashable
  /\ state[i] # "INIT"
  /\ ProcessDies(i)

(***************************************************************************)
(* StopWithContext left a nil e.ctx, and a goroutine uses it: it logs with *)
(* logWithContext(e.ctx), or it is a loop of a late promotion that begins  *)
(* only now with heartbeatLoop(e.ctx) or validationLoop(e.ctx).  The nil   *)
(* dereference takes the process down.  A loop that has not begun is not   *)
(* told from one at its select.  In a monitored instance the callbacks of  *)
(* the connection use e.ctx as well (MonitoredElection says when).         *)
(***************************************************************************)
HbUsesCtx(i, g) ==
  \/ g.pc = "idle"
  \/ /\ g.pc = "ticked"
     /\ i \in HealthChecked
     /\ UnhealthyDemotes(i)
  \/ HbDemotes(g)

VlUsesCtx(i, g) == (g.pc = "idle" /\ g.kind = "loop") \/ DemotesInvalid(i, g)

UsesCtx(i) ==
  \/ \E s \in AcqSlots : AcqUsesCtx(i, acq[i][s])
  \/ \E h \in HbSlots : HbUsesCtx(i, hb[i][h])
  \/ \E v \in VlSlots : VlUsesCtx(i, vl[i][v])
  \/ WatchUsesCtx(i)

Panic(i) ==
  /\ ctx[i] = "nil"
  /\ i \notin Monitored => UsesCtx(i)
  /\ ProcessDies(i)

=============================================================================
