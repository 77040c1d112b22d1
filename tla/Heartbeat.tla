------------------------------ MODULE Heartbeat ------------------------------
(***************************************************************************)
(* heartbeatLoop of leader/heartbeat.go.  A loop is a slot of hb[i]:       *)
(* "idle" waits for the ticker or ctx, "ticked" found IsLeader() true,     *)
(* "loaded" has loaded the revision and goes on to the token, "wait" has   *)
(* an Update under way, "ok", "permanent" and "transient" hold its result  *)
(* as IsPermanentError sees it.  A leader that was demoted and promoted    *)
(* again before its old loop ticked runs two loops.                        *)
(***************************************************************************)
EXTENDS ElectionState

hbUnchanged == <<ctx, acq, vl, stop>>

HbGoto(i, h, pc) == hb' = [hb EXCEPT ![i][h].pc = pc]
HbEnd(i, h) == hb' = [hb EXCEPT ![i][h] = FreeHb]

(***************************************************************************)
(* The Update a waiting loop sent; once the loop stops waiting for it the  *)
(* request is on its own and may reach the server at any time later.       *)
(***************************************************************************)
Request(i, h) == [id |-> i, tok |-> hb[i][h].tok, rev |-> hb[i][h].rev]

Abandon(i, h) ==
  late' = IF hb[i][h].pc = "wait" THEN late \cup {Request(i, h)} ELSE late

(***************************************************************************)
(* case <-ctx.Done(), in the outer select or while waiting for the result. *)
(***************************************************************************)
HbExit(i, h) ==
  /\ hb[i][h].pc \in {"idle", "wait", "ok", CasErrorClass}
  /\ ctx[i] # "live"
  /\ Abandon(i, h)
  /\ HbEnd(i, h)
  /\ UNCHANGED <<kvVars, atomVars, healthFailureCount, watcherRunning, watch,
                 hbUnchanged>>

(***************************************************************************)
(* case <-ticker.C: an instance that is not leader ends its loop.          *)
(***************************************************************************)
HbTick(i, h) ==
  /\ hb[i][h].pc = "idle"
  /\ IF isLeader[i] THEN HbGoto(i, h, "ticked") ELSE HbEnd(i, h)
  /\ UNCHANGED <<kvVars, atomVars, healthFailureCount, watcherRunning, watch,
                 late, hbUnchanged>>

(***************************************************************************)
(* Both handlers call becomeFollower, and the loop that called them ends.  *)
(***************************************************************************)
HandleHeartbeatFailure(i, h) == BecomeFollower(i) /\ HbEnd(i, h)
HandleHealthCheckFailure(i, h) == BecomeFollower(i) /\ HbEnd(i, h)

(***************************************************************************)
(* HealthChecker.Check returned false.  The counter is shared by all loops *)
(* of the instance and only a healthy check resets it; it is not counted   *)
(* beyond the threshold, where every further failure demotes as well.      *)
(***************************************************************************)
UnhealthyDemotes(i) == healthFailureCount[i] + 1 >= MaxHealthFailures

HbUnhealthy(i, h) ==
  LET n == IF healthFailureCount[i] < MaxHealthFailures
             THEN healthFailureCount[i] + 1
             ELSE healthFailureCount[i]
  IN /\ hb[i][h].pc = "ticked"
     /\ i \in HealthChecked
     /\ healthFailureCount' = [healthFailureCount EXCEPT ![i] = n]
     /\ IF n >= MaxHealthFailures
          THEN HandleHealthCheckFailure(i, h)
          ELSE UNCHANGED roleVars /\ HbGoto(i, h, "idle")
     /\ UNCHANGED <<kvVars, leaderID, token, revision, late, hbUnchanged>>

(***************************************************************************)
(* Healthy, or not checked: the loop loads the revision, then the token,   *)
(* and starts the goroutine that calls kv.Update.                          *)
(***************************************************************************)
HbLoad(i, h) ==
  /\ hb[i][h].pc = "ticked"
  /\ healthFailureCount' =
       [healthFailureCount EXCEPT ![i] = IF i \in HealthChecked THEN 0 ELSE @]
  /\ hb' = [hb EXCEPT ![i][h].pc = "loaded", ![i][h].rev = revision[i]]
  /\ UNCHANGED <<kvVars, atomVars, watcherRunning, watch, late, hbUnchanged>>

HbSend(i, h) ==
  /\ hb[i][h].pc = "loaded"
  /\ hb' = [hb EXCEPT ![i][h].pc = "wait", ![i][h].tok = token[i]]
  /\ UNCHANGED <<kvVars, atomVars, healthFailureCount, watcherRunning, watch,
                 late, hbUnchanged>>

(***************************************************************************)
(* The server processes the Update: the payload carries the loop's id and  *)
(* token, the guard is the revision the loop loaded.                       *)
(***************************************************************************)
HbApplied(i, h) ==
  /\ hb[i][h].pc = "wait"
  /\ UpdateOk(i, hb[i][h].tok, hb[i][h].rev)
  /\ hb' = [hb EXCEPT ![i][h].pc = "ok", ![i][h].rev = Rev + 1]
  /\ UNCHANGED <<atomVars, healthFailureCount, watcherRunning, watch, late,
                 hbUnchanged>>

HbRejected(i, h) ==
  /\ hb[i][h].pc = "wait"
  /\ ~CasHolds(hb[i][h].rev)
  /\ HbGoto(i, h, CasErrorClass)
  /\ UNCHANGED <<kvVars, atomVars, healthFailureCount, watcherRunning, watch,
                 late, hbUnchanged>>

(***************************************************************************)
(* The Update fails on the way: the request or its acknowledgement is      *)
(* lost, or updateTimeout fires while the request is still under way.      *)
(***************************************************************************)
HbLost(i, h) ==
  /\ \/ /\ hb[i][h].pc = "wait"
        /\ Fault("failUpdate", i)
        /\ UNCHANGED <<kvVars, late>>
     \/ /\ hb[i][h].pc = "wait"
        /\ Fault("lostAck", i)
        /\ UpdateOk(i, hb[i][h].tok, hb[i][h].rev)
        /\ UNCHANGED late
     \/ /\ hb[i][h].pc \in {"wait", "ok", "permanent"}
        /\ Fault("timeout", i)
        /\ Abandon(i, h)
        /\ UNCHANGED kvVars
  /\ HbGoto(i, h, "transient")
  /\ UNCHANGED <<atomVars, healthFailureCount, watcherRunning, watch,
                 hbUnchanged>>

(***************************************************************************)
(* The loop stores the new revision and goes on.                           *)
(***************************************************************************)
HbOk(i, h) ==
  /\ hb[i][h].pc = "ok"
  /\ revision' = [revision EXCEPT ![i] = hb[i][h].rev]
  /\ hb' = [hb EXCEPT ![i][h] = [FreeHb EXCEPT !.pc = "idle"]]
  /\ UNCHANGED <<kvVars, isLeader, leaderID, token, state, healthFailureCount,
                 watcherRunning, watch, late, hbUnchanged>>

(***************************************************************************)
(* updateErr # nil: a permanent error or the MaxFailures-th failure in a   *)
(* row demotes (handleHeartbeatFailure), any other waits for the next tick.*)
(***************************************************************************)
HbDemotes(g) ==
  g.pc = "permanent" \/ (g.pc = "transient" /\ g.fails + 1 >= MaxFailures)

(***************************************************************************)
(* Mutant of HbFailure: the loop ends without becomeFollower.              *)
(***************************************************************************)
HbFailureSilent(i, h) ==
  /\ hb[i][h].pc \in {"permanent", "transient"}
  /\ HbEnd(i, h)
  /\ UNCHANGED <<kvVars, atomVars, healthFailureCount, watcherRunning, watch,
                 late, hbUnchanged>>

HbFailure(i, h) ==
  LET g == hb[i][h]
  IN /\ g.pc \in {"permanent", "transient"}
     /\ IF HbDemotes(g)
          THEN HandleHeartbeatFailure(i, h)
          ELSE /\ hb' = [hb EXCEPT ![i][h] = [pc |-> "idle", rev |-> 0,
                                            tok |-> NoToken,
                                            fails |-> g.fails + 1]]
               /\ UNCHANGED roleVars
     /\ UNCHANGED <<kvVars, leaderID, token, revision, healthFailureCount, late,
                    hbUnchanged>>

(***************************************************************************)
(* An abandoned Update reaches the server, or never does.  Nobody reads    *)
(* its result.                                                             *)
(***************************************************************************)
LateUpdate(u) ==
  /\ late' = late \ {u}
  /\ UpdateOk(u.id, u.tok, u.rev) \/ UNCHANGED kvVars
  /\ UNCHANGED <<atomVars, healthFailureCount, watcherRunning, watch, hb,
                 hbUnchanged>>

=============================================================================
