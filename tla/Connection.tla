------------------------------ MODULE Connection ------------------------------
(***************************************************************************)
(* The connection of a monitored instance and what leader/connection.go    *)
(* makes of its events: natsConnectionMonitor keeps a status,              *)
(* disconnectHandler a grace timer, and handleReconnect starts a           *)
(* goroutine that verifies the leadership.                                 *)
(*                                                                         *)
(* conn[i].link is the connection itself.  nats.Conn queues its callbacks  *)
(* and runs them one after the other; cb is the handler that is running:   *)
(* "disconnect" and "reconnect" have stored the status and go on to the    *)
(* handler of the election.  on says whether the monitor's handlers are    *)
(* registered.                                                             *)
(*                                                                         *)
(* dh[i] is the disconnectHandler: its timer, the number of timer          *)
(* goroutines waiting for d.mu, and the one that holds it while it calls   *)
(* becomeFollower ("demote") or reads and calls onDemote ("notify").       *)
(*                                                                         *)
(* emu[i] is e.mu where a goroutine keeps it over another wait: "stop"     *)
(* waits for d.mu, "verify" waits for e.mu itself.  becomeLeader holds it  *)
(* while the instance is Entering.  Every other critical section is one    *)
(* step and needs MuFree(i).                                               *)
(***************************************************************************)
EXTENDS KVElection

CONSTANTS
  VfSlots,      \* goroutines running verifyLeadershipAfterReconnect
  Closable,     \* instances whose nats.Conn may be closed for good
  MaxFlaps      \* bound on the number of times a connection is lost

ASSUME ConnectionAssumption ==
  /\ VfSlots \subseteq Nat
  /\ Closable \subseteq Monitored
  /\ MaxFlaps \in Nat
  /\ \A k \in {"failCreate", "failUpdate", "failGet", "failWatch", "failDelete"} :
       Monitored \subseteq Faults[k]

VARIABLES conn, dh, emu, vf

connVars == <<conn, dh, emu, vf>>

NewConn == [link |-> "up", flaps |-> 0, queue |-> <<>>, cb |-> "idle",
            status |-> "disconnected", on |-> FALSE]
NewHandler == [timer |-> FALSE, fired |-> 0, holder |-> "none"]
FreeVf == [pc |-> "free", tok |-> NoToken]

Events == {"down", "up", "closed"}
ConnRec == [link : {"up", "down", "closed"}, flaps : 0..MaxFlaps,
            queue : Seq(Events), cb : {"idle", "disconnect", "reconnect"},
            status : {"connected", "disconnected", "reconnected", "closed"},
            on : BOOLEAN]
HandlerRec == [timer : BOOLEAN, fired : Nat,
               holder : {"none", "demote", "notify"}]
VfRec == [pc : {"free", "get", "validate", "valid", "failed", "stuck"},
          tok : Nat]

ConnTypeOK ==
  /\ conn \in [Instances -> ConnRec]
  /\ dh \in [Instances -> HandlerRec]
  /\ emu \in [Instances -> {"free", "stop", "verify"}]
  /\ vf \in [Instances -> [VfSlots -> VfRec]]

ConnInit ==
  /\ conn = [i \in Instances |-> NewConn]
  /\ dh = [i \in Instances |-> NewHandler]
  /\ emu = [i \in Instances |-> "free"]
  /\ vf = [i \in Instances |-> [v \in VfSlots |-> FreeVf]]

Online(i) == conn[i].link = "up"
MuFree(i) == emu[i] = "free" /\ ~Entering(i)
DmuFree(i) == dh[i].holder = "none"

-----------------------------------------------------------------------------
(***************************************************************************)
(* The network.  An event is queued only while a handler is registered.    *)
(***************************************************************************)
Enqueued(i, evs) == IF conn[i].on THEN conn[i].queue \o evs ELSE conn[i].queue

LinkDown(i) ==
  /\ i \in Monitored
  /\ Online(i)
  /\ conn[i].flaps < MaxFlaps
  /\ conn' = [conn EXCEPT ![i].link = "down", ![i].flaps = @ + 1,
                          ![i].queue = Enqueued(i, <<"down">>)]
  /\ UNCHANGED <<vars, dh, emu, vf>>

LinkUp(i) ==
  /\ conn[i].link = "down"
  /\ conn' = [conn EXCEPT ![i].link = "up", ![i].queue = Enqueued(i, <<"up">>)]
  /\ UNCHANGED <<vars, dh, emu, vf>>

LinkClosed(i) ==
  /\ i \in Closable
  /\ Online(i)
  /\ conn[i].flaps < MaxFlaps
  /\ conn' = [conn EXCEPT ![i].link = "closed", ![i].flaps = @ + 1,
                          ![i].queue = Enqueued(i, <<"down", "closed">>)]
  /\ UNCHANGED <<vars, dh, emu, vf>>

-----------------------------------------------------------------------------
(***************************************************************************)
(* natsConnectionMonitor: each callback stores the status first.           *)
(***************************************************************************)
Dispatch(i, ev, status, cb) ==
  /\ conn[i].cb = "idle"
  /\ conn[i].queue # <<>>
  /\ Head(conn[i].queue) = ev
  /\ conn' = [conn EXCEPT ![i].queue = Tail(@), ![i].status = status,
                          ![i].cb = cb]
  /\ UNCHANGED <<vars, dh, emu, vf>>

MonitorDisconnect(i) == Dispatch(i, "down", "disconnected", "disconnect")
MonitorReconnect(i) == Dispatch(i, "up", "reconnected", "reconnect")
MonitorClosed(i) == Dispatch(i, "closed", "closed", "idle")

CbReturns(i) == conn' = [conn EXCEPT ![i].cb = "idle"]

(***************************************************************************)
(* disconnectHandler.handleDisconnect: a leader arms the grace timer, in   *)
(* place of the one there is.  A timer that has fired cannot be stopped.   *)
(***************************************************************************)
HandleDisconnect(i) ==
  /\ conn[i].cb = "disconnect"
  /\ DmuFree(i)
  /\ isLeader[i] => ctx[i] # "nil"
  /\ dh' = [dh EXCEPT ![i].timer = @ \/ isLeader[i]]
  /\ CbReturns(i)
  /\ UNCHANGED <<vars, emu, vf>>

(***************************************************************************)
(* The grace period is over: the timer's goroutine starts, takes d.mu and  *)
(* looks at the status and at IsLeader().                                  *)
(***************************************************************************)
GraceTimerFires(i) ==
  /\ dh[i].timer
  /\ dh' = [dh EXCEPT ![i].timer = FALSE, ![i].fired = @ + 1]
  /\ UNCHANGED <<vars, conn, emu, vf>>

GracePeriodExpired(i) ==
  LET disconnected == conn[i].status = "disconnected"
  IN /\ dh[i].fired > 0
     /\ DmuFree(i)
     /\ (~disconnected \/ isLeader[i]) => ctx[i] # "nil"
     /\ dh' = [dh EXCEPT ![i].fired = @ - 1,
                         ![i].holder = IF disconnected /\ isLeader[i]
                                         THEN "demote" ELSE "none"]
     /\ UNCHANGED <<vars, conn, emu, vf>>

(***************************************************************************)
(* handleReconnect, under e.mu: the timer is stopped, and a leader has its *)
(* leadership verified by a goroutine that e.wg counts.                    *)
(***************************************************************************)
SpawnVerification(i) ==
  \E v \in VfSlots :
    /\ IsNextFree(vf[i], v)
    /\ vf' = [vf EXCEPT ![i][v] = [FreeVf EXCEPT !.pc = "get"]]

HandleReconnect(i) ==
  /\ conn[i].cb = "reconnect"
  /\ MuFree(i)
  /\ ctx[i] # "nil"
  /\ dh' = [dh EXCEPT ![i].timer = FALSE]
  /\ IF isLeader[i] THEN SpawnVerification(i) ELSE UNCHANGED vf
  /\ CbReturns(i)
  /\ UNCHANGED <<vars, emu>>

-----------------------------------------------------------------------------
(***************************************************************************)
(* verifyLeadershipAfterReconnect: kv.Get, then validateToken with the     *)
(* token loaded in between.  The entry of the first Get is not looked at.  *)
(* Either Get may fail or exceed its timeout on a connection that is up.   *)
(***************************************************************************)
VfGoto(i, v, pc, tok) == vf' = [vf EXCEPT ![i][v] = [pc |-> pc, tok |-> tok]]

VerifyGet(i, v) ==
  /\ vf[i][v].pc = "get"
  /\ \/ Online(i) /\ alive /\ VfGoto(i, v, "validate", token[i])
     \/ /\ ~(Online(i) /\ alive) \/ Fault("timeout", i)
        /\ VfGoto(i, v, "failed", NoToken)
  /\ UNCHANGED <<vars, conn, dh, emu>>

VerifyToken(i, v) ==
  /\ vf[i][v].pc = "validate"
  /\ \/ /\ Online(i) /\ TokenMatches(i, vf[i][v].tok)
        /\ VfGoto(i, v, "valid", NoToken)
     \/ /\ ~(Online(i) /\ TokenMatches(i, vf[i][v].tok)) \/ Fault("timeout", i)
        /\ VfGoto(i, v, "failed", NoToken)
  /\ UNCHANGED <<vars, conn, dh, emu>>

(***************************************************************************)
(* Mutant of VerificationPassed: the goroutine does not end, and e.wg is   *)
(* not told, if the instance is no longer leader.                          *)
(***************************************************************************)
VerificationPassedLeaks(i, v) ==
  /\ vf[i][v].pc = "valid"
  /\ isLeader[i]
  /\ MuFree(i)
  /\ conn' = [conn EXCEPT ![i].status = "connected"]
  /\ vf' = [vf EXCEPT ![i][v] = FreeVf]
  /\ UNCHANGED <<vars, dh, emu>>

(***************************************************************************)
(* Verification passed: if still leader, SetStatus(Connected), whatever    *)
(* the connection has become in the meantime.                              *)
(***************************************************************************)
VerificationPassed(i, v) ==
  /\ vf[i][v].pc = "valid"
  /\ MuFree(i)
  /\ conn' = [conn EXCEPT ![i].status = IF isLeader[i] THEN "connected" ELSE @]
  /\ vf' = [vf EXCEPT ![i][v] = FreeVf]
  /\ UNCHANGED <<vars, dh, emu>>

(***************************************************************************)
(* handleReconnectVerificationFailed locks e.mu and, if still leader,      *)
(* calls becomeFollower, which locks e.mu again: the goroutine never       *)
(* returns and e.mu is never unlocked.                                     *)
(***************************************************************************)
VerificationFailed(i, v) ==
  /\ vf[i][v].pc = "failed"
  /\ MuFree(i)
  /\ IF isLeader[i]
       THEN /\ ctx[i] # "nil"
            /\ emu' = [emu EXCEPT ![i] = "verify"]
            /\ VfGoto(i, v, "stuck", NoToken)
       ELSE /\ vf' = [vf EXCEPT ![i][v] = FreeVf]
            /\ UNCHANGED emu
  /\ UNCHANGED <<vars, conn, dh>>

(***************************************************************************)
(* Where these handlers log with e.ctx.                                    *)
(***************************************************************************)
ConnUsesCtx(i) ==
  \/ conn[i].cb = "disconnect" /\ isLeader[i]
  \/ conn[i].cb = "reconnect"
  \/ dh[i].fired > 0 /\ (conn[i].status # "disconnected" \/ isLeader[i])
  \/ dh[i].holder = "demote"
  \/ \E v \in VfSlots : vf[i][v].pc = "failed" /\ isLeader[i]

=============================================================================
