--------------------------- MODULE MonitoredProofs ----------------------------
(***************************************************************************)
(* Connections and callbacks refine the election group: every step of      *)
(* MonitoredElection is a step of KVElection or leaves the variables of    *)
(* KVElection as they are.  So the theorems of KVElectionProofs and        *)
(* LoopProofs carry over to monitored instances, however connections break *)
(* and return.  The types of what MonitoredElection adds, and that its two *)
(* deadlocks are for good, are proved from an invariant of their own.      *)
(***************************************************************************)
EXTENDS MonitoredElection, LoopProofs

LEMMA GoroutineMaps ==
  ASSUME NEW i \in Instances, GoroutineStep(i)
  PROVE  Next \/ UNCHANGED vars
<1>1. ASSUME NEW s \in AcqSlots, MAcq(i, s) PROVE Next
  BY <1>1 DEF MAcq, AcqStep, Next
<1>2. ASSUME NEW h \in HbSlots, MHbProgress(i, h) \/ MHbUnhealthy(i, h)
      PROVE  Next
  <2>1. HbProgress(i, h) \/ HbUnhealthy(i, h) \/ HbLost(i, h)
    BY <1>2 DEF MHbProgress, MHbCall, MHbFailure, MHbUnhealthy, HbProgress
  <2> QED
    BY <2>1 DEF HbStep, Next
<1>3. ASSUME NEW v \in VlSlots, MVlCall(i, v) \/ MVlDemote(i, v)
      PROVE  Next
  <2>1. VlProgress(i, v)
    BY <1>3 DEF MVlCall, MVlDemote, VlProgress
  <2> QED
    BY <2>1 DEF VlStep, Next
<1>4. ASSUME MWatchProgress(i) \/ MWatchEvent(i)
      PROVE  Next
  <2>1. WatchStep(i)
    BY <1>4 DEF MWatchProgress, MWatchEvent, WatchStep
  <2> QED
    BY <2>1 DEF Next
<1>5. ASSUME MonitorStep(i)
      PROVE  UNCHANGED vars
  BY <1>5 DEF MonitorStep, MonitorDisconnect, MonitorReconnect, MonitorClosed,
              Dispatch, HandleDisconnect, HandleReconnect
<1>6. ASSUME GraceStep(i)
      PROVE  Next \/ UNCHANGED vars
  <2>1. CASE GraceDemotes(i)
    BY <2>1 DEF GraceDemotes, Next
  <2>2. CASE ~GraceDemotes(i)
    BY <1>6, <2>2
       DEF GraceStep, GraceTimerFires, GracePeriodExpired, GraceCallsOnDemote
  <2> QED
    BY <2>1, <2>2
<1>7. ASSUME NEW v \in VfSlots, VerifyStep(i, v)
      PROVE  UNCHANGED vars
  BY <1>7 DEF VerifyStep, VerifyGet, VerifyToken, VerificationPassed,
              VerificationFailed
<1>8. ASSUME AppStep(i)
      PROVE  UNCHANGED vars
  BY <1>8 DEF AppStep
<1> QED
  BY <1>1, <1>2, <1>3, <1>4, <1>5, <1>6, <1>7, <1>8 DEF GoroutineStep

LEMMA ApplicationMaps ==
  ASSUME NEW i \in Instances, ApplicationStep(i)
  PROVE  Next \/ UNCHANGED vars
<1>1. CASE MStart(i)
  BY <1>1 DEF MStart, Next
<1>2. CASE MValidateTokenOrDemote(i)
  BY <1>2 DEF MValidateTokenOrDemote, VlStep, Next
<1>3. CASE MStop(i) \/ MCancel(i) \/ MStopTimeout(i)
  <2>1. StopStep(i)
    BY <1>3 DEF MStop, MCancel, MStopTimeout, StopStep
  <2> QED
    BY <2>1 DEF Next
<1>4. CASE HaltProgress(i)
  <2>1. CASE MStopProgress(i)
    <3>1. StopStep(i)
      BY <2>1 DEF MStopProgress, StopStep, StopProgress
    <3> QED
      BY <3>1 DEF Next
  <2>2. CASE HandlerStop(i) \/ MonitorStop(i) \/ StopCallsOnDemote(i)
    BY <2>2 DEF HandlerStop, MonitorStop, StopCallsOnDemote
  <2> QED
    BY <1>4, <2>1, <2>2 DEF HaltProgress
<1> QED
  BY <1>1, <1>2, <1>3, <1>4 DEF ApplicationStep

LEMMA StepMaps == [MNext]_allVars => [Next]_vars
<1> SUFFICES ASSUME [MNext]_allVars
             PROVE  Next \/ UNCHANGED vars
  OBVIOUS
<1>1. ASSUME NEW i \in Instances, LinkStep(i)
      PROVE  UNCHANGED vars
  BY <1>1 DEF LinkStep, LinkDown, LinkUp, LinkClosed
<1>2. ASSUME NEW i \in Instances, MDies(i)
      PROVE  Next
  <2>1. StopStep(i)
    BY <1>2 DEF MDies, StopStep
  <2> QED
    BY <2>1 DEF Next
<1>3. ASSUME Elsewhere
      PROVE  Next
  BY <1>3 DEF Elsewhere, Next
<1>4. ASSUME UNCHANGED allVars
      PROVE  UNCHANGED vars
  BY <1>4 DEF allVars
<1> QED
  BY <1>1, <1>2, <1>3, <1>4, GoroutineMaps, ApplicationMaps DEF MNext

(***************************************************************************)
(* The monitor, the grace timer, the verifications and the callbacks of    *)
(* leader/connection.go do nothing to the election that KVElection does    *)
(* not allow: MonitoredElection implements KVElection.                     *)
(***************************************************************************)
THEOREM MonitoredImplements == MSpec => ElectionImplemented
<1>1. MInit => Init
  BY DEF MInit
<1> QED
  BY <1>1, StepMaps, PTL DEF MSpec, ElectionImplemented

(***************************************************************************)
(* With connections that break, return or close, with grace timers,        *)
(* verifications and callbacks: no two instances hold the same fencing     *)
(* token and validateToken succeeds for the instance in the entry only.    *)
(***************************************************************************)
THEOREM MonitoredTokenSafe == MSpec => []FencingTokenExclusive
BY MonitoredImplements, FencingTokenSafe, PTL DEF ElectionImplemented, Spec

(***************************************************************************)
(* And the entry is still granted, pre-empted, renewed and lost as         *)
(* FencedLease allows, pre-empted only by a strictly higher priority.      *)
(***************************************************************************)
THEOREM MonitoredLeaseImplemented == MSpec => LeaseRefined
BY MonitoredImplements, LeaseImplemented, PTL DEF ElectionImplemented, Spec

(***************************************************************************)
(* Outside becomeLeader's critical section, the role that Status() reports *)
(* and the answer of IsLeader() agree, also when a grace timer, a          *)
(* verification or Stop demotes while a promotion is under way.            *)
(***************************************************************************)
THEOREM MonitoredRolesAgree == MSpec => []RoleAgrees
BY MonitoredImplements, RolesAgree, PTL DEF ElectionImplemented, Spec

(***************************************************************************)
(* No takeover deposes a leader of the same or a higher priority, although *)
(* an instance that reconnects finds the group changed.                    *)
(***************************************************************************)
THEOREM MonitoredTakeoverSafe == MSpec => TakeoverOnlyStrictlyHigher
BY MonitoredImplements, TakeoverSafe, PTL DEF ElectionImplemented, Spec

(***************************************************************************)
(* A running leader has its heartbeat loop and its validation loop, after  *)
(* whatever verifications and grace periods that did not demote it.        *)
(***************************************************************************)
THEOREM MonitoredLeaderLoops ==
  MSpec => [](LeaderIsHeartbeating /\ LeaderIsValidated)
BY MonitoredImplements, LeaderHeartbeats, LeaderValidates, PTL
   DEF ElectionImplemented, Spec

-----------------------------------------------------------------------------
(***************************************************************************)
(* The types of connections, handlers and callbacks, with the one fact on  *)
(* the locks that the deadlocks need: Stop has e.mu for as long as it      *)
(* waits for d.mu.                                                         *)
(***************************************************************************)
StopHoldsMu == \A i \in Instances : halt[i] = "lock" => emu[i] = "stop"

MInv == MTypeOK /\ StopHoldsMu

LEMMA MInvInit == MInit => MInv
<1> SUFFICES ASSUME MInit
             PROVE  MInv
  OBVIOUS
<1> USE DEF MInit
<1>1. ConnTypeOK
  <2>1. conn \in [Instances -> ConnRec]
    BY ConnectionAssumption DEF ConnInit, NewConn, ConnRec
  <2> QED
    BY <2>1 DEF ConnTypeOK, ConnInit, NewHandler, HandlerRec, FreeVf, VfRec,
                NoToken
<1>2. AppTypeOK
  BY DEF AppTypeOK, AppInit, NewApp, AppRec
<1> QED
  BY <1>1, <1>2 DEF MInv, MTypeOK, HaltPcs, StopHoldsMu

(***************************************************************************)
(* Steps that change no more than the counters of the callbacks.           *)
(***************************************************************************)
AppMove(i) ==
  UNCHANGED app \/ Promotes(i) \/ Owes(i) \/ OwesApi(i) \/ OnPromote(i)
    \/ OnDemote(i) \/ LoopCallsOnDemote(i) \/ ApiCallsOnDemote(i)

LEMMA AppMoveTypes ==
  ASSUME NEW i \in Instances, AppTypeOK, AppMove(i)
  PROVE  AppTypeOK'
<1> USE DEF AppTypeOK, AppRec
<1>1. app[i].promoting \in Nat /\ app[i].owed \in Nat /\ app[i].owedApi \in Nat
  OBVIOUS
<1>2. CASE UNCHANGED app
  BY <1>2
<1>3. CASE Promotes(i)
  <2> DEFINE n == IF i \in Callbacks THEN app[i].promoting + 1
                                     ELSE app[i].promoting
  <2>1. n \in Nat /\ app' = [app EXCEPT ![i].promoting = n]
    BY <1>1, <1>3 DEF Promotes
  <2> HIDE DEF n
  <2> QED
    BY <2>1
<1>4. CASE Owes(i)
  <2> DEFINE n == IF i \in Callbacks THEN app[i].owed + 1
                                     ELSE app[i].owed
  <2>1. n \in Nat /\ app' = [app EXCEPT ![i].owed = n]
    BY <1>1, <1>4 DEF Owes
  <2> HIDE DEF n
  <2> QED
    BY <2>1
<1>5. CASE OwesApi(i)
  <2> DEFINE n == IF i \in Callbacks THEN app[i].owedApi + 1
                                     ELSE app[i].owedApi
  <2>1. n \in Nat /\ app' = [app EXCEPT ![i].owedApi = n]
    BY <1>1, <1>5 DEF OwesApi
  <2> HIDE DEF n
  <2> QED
    BY <2>1
<1>6. CASE OnPromote(i)
  <2> DEFINE n == app[i].promoting - 1
  <2>1. /\ n \in Nat
        /\ app' = [app EXCEPT ![i].promoting = n, ![i].serving = TRUE]
    BY <1>1, <1>6 DEF OnPromote
  <2> HIDE DEF n
  <2> QED
    BY <2>1
<1>7. CASE LoopCallsOnDemote(i)
  <2> DEFINE n == app[i].owed - 1
  <2>1. /\ n \in Nat
        /\ app' = [app EXCEPT ![i].owed = n, ![i].serving = FALSE]
    BY <1>1, <1>7 DEF LoopCallsOnDemote
  <2> HIDE DEF n
  <2> QED
    BY <2>1
<1>8. CASE ApiCallsOnDemote(i)
  <2> DEFINE n == app[i].owedApi - 1
  <2>1. /\ n \in Nat
        /\ app' = [app EXCEPT ![i].owedApi = n, ![i].serving = FALSE]
    BY <1>1, <1>8 DEF ApiCallsOnDemote
  <2> HIDE DEF n
  <2> QED
    BY <2>1
<1>9. CASE OnDemote(i)
  BY <1>9 DEF OnDemote
<1> QED
  BY <1>2, <1>3, <1>4, <1>5, <1>6, <1>7, <1>8, <1>9 DEF AppMove

LEMMA CallbacksPreserve ==
  ASSUME NEW i \in Instances, MInv, AppMove(i), UNCHANGED <<connVars, halt>>
  PROVE  MInv'
<1>1. AppTypeOK'
  BY AppMoveTypes DEF MInv, MTypeOK
<1>2. ConnTypeOK' /\ StopHoldsMu'
  BY DEF MInv, MTypeOK, connVars, ConnTypeOK, StopHoldsMu
<1> QED
  BY <1>1, <1>2 DEF MInv, MTypeOK

(***************************************************************************)
(* A step that changes the connection alone: the network and Dispatch.     *)
(***************************************************************************)
LEMMA QueueTypes ==
  ASSUME NEW i \in Instances, ConnTypeOK
  PROVE  /\ \A evs \in Seq(Events) : Enqueued(i, evs) \in Seq(Events)
         /\ conn[i].queue # <<>> => Tail(conn[i].queue) \in Seq(Events)
<1>1. conn[i].queue \in Seq(Events)
  BY DEF ConnTypeOK, ConnRec
<1> QED
  BY <1>1 DEF Enqueued

(***************************************************************************)
(* The state of a connection with some of its fields replaced.             *)
(***************************************************************************)
LEMMA ConnEdits ==
  ASSUME NEW c \in ConnRec, NEW q \in Seq(Events)
  PROVE  /\ \A l \in {"up", "down", "closed"}, f \in 0..MaxFlaps :
              [c EXCEPT !.link = l, !.flaps = f, !.queue = q] \in ConnRec
         /\ \A l \in {"up", "down", "closed"} :
              [c EXCEPT !.link = l, !.queue = q] \in ConnRec
         /\ \A st \in {"disconnected", "reconnected", "closed"},
                cb \in {"idle", "disconnect", "reconnect"} :
              [c EXCEPT !.queue = q, !.status = st, !.cb = cb] \in ConnRec
         /\ \A b \in BOOLEAN, st \in {"connected", "disconnected"} :
              [c EXCEPT !.on = b, !.queue = q, !.status = st] \in ConnRec
         /\ \A b \in BOOLEAN :
              [c EXCEPT !.on = b, !.status = "connected"] \in ConnRec
         /\ \A f \in 0..MaxFlaps : [c EXCEPT !.flaps = f] \in ConnRec
<1> DEFINE Q == Seq(Events)
<1>1. /\ q \in Q
      /\ ConnRec = [link : {"up", "down", "closed"}, flaps : 0..MaxFlaps,
                    queue : Q, cb : {"idle", "disconnect", "reconnect"},
                    status : {"connected", "disconnected", "reconnected",
                              "closed"},
                    on : BOOLEAN]
  BY DEF ConnRec
<1> HIDE DEF Q
<1> QED
  BY <1>1

LEMMA LinkTypes ==
  ASSUME NEW i \in Instances, MInv, LinkStep(i)
  PROVE  MInv'
<1> USE DEF MInv, MTypeOK
<1>1. /\ <<"down">> \in Seq(Events)
      /\ <<"up">> \in Seq(Events)
      /\ <<"down", "closed">> \in Seq(Events)
  BY DEF Events
<1>2. /\ Enqueued(i, <<"down">>) \in Seq(Events)
      /\ Enqueued(i, <<"up">>) \in Seq(Events)
      /\ Enqueued(i, <<"down", "closed">>) \in Seq(Events)
  BY <1>1, QueueTypes
<1>3. conn' \in [Instances -> ConnRec]
  <2>1. conn[i].flaps < MaxFlaps => conn[i].flaps + 1 \in 0..MaxFlaps
    BY ConnectionAssumption DEF ConnTypeOK, ConnRec
  <2>2. conn \in [Instances -> ConnRec] /\ conn[i] \in ConnRec
    BY DEF ConnTypeOK
  <2>3. PICK r \in ConnRec : conn' = [conn EXCEPT ![i] = r]
    <3>1. CASE LinkDown(i)
      <4> DEFINE r == [conn[i] EXCEPT !.link = "down", !.flaps = @ + 1,
                                      !.queue = Enqueued(i, <<"down">>)]
      <4>1. r \in ConnRec
        BY <1>2, <2>1, <2>2, <3>1, ConnEdits DEF LinkDown
      <4>2. conn' = [conn EXCEPT ![i] = r]
        BY <2>2, <3>1 DEF LinkDown
      <4> QED
        BY <4>1, <4>2
    <3>2. CASE LinkUp(i)
      <4> DEFINE r == [conn[i] EXCEPT !.link = "up",
                                      !.queue = Enqueued(i, <<"up">>)]
      <4>1. r \in ConnRec
        BY <1>2, <2>2, ConnEdits
      <4>2. conn' = [conn EXCEPT ![i] = r]
        BY <2>2, <3>2 DEF LinkUp
      <4> QED
        BY <4>1, <4>2
    <3>3. CASE LinkClosed(i)
      <4> DEFINE r == [conn[i] EXCEPT
                         !.link = "closed", !.flaps = @ + 1,
                         !.queue = Enqueued(i, <<"down", "closed">>)]
      <4>1. r \in ConnRec
        BY <1>2, <2>1, <2>2, <3>3, ConnEdits DEF LinkClosed
      <4>2. conn' = [conn EXCEPT ![i] = r]
        BY <2>2, <3>3 DEF LinkClosed
      <4> QED
        BY <4>1, <4>2
    <3> QED
      BY <3>1, <3>2, <3>3 DEF LinkStep
  <2> QED
    BY <2>2, <2>3
<1>4. UNCHANGED <<dh, emu, vf, app, halt>>
  BY DEF LinkStep, LinkDown, LinkUp, LinkClosed
<1> QED
  BY <1>3, <1>4 DEF ConnTypeOK, AppTypeOK, StopHoldsMu

LEMMA MonitorTypes ==
  ASSUME NEW i \in Instances, MInv, MonitorStep(i)
  PROVE  MInv'
<1> USE DEF MInv, MTypeOK
<1>1. UNCHANGED <<emu, app, halt>>
  BY DEF MonitorStep, MonitorDisconnect, MonitorReconnect, MonitorClosed,
         Dispatch, HandleDisconnect, HandleReconnect
<1>2. conn' \in [Instances -> ConnRec]
  <2>1. ASSUME NEW ev, NEW st \in {"disconnected", "reconnected", "closed"},
               NEW cb \in {"idle", "disconnect", "reconnect"},
               Dispatch(i, ev, st, cb)
        PROVE  conn' \in [Instances -> ConnRec]
    <3> DEFINE r == [conn[i] EXCEPT !.queue = Tail(@), !.status = st,
                                    !.cb = cb]
    <3>1. Tail(conn[i].queue) \in Seq(Events)
      BY <2>1, QueueTypes DEF Dispatch
    <3>2. conn \in [Instances -> ConnRec] /\ conn[i] \in ConnRec
      BY DEF ConnTypeOK
    <3>3. r \in ConnRec
      BY <3>1, <3>2, ConnEdits
    <3>4. conn' = [conn EXCEPT ![i] = r]
      BY <2>1, <3>2 DEF Dispatch
    <3> HIDE DEF r
    <3> QED
      BY <3>2, <3>3, <3>4
  <2>2. CASE CbReturns(i)
    BY <2>2 DEF CbReturns, ConnTypeOK, ConnRec
  <2> QED
    BY <2>1, <2>2 DEF MonitorStep, MonitorDisconnect, MonitorReconnect,
                      MonitorClosed, HandleDisconnect, HandleReconnect
<1>3. dh' \in [Instances -> HandlerRec]
  <2>1. CASE UNCHANGED dh
    BY <2>1 DEF ConnTypeOK
  <2>2. CASE HandleDisconnect(i) \/ HandleReconnect(i)
    <3>1. PICK b \in BOOLEAN : dh' = [dh EXCEPT ![i].timer = b]
      <4>1. CASE HandleReconnect(i)
        BY <4>1 DEF HandleReconnect
      <4>2. CASE HandleDisconnect(i)
        <5>1. dh' = [dh EXCEPT ![i].timer = dh[i].timer \/ isLeader[i]]
          BY <4>2 DEF HandleDisconnect, ConnTypeOK
        <5>2. (dh[i].timer \/ isLeader[i]) \in BOOLEAN
          OBVIOUS
        <5> QED
          BY <5>1, <5>2
      <4> QED
        BY <2>2, <4>1, <4>2
    <3> QED
      BY <3>1 DEF ConnTypeOK, HandlerRec
  <2> QED
    BY <2>1, <2>2 DEF MonitorStep, MonitorDisconnect, MonitorReconnect,
                      MonitorClosed, Dispatch
<1>4. vf' \in [Instances -> [VfSlots -> VfRec]]
  <2>1. CASE UNCHANGED vf
    BY <2>1 DEF ConnTypeOK
  <2>2. CASE SpawnVerification(i)
    BY <2>2 DEF SpawnVerification, ConnTypeOK, VfRec, FreeVf, NoToken
  <2> QED
    BY <2>1, <2>2 DEF MonitorStep, MonitorDisconnect, MonitorReconnect,
                      MonitorClosed, Dispatch, HandleDisconnect,
                      HandleReconnect
<1> QED
  BY <1>1, <1>2, <1>3, <1>4 DEF ConnTypeOK, AppTypeOK, StopHoldsMu

LEMMA GraceTypes ==
  ASSUME NEW i \in Instances, MInv, GraceStep(i)
  PROVE  MInv'
<1> USE DEF MInv, MTypeOK
<1>1. UNCHANGED <<conn, emu, vf, halt>>
  BY DEF GraceStep, GraceTimerFires, GracePeriodExpired, GraceDemotes,
         GraceCallsOnDemote
<1>2. AppTypeOK'
  <2>1. AppMove(i)
    BY DEF GraceStep, GraceDemotes, GraceCallsOnDemote, AppMove
  <2> QED
    BY <2>1, AppMoveTypes
<1>3. dh' \in [Instances -> HandlerRec]
  <2>1. dh \in [Instances -> HandlerRec] /\ dh[i].fired \in Nat
    BY DEF ConnTypeOK, HandlerRec
  <2>2. CASE GraceTimerFires(i)
    BY <2>1, <2>2 DEF GraceTimerFires, HandlerRec
  <2>3. CASE GracePeriodExpired(i)
    <3> DEFINE n == dh[i].fired - 1
               d == IF conn[i].status = "disconnected" /\ isLeader[i]
                      THEN "demote" ELSE "none"
    <3>1. n \in Nat /\ d \in {"none", "demote", "notify"}
      BY <2>1, <2>3 DEF GracePeriodExpired
    <3>2. dh' = [dh EXCEPT ![i].fired = n, ![i].holder = d]
      BY <2>3 DEF GracePeriodExpired
    <3> HIDE DEF n, d
    <3> QED
      BY <2>1, <3>1, <3>2 DEF HandlerRec
  <2>4. CASE GraceDemotes(i) \/ GraceCallsOnDemote(i)
    BY <2>1, <2>4 DEF GraceDemotes, GraceCallsOnDemote, HandlerRec
  <2> QED
    BY <2>2, <2>3, <2>4 DEF GraceStep
<1> QED
  BY <1>1, <1>2, <1>3 DEF ConnTypeOK, StopHoldsMu

(***************************************************************************)
(* A verification takes e.mu only when it is free, so never from Stop; the *)
(* token it carries is the one KVElection's type invariant speaks of.      *)
(***************************************************************************)
LEMMA VerifyTypes ==
  ASSUME NEW i \in Instances, NEW v \in VfSlots, TypeOK, MInv, VerifyStep(i, v)
  PROVE  MInv'
<1> USE DEF MInv, MTypeOK
<1>1. UNCHANGED <<dh, app, halt>>
  BY DEF VerifyStep, VerifyGet, VerifyToken, VerificationPassed,
         VerificationFailed
<1>2. conn' \in [Instances -> ConnRec]
  <2>1. CASE UNCHANGED conn
    BY <2>1 DEF ConnTypeOK
  <2>2. CASE VerificationPassed(i, v)
    <3>1. PICK st \in {"connected", "disconnected", "reconnected", "closed"} :
            conn' = [conn EXCEPT ![i].status = st]
      BY <2>2 DEF VerificationPassed, ConnTypeOK, ConnRec
    <3> QED
      BY <3>1 DEF ConnTypeOK, ConnRec
  <2> QED
    BY <2>1, <2>2 DEF VerifyStep, VerifyGet, VerifyToken, VerificationFailed
<1>3. vf' \in [Instances -> [VfSlots -> VfRec]]
  <2>1. token[i] \in Nat
    BY DEF TypeOK
  <2>2. PICK r \in VfRec : vf' = [vf EXCEPT ![i][v] = r]
    BY <2>1 DEF VerifyStep, VerifyGet, VerifyToken, VerificationPassed,
                VerificationFailed, VfGoto, VfRec, FreeVf, NoToken
  <2> QED
    BY <2>2 DEF ConnTypeOK
<1>4. emu' = emu \/ (MuFree(i) /\ emu' = [emu EXCEPT ![i] = "verify"])
  BY DEF VerifyStep, VerifyGet, VerifyToken, VerificationPassed,
         VerificationFailed
<1>5. emu' \in [Instances -> {"free", "stop", "verify"}]
  BY <1>4 DEF ConnTypeOK
<1>6. StopHoldsMu'
  BY <1>1, <1>4 DEF StopHoldsMu, MuFree, ConnTypeOK
<1> QED
  BY <1>1, <1>2, <1>3, <1>5, <1>6 DEF ConnTypeOK, AppTypeOK

(***************************************************************************)
(* Start, Stop and the end of a process.                                   *)
(***************************************************************************)
LEMMA StartTypes ==
  ASSUME NEW i \in Instances, MInv, MStart(i)
  PROVE  MInv'
<1> USE DEF MInv, MTypeOK
<1>1. UNCHANGED <<dh, emu, vf, app, halt>>
  BY DEF MStart
<1>2. conn' \in [Instances -> ConnRec]
  <2>1. /\ conn \in [Instances -> ConnRec]
        /\ conn[i] \in ConnRec
        /\ conn[i].queue \in Seq(Events)
    BY DEF ConnTypeOK, ConnRec
  <2>2. PICK r \in ConnRec : conn' = [conn EXCEPT ![i] = r]
    <3>1. CASE i \in Monitored
      <4> DEFINE r == [conn[i] EXCEPT !.on = TRUE, !.status = "connected"]
      <4>1. r \in ConnRec
        BY <2>1, ConnEdits
      <4>2. conn' = [conn EXCEPT ![i] = r]
        BY <2>1, <3>1 DEF MStart
      <4> QED
        BY <4>1, <4>2
    <3>2. CASE i \notin Monitored
      BY <2>1, <3>2 DEF MStart
    <3> QED
      BY <3>1, <3>2
  <2> QED
    BY <2>1, <2>2
<1> QED
  BY <1>1, <1>2 DEF ConnTypeOK, AppTypeOK, StopHoldsMu

LEMMA StopTypes ==
  ASSUME NEW i \in Instances, MInv, MStop(i)
  PROVE  MInv'
<1> USE DEF MInv, MTypeOK
<1>1. UNCHANGED <<conn, dh, vf, app>>
  BY DEF MStop
<1>2. emu' \in [Instances -> {"free", "stop", "verify"}]
  BY DEF MStop, ConnTypeOK
<1>3. halt' \in [Instances -> HaltPcs]
  BY DEF MStop, HaltPcs
<1>4. StopHoldsMu'
  BY DEF MStop, StopHoldsMu, ConnTypeOK
<1> QED
  BY <1>1, <1>2, <1>3, <1>4 DEF ConnTypeOK, AppTypeOK

LEMMA HaltTypes ==
  ASSUME NEW i \in Instances, MInv, HaltProgress(i) \/ MStopTimeout(i)
  PROVE  MInv'
<1> USE DEF MInv, MTypeOK
<1>1. CASE HandlerStop(i)
  <2>1. dh' \in [Instances -> HandlerRec]
    BY <1>1 DEF HandlerStop, ConnTypeOK, HandlerRec
  <2>2. emu' \in [Instances -> {"free", "stop", "verify"}]
    BY <1>1 DEF HandlerStop, ConnTypeOK
  <2>3. halt' \in [Instances -> HaltPcs] /\ StopHoldsMu'
    BY <1>1 DEF HandlerStop, HaltPcs, StopHoldsMu, ConnTypeOK
  <2>4. UNCHANGED <<conn, vf, app>>
    BY <1>1 DEF HandlerStop
  <2> QED
    BY <2>1, <2>2, <2>3, <2>4 DEF ConnTypeOK, AppTypeOK
<1>2. CASE MonitorStop(i)
  <2> DEFINE r == [conn[i] EXCEPT !.on = FALSE, !.queue = <<>>,
                                  !.status = "disconnected"]
  <2>1. conn \in [Instances -> ConnRec] /\ conn[i] \in ConnRec
    BY DEF ConnTypeOK
  <2>2. r \in ConnRec
    <3>1. <<>> \in Seq(Events)
      OBVIOUS
    <3> QED
      BY <2>1, <3>1, ConnEdits
  <2>3. conn' = [conn EXCEPT ![i] = r]
    BY <1>2, <2>1 DEF MonitorStop
  <2> HIDE DEF r
  <2>4. conn' \in [Instances -> ConnRec]
    BY <2>1, <2>2, <2>3
  <2>5. halt' \in [Instances -> HaltPcs] /\ StopHoldsMu'
    BY <1>2 DEF MonitorStop, HaltPcs, StopHoldsMu
  <2>6. UNCHANGED <<dh, emu, vf, app>>
    BY <1>2 DEF MonitorStop
  <2> QED
    BY <2>4, <2>5, <2>6 DEF ConnTypeOK, AppTypeOK
<1>3. CASE MStopProgress(i) \/ MStopTimeout(i) \/ StopCallsOnDemote(i)
  <2>1. AppMove(i) /\ UNCHANGED connVars
    BY <1>3 DEF MStopProgress, MStopTimeout, StopCallsOnDemote, AppMove
  <2>2. AppTypeOK' /\ ConnTypeOK'
    BY <2>1, AppMoveTypes DEF connVars, ConnTypeOK
  <2>3. AfterStop(i) \in HaltPcs \ {"lock"}
    BY DEF AfterStop, HaltPcs
  <2>4. PICK p \in HaltPcs \ {"lock"} : halt' = [halt EXCEPT ![i] = p]
    <3>1. halt[i] = "wait" => halt[i] \in HaltPcs \ {"lock"}
      BY DEF HaltPcs
    <3> QED
      BY <1>3, <2>3, <3>1
         DEF MStopProgress, MStopTimeout, StopCallsOnDemote, HaltPcs
  <2>5. halt' \in [Instances -> HaltPcs]
    BY <2>4
  <2>6. StopHoldsMu'
    BY <2>1, <2>4 DEF StopHoldsMu, connVars
  <2> QED
    BY <2>2, <2>5, <2>6
<1> QED
  BY <1>1, <1>2, <1>3 DEF HaltProgress

LEMMA DeathTypes ==
  ASSUME NEW i \in Instances, MInv, MDies(i)
  PROVE  MInv'
<1> USE DEF MInv, MTypeOK
<1>1. conn' \in [Instances -> ConnRec]
  <2> DEFINE r == [NewConn EXCEPT !.flaps = conn[i].flaps]
  <2>1. conn \in [Instances -> ConnRec] /\ conn[i].flaps \in 0..MaxFlaps
    BY DEF ConnTypeOK, ConnRec
  <2>2. r \in ConnRec
    <3>1. NewConn \in ConnRec
      BY ConnectionAssumption DEF NewConn, ConnRec
    <3>2. <<>> \in Seq(Events)
      OBVIOUS
    <3> QED
      BY <2>1, <3>1, <3>2, ConnEdits
  <2>3. conn' = [conn EXCEPT ![i] = r]
    BY DEF MDies
  <2> HIDE DEF r
  <2> QED
    BY <2>1, <2>2, <2>3
<1>2. dh' \in [Instances -> HandlerRec]
  BY DEF MDies, ConnTypeOK, NewHandler, HandlerRec
<1>3. vf' \in [Instances -> [VfSlots -> VfRec]]
  BY DEF MDies, ConnTypeOK, FreeVf, VfRec, NoToken
<1>4. emu' \in [Instances -> {"free", "stop", "verify"}]
  BY DEF MDies, ConnTypeOK
<1>5. AppTypeOK'
  BY DEF MDies, AppTypeOK, NewApp, AppRec
<1>6. halt' \in [Instances -> HaltPcs] /\ StopHoldsMu'
  BY DEF MDies, HaltPcs, StopHoldsMu, ConnTypeOK
<1> QED
  BY <1>1, <1>2, <1>3, <1>4, <1>5, <1>6 DEF ConnTypeOK

LEMMA MInvStep ==
  ASSUME TypeOK, MInv, [MNext]_allVars
  PROVE  MInv'
<1>1. ASSUME UNCHANGED <<connVars, app, halt>>
      PROVE  MInv'
  BY <1>1 DEF MInv, MTypeOK, ConnTypeOK, AppTypeOK, StopHoldsMu, connVars
<1>2. ASSUME NEW i \in Instances, GoroutineStep(i)
      PROVE  MInv'
  <2>1. ASSUME MonitorStep(i) \/ GraceStep(i)
        PROVE  MInv'
    BY <2>1, MonitorTypes, GraceTypes
  <2>2. ASSUME NEW v \in VfSlots, VerifyStep(i, v)
        PROVE  MInv'
    BY <2>2, VerifyTypes
  <2>3. ASSUME AppMove(i), UNCHANGED <<connVars, halt>>
        PROVE  MInv'
    BY <2>3, CallbacksPreserve
  <2>4. ASSUME NEW s \in AcqSlots, MAcq(i, s)
        PROVE  AppMove(i) /\ UNCHANGED <<connVars, halt>>
    BY <2>4 DEF MAcq, AppMove
  <2>5. ASSUME NEW h \in HbSlots, MHbProgress(i, h) \/ MHbUnhealthy(i, h)
        PROVE  AppMove(i) /\ UNCHANGED <<connVars, halt>>
    BY <2>5 DEF MHbProgress, MHbCall, MHbFailure, MHbUnhealthy, AppMove
  <2>6. ASSUME NEW v \in VlSlots, MVlCall(i, v) \/ MVlDemote(i, v)
        PROVE  AppMove(i) /\ UNCHANGED <<connVars, halt>>
    BY <2>6 DEF MVlCall, MVlDemote, AppMove
  <2>7. ASSUME MWatchProgress(i) \/ MWatchEvent(i) \/ AppStep(i)
        PROVE  AppMove(i) /\ UNCHANGED <<connVars, halt>>
    BY <2>7 DEF MWatchProgress, MWatchEvent, AppStep, AppMove
  <2> QED
    BY <1>2, <2>1, <2>2, <2>3, <2>4, <2>5, <2>6, <2>7 DEF GoroutineStep
<1>3. ASSUME NEW i \in Instances, ApplicationStep(i)
      PROVE  MInv'
  <2>1. CASE MValidateTokenOrDemote(i) \/ MCancel(i)
    BY <1>1, <2>1 DEF MValidateTokenOrDemote, MCancel
  <2> QED
    BY <1>3, <2>1, StartTypes, StopTypes, HaltTypes DEF ApplicationStep
<1>4. ASSUME Elsewhere \/ UNCHANGED allVars
      PROVE  MInv'
  BY <1>1, <1>4 DEF Elsewhere, allVars
<1> QED
  BY <1>2, <1>3, <1>4, LinkTypes, DeathTypes DEF MNext

LEMMA MInvHolds == MSpec => []MInv
<1>1. MSpec => []TypeOK
  BY MonitoredImplements, TypeCorrect, PTL DEF ElectionImplemented, Spec
<1>2. MInv /\ TypeOK /\ [MNext]_allVars => MInv'
  BY MInvStep
<1> QED
  BY <1>1, <1>2, MInvInit, PTL DEF MSpec

(***************************************************************************)
(* Connections, grace timers, verifications, callbacks and Stop stay in    *)
(* their types for any number of instances, verifications and flaps: no    *)
(* callback or fired timer is taken twice from its counter, and a          *)
(* verification compares a token that the instance really had.             *)
(***************************************************************************)
THEOREM MonitoredTypeCorrect == MSpec => []MTypeOK
<1>1. MInv => MTypeOK
  BY DEF MInv
<1> QED
  BY <1>1, MInvHolds, PTL

-----------------------------------------------------------------------------
(***************************************************************************)
(* What a step may do to the locks of an instance: e.mu changes hands only *)
(* if it is free or if Stop, which holds it, gets d.mu; d.mu changes hands *)
(* only if it is free or if its holder gets e.mu; or the process is gone.  *)
(***************************************************************************)
MuStays(i) == emu'[i] = emu[i]
DmuStays(i) == dh'[i].holder = dh[i].holder

LockMove(i) ==
  \/ MuStays(i) /\ DmuStays(i)
  \/ MuFree(i)
  \/ emu[i] = "stop" /\ DmuFree(i)
  \/ MuStays(i) /\ DmuFree(i)
  \/ state'[i] = "INIT"

LEMMA LocksStay ==
  ASSUME UNCHANGED <<emu, dh>>
  PROVE  \A j \in Instances : LockMove(j)
BY DEF LockMove, MuStays, DmuStays

LEMMA GoroutineLocks ==
  ASSUME NEW i \in Instances, MInv, GoroutineStep(i)
  PROVE  \A j \in Instances : LockMove(j)
<1> USE DEF LockMove, MuStays, DmuStays, MuFree, DmuFree
<1>1. emu \in [Instances -> {"free", "stop", "verify"}]
  BY DEF MInv, MTypeOK, ConnTypeOK
<1>2. dh \in [Instances -> HandlerRec]
  BY DEF MInv, MTypeOK, ConnTypeOK
<1>3. ASSUME NEW t, dh' = [dh EXCEPT ![i].timer = t], UNCHANGED emu
      PROVE  \A j \in Instances : LockMove(j)
  BY <1>2, <1>3 DEF HandlerRec
<1>4. CASE UNCHANGED <<emu, dh>>
  BY <1>4, LocksStay
<1>5. CASE MonitorStep(i)
  BY <1>3, <1>4, <1>5
     DEF MonitorStep, MonitorDisconnect, MonitorReconnect, MonitorClosed,
         Dispatch, HandleDisconnect, HandleReconnect
<1>6. CASE GraceStep(i)
  <2>1. CASE GraceTimerFires(i)
    BY <1>2, <2>1 DEF GraceTimerFires, HandlerRec
  <2>2. CASE GracePeriodExpired(i)
    BY <1>2, <2>2 DEF GracePeriodExpired
  <2>3. CASE GraceDemotes(i) \/ GraceCallsOnDemote(i)
    BY <1>2, <2>3 DEF GraceDemotes, GraceCallsOnDemote
  <2> QED
    BY <1>6, <2>1, <2>2, <2>3 DEF GraceStep
<1>7. ASSUME NEW v \in VfSlots, VerifyStep(i, v)
      PROVE  \A j \in Instances : LockMove(j)
  BY <1>1, <1>4, <1>7 DEF VerifyStep, VerifyGet, VerifyToken,
                          VerificationPassed, VerificationFailed
<1>8. ASSUME NEW s \in AcqSlots, MAcq(i, s)
      PROVE  UNCHANGED <<emu, dh>>
  BY <1>8 DEF MAcq, connVars
<1>9. ASSUME NEW h \in HbSlots, MHbProgress(i, h) \/ MHbUnhealthy(i, h)
      PROVE  UNCHANGED <<emu, dh>>
  BY <1>9 DEF MHbProgress, MHbCall, MHbFailure, MHbUnhealthy, connVars
<1>10. ASSUME NEW v \in VlSlots, MVlCall(i, v) \/ MVlDemote(i, v)
       PROVE  UNCHANGED <<emu, dh>>
  BY <1>10 DEF MVlCall, MVlDemote, connVars
<1>11. ASSUME MWatchProgress(i) \/ MWatchEvent(i) \/ AppStep(i)
       PROVE  UNCHANGED <<emu, dh>>
  BY <1>11 DEF MWatchProgress, MWatchEvent, AppStep, connVars
<1> HIDE DEF LockMove
<1> QED
  BY <1>4, <1>5, <1>6, <1>7, <1>8, <1>9, <1>10, <1>11 DEF GoroutineStep

(***************************************************************************)
(* HandlerStop unlocks e.mu without a look at who holds it: this is what   *)
(* StopHoldsMu is for.                                                     *)
(***************************************************************************)
LEMMA ApplicationLocks ==
  ASSUME NEW i \in Instances, MInv, ApplicationStep(i)
  PROVE  \A j \in Instances : LockMove(j)
<1> USE DEF LockMove, MuStays, DmuStays, MuFree, DmuFree
<1>1. emu \in [Instances -> {"free", "stop", "verify"}]
  BY DEF MInv, MTypeOK, ConnTypeOK
<1>2. dh \in [Instances -> HandlerRec]
  BY DEF MInv, MTypeOK, ConnTypeOK
<1>3. CASE MStop(i)
  BY <1>1, <1>3 DEF MStop
<1>4. CASE HandlerStop(i)
  <2>1. emu[i] = "stop" /\ DmuFree(i)
    BY <1>4 DEF HandlerStop, MInv, StopHoldsMu
  <2>2. ASSUME NEW j \in Instances, j # i
        PROVE  MuStays(j) /\ DmuStays(j)
    BY <1>1, <1>2, <1>4, <2>2 DEF HandlerStop
  <2> QED
    BY <2>1, <2>2
<1>5. CASE ~MStop(i) /\ ~HandlerStop(i)
  <2>1. UNCHANGED <<emu, dh>>
    BY <1>5 DEF ApplicationStep, MStart, MValidateTokenOrDemote, MCancel,
                HaltProgress, MonitorStop, MStopProgress, StopCallsOnDemote,
                MStopTimeout, connVars
  <2> QED
    BY <2>1, LocksStay
<1> QED
  BY <1>3, <1>4, <1>5

LEMMA LocksMove ==
  ASSUME TypeOK, MInv, [MNext]_allVars
  PROVE  \A j \in Instances : LockMove(j)
<1>1. ASSUME NEW i \in Instances, LinkStep(i)
      PROVE  UNCHANGED <<emu, dh>>
  BY <1>1 DEF LinkStep, LinkDown, LinkUp, LinkClosed
<1>2. ASSUME NEW i \in Instances, MDies(i)
      PROVE  \A j \in Instances : LockMove(j)
  <2>1. state' = [state EXCEPT ![i] = "INIT"]
    BY <1>2 DEF MDies, Crash, Panic, ProcessDies
  <2>2. state'[i] = "INIT"
    BY <2>1 DEF TypeOK
  <2>3. ASSUME NEW j \in Instances, j # i
        PROVE  MuStays(j) /\ DmuStays(j)
    BY <1>2, <2>3 DEF MDies, MuStays, DmuStays, MInv, MTypeOK, ConnTypeOK
  <2> QED
    BY <2>2, <2>3 DEF LockMove
<1>3. ASSUME Elsewhere \/ UNCHANGED allVars
      PROVE  UNCHANGED <<emu, dh>>
  BY <1>3 DEF Elsewhere, allVars, connVars
<1> QED
  BY <1>1, <1>2, <1>3, LocksStay, GoroutineLocks, ApplicationLocks DEF MNext

(***************************************************************************)
(* An instance whose verification waits for the e.mu it holds itself, or   *)
(* whose Stop and grace timer wait for each other, does so until its       *)
(* process ends, for any number of instances, verifications and flaps and  *)
(* whatever the other goroutines do.                                       *)
(***************************************************************************)
THEOREM DeadlocksHold == MSpec => DeadlocksAreForGood
<1>1. MInv /\ TypeOK /\ [MNext]_allVars => [DeadlockStep]_allVars
  <2> SUFFICES ASSUME MInv, TypeOK, [MNext]_allVars, NEW i \in Instances
               PROVE  /\ SelfDeadlock(i) =>
                           SelfDeadlock(i)' \/ state'[i] = "INIT"
                      /\ LockCycle(i) => LockCycle(i)' \/ state'[i] = "INIT"
    BY DEF DeadlockStep
  <2>1. LockMove(i)
    BY LocksMove
  <2> QED
    BY <2>1 DEF LockMove, MuStays, DmuStays, MuFree, DmuFree, SelfDeadlock,
                LockCycle
<1>2. MSpec => []TypeOK
  BY MonitoredImplements, TypeCorrect, PTL DEF ElectionImplemented, Spec
<1> QED
  BY <1>1, <1>2, MInvHolds, PTL DEF MSpec, DeadlocksAreForGood

=============================================================================
