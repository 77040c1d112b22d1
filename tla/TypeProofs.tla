----------------------------- MODULE TypeProofs ------------------------------
(***************************************************************************)
(* Every step of KVElection preserves the type invariant, given that the   *)
(* revisions its goroutines have read are valid (ReadInv).  The proofs are *)
(* for any number of instances, slots, retries and faults, and for any     *)
(* bound on the number of writes; KVElectionProofs concludes from them.    *)
(***************************************************************************)
EXTENDS KVElection, TLAPS

(***************************************************************************)
(* The records that the steps write.                                       *)
(***************************************************************************)
LEMMA FreeRecords ==
  /\ FreeAcq \in AcqRec
  /\ FreeHb \in HbRec
  /\ FreeVl \in VlRec
  /\ WatchOff \in WatchRec
  /\ NotStopping \in StopRec
BY DEF FreeAcq, FreeHb, FreeVl, WatchOff, NotStopping, AcqRec, HbRec, VlRec,
       WatchRec, StopRec, AcqPcs, HbPcs, VlPcs, WatchPcs, StopPcs, NoToken

\* A group of constructed, not yet started elections is well typed.
LEMMA TypeInit == Init => TypeOK
<1> SUFFICES ASSUME Init PROVE TypeOK
  OBVIOUS
<1> USE DEF Init, ElectionInit
<1>1. log \in Seq(Payload)
  BY DEF KVInit
<1>2. alive \in BOOLEAN
  BY DEF KVInit
<1>3. /\ acq \in [Instances -> [AcqSlots -> AcqRec]]
      /\ hb \in [Instances -> [HbSlots -> HbRec]]
      /\ vl \in [Instances -> [VlSlots -> VlRec]]
  BY FreeRecords
<1>4. /\ watch \in [Instances -> WatchRec]
      /\ stop \in [Instances -> StopRec]
  BY FreeRecords
<1>5. /\ isLeader \in [Instances -> BOOLEAN]
      /\ watcherRunning \in [Instances -> BOOLEAN]
  OBVIOUS
<1>6. /\ leaderID \in [Instances -> Instances \cup {NoInstance}]
      /\ token \in [Instances -> Nat]
      /\ revision \in [Instances -> Nat]
      /\ state \in [Instances -> States]
      /\ healthFailureCount \in [Instances -> Nat]
      /\ ctx \in [Instances -> {"nil", "live", "done"}]
      /\ late \subseteq UpdateReq
  BY DEF NoToken, States
<1> QED
  BY <1>1, <1>2, <1>3, <1>4, <1>5, <1>6 DEF TypeOK, KVTypeOK

(***************************************************************************)
(* A write appends a payload.                                              *)
(***************************************************************************)
LEMMA WriteType ==
  ASSUME KVTypeOK, NEW i \in Instances, NEW t \in Nat, Write(i, t)
  PROVE  KVTypeOK'
BY DEF KVTypeOK, Write, Payload

\* The first stores of becomeLeader have the right types.
LEMMA BecomeLeaderType ==
  ASSUME TypeOK, NEW i \in Instances, BecomeLeader(i)
  PROVE  /\ isLeader' \in [Instances -> BOOLEAN]
         /\ leaderID' \in [Instances -> Instances \cup {NoInstance}]
<1>1. isLeader' \in [Instances -> BOOLEAN]
  BY DEF TypeOK, BecomeLeader
<1>2. leaderID' \in [Instances -> Instances \cup {NoInstance}]
  BY DEF TypeOK, BecomeLeader
<1> QED
  BY <1>1, <1>2

\* The other stores of becomeLeader, and the loops it starts.
LEMMA EnterTermType ==
  ASSUME TypeOK, NEW i \in Instances, NEW r \in Nat, EnterTerm(i, r)
  PROVE  /\ token' \in [Instances -> Nat]
         /\ revision' \in [Instances -> Nat]
         /\ state' \in [Instances -> States]
         /\ hb' \in [Instances -> [HbSlots -> HbRec]]
         /\ vl' \in [Instances -> [VlSlots -> VlRec]]
<1>1. [FreeHb EXCEPT !.pc = "idle"] \in HbRec
  BY DEF FreeHb, HbRec, HbPcs, NoToken
<1>2. [FreeVl EXCEPT !.pc = "idle"] \in VlRec
  BY DEF FreeVl, VlRec, VlPcs, NoToken
<1>3. hb' \in [Instances -> [HbSlots -> HbRec]]
  BY <1>1 DEF TypeOK, EnterTerm
<1>4. vl' \in [Instances -> [VlSlots -> VlRec]]
  <2>1. CASE i \in Validated
    <3>1. PICK v \in VlSlots : vl' = [vl EXCEPT ![i][v] = [FreeVl EXCEPT !.pc = "idle"]]
      BY <2>1 DEF EnterTerm
    <3> QED
      BY <1>2, <3>1 DEF TypeOK
  <2>2. CASE i \notin Validated
    BY <2>2 DEF TypeOK, EnterTerm
  <2> QED
    BY <2>1, <2>2
<1>5. /\ token' \in [Instances -> Nat]
      /\ revision' \in [Instances -> Nat]
  BY DEF TypeOK, EnterTerm
<1>6. state' \in [Instances -> States]
  BY DEF TypeOK, EnterTerm, States
<1> QED
  BY <1>3, <1>4, <1>5, <1>6

\* becomeFollower stores values of the right types.
LEMMA BecomeFollowerType ==
  ASSUME TypeOK, NEW i \in Instances, BecomeFollower(i)
  PROVE  /\ isLeader' \in [Instances -> BOOLEAN]
         /\ state' \in [Instances -> States]
         /\ watcherRunning' \in [Instances -> BOOLEAN]
         /\ watch' \in [Instances -> WatchRec]
<1>1. [WatchOff EXCEPT !.pc = "open"] \in WatchRec
  BY DEF WatchOff, WatchRec, WatchPcs
<1> DEFINE open == [WatchOff EXCEPT !.pc = "open"]
<1>2. \/ UNCHANGED watch
      \/ watch' = [watch EXCEPT ![i] = IF @.pc \in {"off", "exit"} THEN open ELSE @]
  BY DEF BecomeFollower
<1> HIDE DEF open
<1>3. watch' \in [Instances -> WatchRec]
  BY <1>1, <1>2 DEF TypeOK, open
<1>4. isLeader' \in [Instances -> BOOLEAN] /\ state' \in [Instances -> States]
  BY DEF TypeOK, BecomeFollower, States
<1>5. watcherRunning' \in [Instances -> BOOLEAN]
  BY DEF TypeOK, BecomeFollower
<1> QED
  BY <1>3, <1>4, <1>5

\* Starting an acquisition goroutine keeps acq well typed.
LEMMA SpawnType ==
  ASSUME TypeOK, NEW i \in Instances, NEW k \in {"start", "retry", "takeover"},
         NEW p \in AcqPcs, SpawnAcquire(i, k, p)
  PROVE  acq' \in [Instances -> [AcqSlots -> AcqRec]]
<1>1. [FreeAcq EXCEPT !.pc = p, !.kind = k] \in AcqRec
  BY DEF FreeAcq, AcqRec
<1> QED
  BY <1>1 DEF TypeOK, SpawnAcquire

\* A process that dies leaves well-typed state behind.
LEMMA DiesType ==
  ASSUME TypeOK, NEW i \in Instances, ProcessDies(i)
  PROVE  /\ isLeader' \in [Instances -> BOOLEAN]
         /\ watcherRunning' \in [Instances -> BOOLEAN]
         /\ leaderID' \in [Instances -> Instances \cup {NoInstance}]
         /\ token' \in [Instances -> Nat]
         /\ revision' \in [Instances -> Nat]
         /\ state' \in [Instances -> States]
         /\ healthFailureCount' \in [Instances -> Nat]
         /\ ctx' \in [Instances -> {"nil", "live", "done"}]
         /\ acq' \in [Instances -> [AcqSlots -> AcqRec]]
         /\ hb' \in [Instances -> [HbSlots -> HbRec]]
         /\ vl' \in [Instances -> [VlSlots -> VlRec]]
         /\ watch' \in [Instances -> WatchRec]
         /\ stop' \in [Instances -> StopRec]
         /\ late' \subseteq UpdateReq
         /\ KVTypeOK'
<1>1. /\ isLeader' \in [Instances -> BOOLEAN]
      /\ watcherRunning' \in [Instances -> BOOLEAN]
  BY DEF TypeOK, ProcessDies
<1>2. /\ leaderID' \in [Instances -> Instances \cup {NoInstance}]
      /\ token' \in [Instances -> Nat]
      /\ revision' \in [Instances -> Nat]
      /\ state' \in [Instances -> States]
      /\ healthFailureCount' \in [Instances -> Nat]
      /\ ctx' \in [Instances -> {"nil", "live", "done"}]
  BY DEF TypeOK, ProcessDies, NoToken, States
<1>3. acq' \in [Instances -> [AcqSlots -> AcqRec]]
  BY FreeRecords DEF TypeOK, ProcessDies
<1>4. hb' \in [Instances -> [HbSlots -> HbRec]]
  BY FreeRecords DEF TypeOK, ProcessDies
<1>5. vl' \in [Instances -> [VlSlots -> VlRec]]
  BY FreeRecords DEF TypeOK, ProcessDies
<1>6. watch' \in [Instances -> WatchRec]
  BY FreeRecords DEF TypeOK, ProcessDies
<1>7. stop' \in [Instances -> StopRec]
  BY DEF TypeOK, ProcessDies, StopRec, StopPcs
<1>8. late' \subseteq UpdateReq
  <2>1. ASSUME NEW h \in HbSlots
        PROVE  hb[i][h].tok \in Nat /\ hb[i][h].rev \in Nat
    BY DEF TypeOK, HbRec
  <2> QED
    BY <2>1 DEF TypeOK, ProcessDies, Request, UpdateReq
<1>9. KVTypeOK'
  BY DEF TypeOK, KVTypeOK, ProcessDies, kvVars
<1> QED
  BY <1>1, <1>2, <1>3, <1>4, <1>5, <1>6, <1>7, <1>8, <1>9

(***************************************************************************)
(* TypeOK is not inductive: a goroutine dereferences the revision it read, *)
(* which must be one of the log.  A revision read stays valid, as the log  *)
(* only grows; an existing key has an entry.                               *)
(***************************************************************************)
AcqReads == {"compare", "note", "update"}
WatchReads == {"follow", "store"}

ReadInv ==
  /\ alive => Rev > 0
  /\ \A i \in Instances : \A s \in AcqSlots :
       acq[i][s].pc \in AcqReads => acq[i][s].rev \in 1..Rev
  /\ \A i \in Instances :
       watch[i].pc \in WatchReads => watch[i].ev \in 1..Rev

\* An entry of the key's history is a payload of some instance.
LEMMA LogEntry ==
  ASSUME KVTypeOK, NEW r \in 1..Rev
  PROVE  log[r] \in Payload /\ log[r].id \in Instances /\ log[r].token \in Nat
<1>1. log[r] \in Payload
  BY DEF KVTypeOK, Rev
<1> QED
  BY <1>1 DEF Payload

\* checkKeyAndReelect adopts a known instance and a revision.
LEMMA NoteType ==
  ASSUME TypeOK, NEW i \in Instances, NEW r \in 1..Rev, NoteLeader(i, r)
  PROVE  /\ leaderID' \in [Instances -> Instances \cup {NoInstance}]
         /\ revision' \in [Instances -> Nat]
<1>1. log[r].id \in Instances /\ r \in Nat
  BY LogEntry DEF TypeOK
<1> QED
  BY <1>1 DEF TypeOK, NoteLeader

(***************************************************************************)
(* Every acquisition step preserves the types.                             *)
(***************************************************************************)
LEMMA StartType ==
  ASSUME TypeOK, NEW i \in Instances, Start(i)
  PROVE  TypeOK'
<1>1. acq' \in [Instances -> [AcqSlots -> AcqRec]]
  BY SpawnType DEF Start, AcqPcs
<1> QED
  BY <1>1 DEF TypeOK, KVTypeOK, Start, kvVars, States

\* Every acquisition step preserves the types.
LEMMA AcqType ==
  ASSUME TypeOK, ReadInv, NEW i \in Instances, NEW s \in AcqSlots,
         AcqProgress(i, s)
  PROVE  TypeOK'
<1> DEFINE AcqFcn == [Instances -> [AcqSlots -> AcqRec]]
<1>1. /\ acq[i][s] \in AcqRec
      /\ acq \in AcqFcn
      /\ KVTypeOK
  BY DEF TypeOK
<1>2. /\ Rev \in Nat
      /\ Rev + 1 \in Nat
  BY <1>1 DEF KVTypeOK, Rev
<1>3. /\ acq[i][s].rev \in Nat
      /\ acq[i][s].retry \in Nat
  BY <1>1 DEF AcqRec
<1>4. \A p \in AcqPcs : AcqGoto(i, s, p) => acq' \in AcqFcn
  BY <1>1 DEF AcqRec, AcqGoto
<1>5. \A p \in AcqPcs, r \in Nat : AcqGotoWith(i, s, p, r) => acq' \in AcqFcn
  BY <1>1 DEF AcqRec, AcqGotoWith
<1>6. AcqEnd(i, s) => acq' \in AcqFcn
  BY <1>1, FreeRecords DEF AcqEnd
<1> HIDE DEF AcqFcn
<1>7. CASE AcqWake(i, s)
  <2>1. acq' \in AcqFcn
    BY <1>4, <1>6, <1>7 DEF AcqWake, AcqPcs
  <2> QED
    BY <1>7, <2>1 DEF TypeOK, KVTypeOK, AcqFcn, AcqWake, kvVars, atomVars,
                      acqUnchanged
<1>8. CASE AcqCreateWins(i, s)
  <2>1. KVTypeOK'
    BY <1>1, <1>2, <1>8, WriteType DEF AcqCreateWins, CreateOk
  <2>2. acq' \in AcqFcn
    BY <1>2, <1>5, <1>8 DEF AcqCreateWins, AcqPcs
  <2> QED
    BY <1>8, <2>1, <2>2 DEF TypeOK, AcqFcn, AcqCreateWins, atomVars, acqUnchanged
<1>9. CASE AcqCreateFails(i, s)
  <2>1. KVTypeOK'
    <3>1. CASE UNCHANGED kvVars
      BY <1>1, <3>1 DEF KVTypeOK, kvVars
    <3>2. CASE CreateOk(i)
      BY <1>1, <1>2, <3>2, WriteType DEF CreateOk
    <3> QED
      BY <1>9, <3>1, <3>2 DEF AcqCreateFails
  <2>2. acq' \in AcqFcn
    BY <1>4, <1>9 DEF AcqCreateFails, AfterCreateError, AcqPcs
  <2> QED
    BY <1>9, <2>1, <2>2 DEF TypeOK, AcqFcn, AcqCreateFails, atomVars, acqUnchanged
<1>10. CASE AcqGet(i, s)
  <2>1. acq' \in AcqFcn
    BY <1>2, <1>4, <1>5, <1>10 DEF AcqGet, AcqPcs
  <2> QED
    BY <1>10, <2>1 DEF TypeOK, KVTypeOK, AcqFcn, AcqGet, kvVars, atomVars,
                       acqUnchanged
<1>11. CASE AcqCompare(i, s)
  <2>1. acq' \in AcqFcn
    BY <1>4, <1>11 DEF AcqCompare, AcqPcs
  <2>2. log[acq[i][s].rev].id \in Instances
    BY <1>1, <1>11, LogEntry DEF ReadInv, AcqReads, AcqCompare
  <2>3. /\ leaderID' \in [Instances -> Instances \cup {NoInstance}]
        /\ revision' \in [Instances -> Nat]
    BY <1>3, <1>11, <2>2 DEF TypeOK, AcqCompare
  <2> QED
    BY <1>11, <2>1, <2>3 DEF TypeOK, KVTypeOK, AcqFcn, AcqCompare, kvVars,
                             acqUnchanged
<1>12. CASE AcqUpdateWins(i, s)
  <2>1. KVTypeOK'
    BY <1>1, <1>2, <1>12, WriteType DEF AcqUpdateWins, UpdateOk
  <2>2. acq' \in AcqFcn
    BY <1>2, <1>5, <1>12 DEF AcqUpdateWins, AcqPcs
  <2> QED
    BY <1>12, <2>1, <2>2 DEF TypeOK, AcqFcn, AcqUpdateWins, atomVars, acqUnchanged
<1>13. CASE AcqUpdateFails(i, s)
  <2>1. KVTypeOK'
    <3>1. CASE UNCHANGED kvVars
      BY <1>1, <3>1 DEF KVTypeOK, kvVars
    <3>2. CASE UpdateOk(i, Rev + 1, acq[i][s].rev)
      BY <1>1, <1>2, <3>2, WriteType DEF UpdateOk
    <3> QED
      BY <1>13, <3>1, <3>2 DEF AcqUpdateFails
  <2>2. acq' \in AcqFcn
    BY <1>4, <1>13 DEF AcqUpdateFails, AcqPcs
  <2> QED
    BY <1>13, <2>1, <2>2 DEF TypeOK, AcqFcn, AcqUpdateFails, atomVars, acqUnchanged
<1>14. CASE AcqPromote(i, s)
  <2>1. acq' \in AcqFcn
    BY <1>4, <1>14 DEF AcqPromote, AcqPcs
  <2>2. BecomeLeader(i)
    BY <1>14 DEF AcqPromote
  <2> QED
    BY <1>14, <2>1, <2>2, BecomeLeaderType
       DEF TypeOK, KVTypeOK, AcqFcn, AcqPromote, kvVars, acqUnchanged
<1>19. CASE AcqEnter(i, s)
  <2>1. acq' \in AcqFcn
    BY <1>6, <1>19 DEF AcqEnter
  <2>2. EnterTerm(i, acq[i][s].rev)
    BY <1>19 DEF AcqEnter
  <2> QED
    BY <1>3, <1>19, <2>1, <2>2, EnterTermType
       DEF TypeOK, KVTypeOK, AcqFcn, AcqEnter, kvVars, acqUnchanged
<1>20. CASE AcqStoreRev(i, s)
  <2>1. acq' \in AcqFcn
    BY <1>4, <1>20 DEF AcqStoreRev, AcqPcs
  <2>2. revision' \in [Instances -> Nat]
    BY <1>3, <1>20 DEF TypeOK, AcqStoreRev
  <2> QED
    BY <1>20, <2>1, <2>2
       DEF TypeOK, KVTypeOK, AcqFcn, AcqStoreRev, kvVars, acqUnchanged
<1>21. CASE AcqStoreTok(i, s)
  <2>1. acq' \in AcqFcn
    BY <1>4, <1>21 DEF AcqStoreTok, AcqPcs
  <2>2. token' \in [Instances -> Nat]
    BY <1>3, <1>21 DEF TypeOK, AcqStoreTok
  <2> QED
    BY <1>21, <2>1, <2>2
       DEF TypeOK, KVTypeOK, AcqFcn, AcqStoreTok, kvVars, acqUnchanged
<1>15. CASE AcqGiveUp(i, s)
  <2>1. acq' \in AcqFcn
    BY <1>6, <1>15 DEF AcqGiveUp
  <2>2. BecomeFollower(i)
    BY <1>15 DEF AcqGiveUp
  <2> QED
    BY <1>15, <2>1, <2>2, BecomeFollowerType
       DEF TypeOK, KVTypeOK, AcqFcn, AcqGiveUp, kvVars, acqUnchanged
<1>16. CASE AcqBackoff(i, s)
  <2>1. [pc |-> "jitter", kind |-> acq[i][s].kind,
         retry |-> acq[i][s].retry + 1, rev |-> 0] \in AcqRec
    BY <1>1, <1>3 DEF AcqRec, AcqPcs
  <2>2. acq' \in AcqFcn
    BY <1>1, <1>6, <1>16, <2>1 DEF AcqBackoff, AcqFcn
  <2> QED
    BY <1>16, <2>2 DEF TypeOK, KVTypeOK, AcqFcn, AcqBackoff, kvVars, atomVars,
                       acqUnchanged
<1>17. CASE AcqCheck(i, s)
  <2>1. acq' \in AcqFcn
    BY <1>2, <1>4, <1>5, <1>6, <1>17
       DEF AcqCheck, AcqPcs, AcqGoto, AcqGotoWith, AcqEnd
  <2> QED
    BY <1>17, <2>1 DEF TypeOK, KVTypeOK, AcqFcn, AcqCheck, kvVars, watchUnchanged
<1>18. CASE AcqNote(i, s)
  <2>1. acq' \in AcqFcn
    BY <1>6, <1>18 DEF AcqNote, AcqEnd
  <2>2. acq[i][s].rev \in 1..Rev
    BY <1>18 DEF ReadInv, AcqReads, AcqNote
  <2> QED
    BY <1>18, <2>1, <2>2, NoteType
       DEF TypeOK, KVTypeOK, AcqFcn, AcqNote, kvVars, watchUnchanged
<1> QED
  BY <1>7, <1>8, <1>9, <1>10, <1>11, <1>12, <1>13, <1>14, <1>15, <1>16, <1>17,
     <1>18, <1>19, <1>20, <1>21 DEF AcqProgress

(***************************************************************************)
(* Every heartbeat step preserves the types.                               *)
(***************************************************************************)
LEMMA HbType ==
  ASSUME TypeOK, ReadInv, NEW i \in Instances, NEW h \in HbSlots,
         HbProgress(i, h) \/ HbUnhealthy(i, h) \/ HbLost(i, h)
  PROVE  TypeOK'
<1> DEFINE HbFcn == [Instances -> [HbSlots -> HbRec]]
<1>1. /\ hb[i][h] \in HbRec
      /\ hb \in HbFcn
      /\ KVTypeOK
      /\ late \subseteq UpdateReq
  BY DEF TypeOK
<1>2. Rev \in Nat /\ Rev + 1 \in Nat
  BY <1>1 DEF KVTypeOK, Rev
<1>3. /\ hb[i][h].rev \in Nat
      /\ hb[i][h].tok \in Nat
      /\ hb[i][h].fails \in Nat
  BY <1>1 DEF HbRec
<1>4. \A p \in HbPcs : HbGoto(i, h, p) => hb' \in HbFcn
  <2> SUFFICES ASSUME NEW p \in HbPcs, HbGoto(i, h, p) PROVE hb' \in HbFcn
    OBVIOUS
  <2>1. [hb[i][h] EXCEPT !.pc = p] \in HbRec
    BY <1>1 DEF HbRec
  <2>2. hb' = [hb EXCEPT ![i][h] = [hb[i][h] EXCEPT !.pc = p]]
    BY <1>1 DEF HbGoto
  <2> QED
    BY <1>1, <2>1, <2>2
<1>5. HbEnd(i, h) => hb' \in HbFcn
  BY <1>1, FreeRecords DEF HbEnd
<1>6. CasErrorClass \in HbPcs
  BY ConfigAssumption DEF HbPcs
<1>7. Abandon(i, h) => late' \subseteq UpdateReq
  BY <1>1, <1>3 DEF Abandon, Request, UpdateReq
<1>8. /\ UNCHANGED kvVars => KVTypeOK'
      /\ UpdateOk(i, hb[i][h].tok, hb[i][h].rev) => KVTypeOK'
  BY <1>1, <1>3, WriteType DEF KVTypeOK, kvVars, UpdateOk
<1> HIDE DEF HbFcn
<1>9. CASE HbExit(i, h)
  BY <1>5, <1>7, <1>8, <1>9
     DEF TypeOK, HbFcn, HbExit, atomVars, hbUnchanged
<1>10. CASE HbTick(i, h)
  <2>1. hb' \in HbFcn
    BY <1>4, <1>5, <1>10 DEF HbTick, HbPcs
  <2> QED
    BY <1>8, <1>10, <2>1 DEF TypeOK, HbFcn, HbTick, atomVars, hbUnchanged
<1>11. CASE HbLoad(i, h)
  <2>1. hb' \in HbFcn
    BY <1>1, <1>11 DEF TypeOK, HbFcn, HbLoad, HbRec, HbPcs
  <2>2. healthFailureCount' \in [Instances -> Nat]
    BY <1>11 DEF TypeOK, HbLoad
  <2> QED
    BY <1>8, <1>11, <2>1, <2>2 DEF TypeOK, HbFcn, HbLoad, atomVars, hbUnchanged
<1>18. CASE HbSend(i, h)
  <2>1. hb' \in HbFcn
    BY <1>1, <1>18 DEF TypeOK, HbFcn, HbSend, HbRec, HbPcs
  <2> QED
    BY <1>8, <1>18, <2>1 DEF TypeOK, HbFcn, HbSend, atomVars, hbUnchanged
<1>12. CASE HbApplied(i, h)
  <2>1. hb' \in HbFcn
    BY <1>1, <1>2, <1>12 DEF HbFcn, HbApplied, HbRec, HbPcs
  <2> QED
    BY <1>8, <1>12, <2>1 DEF TypeOK, HbFcn, HbApplied, atomVars, hbUnchanged
<1>13. CASE HbRejected(i, h)
  <2>1. hb' \in HbFcn
    BY <1>4, <1>6, <1>13 DEF HbRejected
  <2> QED
    BY <1>8, <1>13, <2>1 DEF TypeOK, HbFcn, HbRejected, atomVars, hbUnchanged
<1>14. CASE HbOk(i, h)
  <2>1. [FreeHb EXCEPT !.pc = "idle"] \in HbRec
    BY DEF FreeHb, HbRec, HbPcs, NoToken
  <2>2. hb' \in HbFcn
    BY <1>1, <1>14, <2>1 DEF HbFcn, HbOk
  <2>3. revision' \in [Instances -> Nat]
    BY <1>3, <1>14 DEF TypeOK, HbOk
  <2> QED
    BY <1>8, <1>14, <2>2, <2>3 DEF TypeOK, HbFcn, HbOk, hbUnchanged
<1>15. CASE HbFailure(i, h)
  <2>1. [pc |-> "idle", rev |-> 0, tok |-> NoToken,
         fails |-> hb[i][h].fails + 1] \in HbRec
    BY <1>3 DEF HbRec, HbPcs, NoToken
  <2>2. CASE HbDemotes(hb[i][h])
    <3>1. BecomeFollower(i) /\ HbEnd(i, h)
      BY <1>15, <2>2 DEF HbFailure, HandleHeartbeatFailure
    <3> QED
      BY <1>5, <1>8, <1>15, <3>1, BecomeFollowerType
         DEF TypeOK, HbFcn, HbFailure, hbUnchanged
  <2>3. CASE ~HbDemotes(hb[i][h])
    <3>1. hb' \in HbFcn
      BY <1>1, <1>15, <2>1, <2>3 DEF HbFcn, HbFailure
    <3> QED
      BY <1>8, <1>15, <2>3, <3>1 DEF TypeOK, HbFcn, HbFailure, roleVars, hbUnchanged
  <2> QED
    BY <2>2, <2>3
<1>16. CASE HbUnhealthy(i, h)
  <2> DEFINE n == IF healthFailureCount[i] < MaxHealthFailures
                    THEN healthFailureCount[i] + 1
                    ELSE healthFailureCount[i]
  <2>1. healthFailureCount' \in [Instances -> Nat]
    BY <1>16 DEF TypeOK, HbUnhealthy
  <2>2. CASE n >= MaxHealthFailures
    <3>1. BecomeFollower(i) /\ HbEnd(i, h)
      BY <1>16, <2>2 DEF HbUnhealthy, HandleHealthCheckFailure
    <3> QED
      BY <1>5, <1>8, <1>16, <2>1, <3>1, BecomeFollowerType
         DEF TypeOK, HbFcn, HbUnhealthy, hbUnchanged
  <2>3. CASE ~(n >= MaxHealthFailures)
    <3>1. UNCHANGED roleVars /\ HbGoto(i, h, "idle")
      BY <1>16, <2>3 DEF HbUnhealthy
    <3>2. hb' \in HbFcn
      BY <1>4, <3>1 DEF HbPcs
    <3> QED
      BY <1>8, <1>16, <2>1, <3>1, <3>2
         DEF TypeOK, HbFcn, HbUnhealthy, roleVars, hbUnchanged
  <2> QED
    BY <2>2, <2>3
<1>17. CASE HbLost(i, h)
  <2>1. hb' \in HbFcn
    BY <1>4, <1>17 DEF HbLost, HbPcs
  <2>2. KVTypeOK' /\ late' \subseteq UpdateReq
    BY <1>1, <1>7, <1>8, <1>17 DEF HbLost
  <2> QED
    BY <1>17, <2>1, <2>2 DEF TypeOK, HbFcn, HbLost, atomVars, hbUnchanged
<1> QED
  BY <1>9, <1>10, <1>11, <1>12, <1>13, <1>14, <1>15, <1>16, <1>17, <1>18
     DEF HbProgress

\* A late Update preserves the types.
LEMMA LateType ==
  ASSUME TypeOK, NEW u \in late, LateUpdate(u)
  PROVE  TypeOK'
<1>1. u.id \in Instances /\ u.tok \in Nat
  BY DEF TypeOK, UpdateReq
<1>2. KVTypeOK'
  <2>1. CASE UNCHANGED kvVars
    BY <2>1 DEF TypeOK, KVTypeOK, kvVars
  <2>2. CASE UpdateOk(u.id, u.tok, u.rev)
    BY <1>1, <2>2, WriteType DEF TypeOK, UpdateOk
  <2> QED
    BY <2>1, <2>2 DEF LateUpdate
<1> QED
  BY <1>2 DEF TypeOK, LateUpdate, atomVars, hbUnchanged

(***************************************************************************)
(* Every validation step preserves the types.                              *)
(***************************************************************************)
LEMMA VlType ==
  ASSUME TypeOK, NEW i \in Instances, VlStep(i)
  PROVE  TypeOK'
<1> DEFINE VlFcn == [Instances -> [VlSlots -> VlRec]]
<1>1. vl \in VlFcn /\ token[i] \in Nat
  BY DEF TypeOK
<1>2. [FreeVl EXCEPT !.pc = "idle"] \in VlRec
  BY DEF FreeVl, VlRec, VlPcs, NoToken
<1>3. \A v \in VlSlots : VlEnd(i, v) => vl' \in VlFcn
  BY <1>1, FreeRecords DEF VlEnd
<1> HIDE DEF VlFcn
<1>4. ASSUME vl' \in VlFcn, UNCHANGED <<roleVars, vlUnchanged>>
      PROVE  TypeOK'
  BY <1>4 DEF TypeOK, KVTypeOK, VlFcn, roleVars, vlUnchanged, kvVars
<1>5. CASE ValidateTokenOrDemote(i)
  <2> DEFINE call == IF isLeader[i]
                       THEN [pc |-> "get", kind |-> "api", tok |-> token[i],
                             fails |-> 0]
                       ELSE [pc |-> "invalid", kind |-> "api", tok |-> NoToken,
                             fails |-> 0]
  <2>1. PICK v \in VlSlots : vl' = [vl EXCEPT ![i][v] = call]
    BY <1>5 DEF ValidateTokenOrDemote
  <2>2. call \in VlRec
    BY <1>1 DEF VlRec, VlPcs, NoToken
  <2> HIDE DEF call
  <2>3. vl' \in VlFcn
    BY <1>1, <2>1, <2>2 DEF VlFcn
  <2> QED
    BY <1>4, <1>5, <2>3 DEF ValidateTokenOrDemote
<1>6. ASSUME NEW v \in VlSlots, VlProgress(i, v)
      PROVE  TypeOK'
  <2>1. vl[i][v] \in VlRec /\ vl[i][v].fails \in Nat
    BY <1>1 DEF VlFcn, VlRec
  <2>2. CASE VlExit(i, v)
    BY <1>3, <1>4, <2>2 DEF VlExit
  <2>3. CASE VlTick(i, v)
    <3>1. CASE isLeader[i]
      <4>1. [vl[i][v] EXCEPT !.pc = "get", !.tok = token[i]] \in VlRec
        BY <1>1, <2>1 DEF VlRec, VlPcs
      <4>2. vl' = [vl EXCEPT ![i][v] = [vl[i][v] EXCEPT !.pc = "get", !.tok = token[i]]]
        BY <1>1, <2>3, <3>1 DEF VlTick, VlFcn
      <4>3. vl' \in VlFcn
        BY <1>1, <4>1, <4>2 DEF VlFcn
      <4> QED
        BY <1>4, <2>3, <4>3 DEF VlTick
    <3>2. CASE ~isLeader[i]
      BY <1>3, <1>4, <2>3, <3>2 DEF VlTick
    <3> QED
      BY <3>1, <3>2
  <2>4. CASE VlValid(i, v)
    <3>1. vl' \in VlFcn
      BY <1>1, <1>2, <2>4, FreeRecords DEF VlValid, VlFcn
    <3> QED
      BY <1>4, <2>4, <3>1 DEF VlValid
  <2>5. CASE VlInvalid(i, v)
    <3>1. [vl[i][v] EXCEPT !.pc = "invalid"] \in VlRec
      BY <2>1 DEF VlRec, VlPcs
    <3>2. [pc |-> "idle", kind |-> "loop", tok |-> NoToken,
           fails |-> vl[i][v].fails + 1] \in VlRec
      BY <2>1 DEF VlRec, VlPcs, NoToken
    <3>3. vl' \in VlFcn
      BY <1>1, <2>5, <3>1, <3>2 DEF VlInvalid, VlFcn
    <3> QED
      BY <1>4, <2>5, <3>3 DEF VlInvalid
  <2>6. CASE VlDemote(i, v)
    <3>1. vl' \in VlFcn
      BY <1>3, <2>6 DEF VlDemote
    <3>2. CASE UNCHANGED roleVars
      BY <1>4, <2>6, <3>1, <3>2 DEF VlDemote
    <3>3. CASE BecomeFollower(i)
      BY <2>6, <3>1, <3>3, BecomeFollowerType
         DEF TypeOK, KVTypeOK, VlFcn, VlDemote, vlUnchanged, kvVars
    <3> QED
      BY <2>6, <3>2, <3>3 DEF VlDemote, HandleValidationFailure
  <2> QED
    BY <1>6, <2>2, <2>3, <2>4, <2>5, <2>6 DEF VlProgress
<1> QED
  BY <1>5, <1>6 DEF VlStep

(***************************************************************************)
(* Every step of a watch loop preserves the types.                         *)
(***************************************************************************)
LEMMA WatchType ==
  ASSUME TypeOK, ReadInv, NEW i \in Instances, WatchStep(i)
  PROVE  TypeOK'
<1> DEFINE WatchFcn == [Instances -> WatchRec]
           AcqFcn == [Instances -> [AcqSlots -> AcqRec]]
<1>1. /\ watch \in WatchFcn
      /\ watch[i] \in WatchRec
      /\ watch[i].nil \in BOOLEAN
      /\ watch[i].ev \in Nat
      /\ acq \in AcqFcn
      /\ KVTypeOK
  BY DEF TypeOK, WatchRec
<1>2. Rev \in Nat
  BY <1>1 DEF KVTypeOK, Rev
<1>3. ASSUME NEW p \in WatchPcs, NEW e \in Nat, WatchGoto(i, p, e)
      PROVE  watch' \in WatchFcn
  BY <1>1, <1>3 DEF WatchGoto, WatchRec
<1>4. \A p \in {"jitter", "check", "create"}, k \in {"retry", "takeover"} :
        SpawnAcquire(i, k, p) => acq' \in AcqFcn
  BY SpawnType DEF AcqPcs
<1> HIDE DEF WatchFcn, AcqFcn
<1>5. ASSUME watch' \in WatchFcn, acq' \in AcqFcn, UNCHANGED watchUnchanged,
             UNCHANGED <<isLeader, leaderID, revision, state, watcherRunning>>
      PROVE  TypeOK'
  BY <1>5 DEF TypeOK, KVTypeOK, WatchFcn, AcqFcn, watchUnchanged, kvVars
<1>6. CASE WatchOpen(i)
  <2>1. (IF alive THEN Rev - 1 ELSE Rev) \in Nat
    BY <1>2 DEF ReadInv
  <2>2. [pc |-> "idle", ev |-> 0, nil |-> TRUE,
         seen |-> IF alive THEN Rev - 1 ELSE Rev] \in WatchRec
    BY <2>1 DEF WatchRec, WatchPcs
  <2>3. CASE WatchGoto(i, "exit", 0)
    BY <1>1, <1>3, <1>5, <1>6, <2>3 DEF WatchOpen, WatchPcs
  <2>4. CASE ~WatchGoto(i, "exit", 0)
    <3>1. watch' \in WatchFcn
      BY <1>1, <1>6, <2>2, <2>4 DEF WatchOpen, WatchFcn
    <3> QED
      BY <1>1, <1>5, <1>6, <3>1 DEF WatchOpen
  <2> QED
    BY <2>3, <2>4
<1>7. ASSUME NEW r \in 1..Rev, WatchEvent(i, r)
      PROVE  TypeOK'
  <2> DEFINE own == isLeader[i] /\ log[r].id = i
             rec == [pc |-> IF own THEN "idle"
                              ELSE IF isLeader[i] THEN "demote" ELSE "follow",
                     ev |-> IF own THEN 0 ELSE r,
                     seen |-> r,
                     nil |-> watch[i].nil]
  <2>1. rec \in WatchRec
    BY <1>1 DEF WatchRec, WatchPcs
  <2>2. watch' = [watch EXCEPT ![i] = rec]
    BY <1>7 DEF WatchEvent
  <2>3. watch' \in WatchFcn
    BY <1>1, <2>1, <2>2 DEF WatchFcn
  <2> QED
    BY <1>1, <1>5, <1>7, <2>3 DEF WatchEvent
<1>8. CASE WatchFollow(i)
  <2>1. watch' \in WatchFcn
    BY <1>3, <1>8 DEF WatchFollow, WatchPcs
  <2>2. acq' \in AcqFcn
    BY <1>1, <1>4, <1>8 DEF WatchFollow
  <2>3. log[watch[i].ev].id \in Instances
    BY <1>1, <1>8, LogEntry DEF ReadInv, WatchReads, WatchFollow
  <2>4. /\ leaderID' \in [Instances -> Instances \cup {NoInstance}]
        /\ revision' \in [Instances -> Nat]
    BY <1>1, <1>8, <2>3 DEF TypeOK, WatchFollow
  <2> QED
    BY <1>8, <2>1, <2>2, <2>4
       DEF TypeOK, KVTypeOK, WatchFollow, WatchFcn, AcqFcn, watchUnchanged, kvVars
<1>9. CASE WatchDemote(i)
  <2>1. watch' \in WatchFcn
    BY <1>3, <1>9 DEF WatchDemote, WatchPcs
  <2>2. /\ isLeader' \in [Instances -> BOOLEAN]
        /\ watcherRunning' \in [Instances -> BOOLEAN]
        /\ state' \in [Instances -> States]
    BY <1>9 DEF TypeOK, WatchDemote, States
  <2> QED
    BY <1>9, <2>1, <2>2
       DEF TypeOK, KVTypeOK, WatchDemote, WatchFcn, watchUnchanged, kvVars
<1>10. CASE WatchNil(i)
  <2>1. watch' \in WatchFcn
    BY <1>1, <1>10 DEF WatchNil, WatchFcn, WatchRec
  <2>2. acq' \in AcqFcn
    BY <1>4, <1>10 DEF WatchNil
  <2> QED
    BY <1>5, <1>10, <2>1, <2>2 DEF WatchNil
<1>11. CASE WatchTick(i)
  BY <1>1, <1>3, <1>5, <1>11 DEF WatchTick, WatchPcs
<1>12. CASE WatchGet(i)
  <2>1. watch' \in WatchFcn
    BY <1>2, <1>3, <1>12 DEF WatchGet, WatchPcs
  <2>2. acq' \in AcqFcn
    BY <1>1, <1>4, <1>12 DEF WatchGet
  <2> QED
    BY <1>5, <1>12, <2>1, <2>2 DEF WatchGet
<1>13. CASE WatchStore(i)
  <2>1. watch' \in WatchFcn
    BY <1>3, <1>13 DEF WatchStore, WatchPcs
  <2>2. watch[i].ev \in 1..Rev
    BY <1>13 DEF ReadInv, WatchReads, WatchStore
  <2> QED
    BY <1>13, <2>1, <2>2, NoteType
       DEF TypeOK, KVTypeOK, WatchStore, WatchFcn, watchUnchanged, kvVars
<1>14. CASE WatchClosed(i)
  <2>1. watch' \in WatchFcn
    BY <1>3, <1>14 DEF WatchClosed, WatchPcs
  <2>2. acq' \in AcqFcn
    BY <1>1, <1>4, <1>14 DEF WatchClosed
  <2> QED
    BY <1>5, <1>14, <2>1, <2>2 DEF WatchClosed
<1>15. CASE WatchCancelled(i)
  BY <1>1, <1>3, <1>5, <1>15 DEF WatchCancelled, WatchPcs
<1>16. CASE WatchExit(i)
  <2>1. watch' \in WatchFcn
    BY <1>1, <1>16, FreeRecords DEF WatchExit, WatchFcn
  <2>2. watcherRunning' \in [Instances -> BOOLEAN]
    BY <1>16 DEF TypeOK, WatchExit
  <2> QED
    BY <1>16, <2>1, <2>2
       DEF TypeOK, KVTypeOK, WatchExit, WatchFcn, watchUnchanged, kvVars
<1> QED
  BY <1>6, <1>7, <1>8, <1>9, <1>10, <1>11, <1>12, <1>13, <1>14, <1>15, <1>16
     DEF WatchStep, WatchProgress

(***************************************************************************)
(* Every step of Stop, StopWithContext and of a dying process, and the     *)
(* expiry of the key, preserves the types.                                 *)
(***************************************************************************)
LEMMA StopType ==
  ASSUME TypeOK, NEW i \in Instances, StopStep(i)
  PROVE  TypeOK'
<1>1. /\ KVTypeOK
      /\ stop[i].wasLeader \in BOOLEAN
      /\ stop \in [Instances -> StopRec]
      /\ isLeader[i] \in BOOLEAN
  BY DEF TypeOK, StopRec
<1>2. ASSUME NEW p \in StopPcs, StopCritical(i, p)
      PROVE  TypeOK'
  <2>1. stop' \in [Instances -> StopRec]
    BY <1>1, <1>2 DEF StopCritical, StopRec
  <2>2. /\ ctx' \in [Instances -> {"nil", "live", "done"}]
        /\ state' \in [Instances -> States]
    BY <1>2 DEF TypeOK, StopCritical, States
  <2>3. /\ isLeader' \in [Instances -> BOOLEAN]
        /\ watcherRunning' \in [Instances -> BOOLEAN]
    BY <1>2 DEF TypeOK, StopCritical
  <2> QED
    BY <1>2, <2>1, <2>2, <2>3 DEF TypeOK, KVTypeOK, StopCritical, kvVars
<1>3. \A p \in StopPcs :
        stop' = [stop EXCEPT ![i].pc = p] => stop' \in [Instances -> StopRec]
  BY <1>1 DEF StopRec
<1>4. CASE Stop(i)
  BY <1>2, <1>4 DEF Stop, StopPcs
<1>5. CASE StopWithContext(i)
  BY <1>2, <1>5 DEF StopWithContext, StopPcs
<1>6. CASE StopReturn(i)
  <2>1. stop' \in [Instances -> StopRec]
    BY <1>3, <1>6 DEF StopReturn, StopPcs
  <2> QED
    BY <1>6, <2>1 DEF TypeOK, KVTypeOK, StopReturn, StopUnchanged, atomVars, kvVars
<1>7. CASE StopDrained(i)
  <2>1. stop' \in [Instances -> StopRec]
    BY <1>3, <1>7 DEF StopDrained, StopPcs
  <2> QED
    BY <1>7, <2>1 DEF TypeOK, KVTypeOK, StopDrained, StopUnchanged, atomVars, kvVars
<1>8. CASE StopTimeout(i)
  <2>1. stop' \in [Instances -> StopRec]
    BY <1>3, <1>8 DEF StopTimeout, StopPcs
  <2> QED
    BY <1>8, <2>1 DEF TypeOK, KVTypeOK, StopTimeout, StopUnchanged, atomVars, kvVars
<1>9. CASE StopDelete(i)
  <2>1. stop' \in [Instances -> StopRec]
    BY <1>3, <1>9 DEF StopDelete, StopPcs
  <2>2. ASSUME NEW j \in Instances
        PROVE  [watch[j] EXCEPT !.nil = @ \/ Watching(j)] \in WatchRec
    BY DEF TypeOK, WatchRec, Watching
  <2>3. watch' \in [Instances -> WatchRec]
    BY <1>9, <2>2 DEF TypeOK, StopDelete
  <2>4. KVTypeOK'
    BY <1>1, <1>9 DEF KVTypeOK, StopDelete, DeleteKey, kvVars
  <2> QED
    BY <1>9, <2>1, <2>3, <2>4 DEF TypeOK, StopDelete, StopUnchanged, atomVars
<1>10. CASE StopClear(i)
  <2>1. stop' \in [Instances -> StopRec]
    BY <1>3, <1>10 DEF StopClear, StopPcs
  <2>2. ctx' \in [Instances -> {"nil", "live", "done"}]
    BY <1>10 DEF TypeOK, StopClear
  <2> QED
    BY <1>10, <2>1, <2>2
       DEF TypeOK, KVTypeOK, StopClear, StopUnchanged, atomVars, kvVars
<1>11. CASE Crash(i) \/ Panic(i)
  BY <1>11, DiesType DEF TypeOK, Crash, Panic
<1>12. CASE CancelContext(i)
  <2>1. ctx' \in [Instances -> {"nil", "live", "done"}]
    BY <1>12 DEF TypeOK, CancelContext
  <2> QED
    BY <1>12, <2>1 DEF TypeOK, KVTypeOK, CancelContext, atomVars, kvVars
<1> QED
  BY <1>4, <1>5, <1>6, <1>7, <1>8, <1>9, <1>10, <1>11, <1>12
     DEF StopStep, StopProgress

\* The demotion at the end of the grace period preserves the types.
LEMMA GraceType ==
  ASSUME TypeOK, NEW i \in Instances, GracePeriodDemotes(i)
  PROVE  TypeOK'
BY BecomeFollowerType DEF TypeOK, KVTypeOK, GracePeriodDemotes, kvVars

\* The expiry of the key preserves the types.
LEMMA ExpireType ==
  ASSUME TypeOK, Expire
  PROVE  TypeOK'
BY DEF TypeOK, KVTypeOK, Expire, ExpireKey, atomVars

\* Every step of the group preserves the types.
LEMMA NextType ==
  ASSUME TypeOK, ReadInv, [Next]_vars
  PROVE  TypeOK'
<1>1. CASE UNCHANGED vars
  BY <1>1 DEF TypeOK, KVTypeOK, vars
<1>2. ASSUME NEW i \in Instances, AcqStep(i)
      PROVE  TypeOK'
  BY <1>2, AcqType DEF AcqStep
<1>3. ASSUME NEW i \in Instances, HbStep(i)
      PROVE  TypeOK'
  BY <1>3, HbType DEF HbStep
<1> QED
  BY <1>1, <1>2, <1>3, StartType, VlType, WatchType, StopType, LateType,
     ExpireType, GraceType DEF Next, BoundReached

=============================================================================
