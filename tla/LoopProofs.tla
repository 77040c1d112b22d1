----------------------------- MODULE LoopProofs ------------------------------
(***************************************************************************)
(* The role of an instance and the goroutines that watch over it: a leader *)
(* has a heartbeat loop and a validation loop, a follower a watch loop,    *)
(* and the two fields that name the role agree.  The proofs are for any    *)
(* number of instances, slots, retries and faults, and for any bound on    *)
(* the number of writes.                                                   *)
(*                                                                         *)
(* Every step is, for every instance, one of the few moves below, which    *)
(* are what becomeLeader, becomeFollower, Start, Stop, the death of a      *)
(* process and the exits of the loops do to the role and to the loops.     *)
(***************************************************************************)
EXTENDS KVElectionProofs

HbRuns(i) == \E h \in HbSlots : hb[i][h].pc # "free"
VlRuns(i) == \E v \in VlSlots : vl[i][v].pc # "free" /\ vl[i][v].kind = "loop"

(***************************************************************************)
(* LeaderIsHeartbeating, LeaderIsValidated, FollowerIsWatching and         *)
(* RoleAgrees are not inductive: Start makes e.ctx live without a look at  *)
(* the role, so that an object that was not started must have no role and  *)
(* no watch loop; becomeLeader stores the state in its second half, so     *)
(* that only one may be under way and nobody may take the leader's role    *)
(* away meanwhile; and becomeFollower trusts watcherRunning, so that the   *)
(* flag must imply a loop for as long as e.ctx is live.                    *)
(***************************************************************************)
OneEnters(i) ==
  \A s, q \in AcqSlots :
    acq[i][s].pc = "enter" /\ acq[i][q].pc = "enter" => s = q

LoopInv(i) ==
  /\ state[i] = "INIT" => ctx[i] = "nil"
  /\ state[i] = "INIT" => ~watcherRunning[i] /\ watch[i].pc = "off"
  /\ OneEnters(i)
  /\ Entering(i) => isLeader[i] /\ ctx[i] # "nil"
  /\ Entering(i) \/ (isLeader[i] <=> state[i] = "LEADER")
  /\ isLeader[i] /\ ctx[i] = "live" => Entering(i) \/ HbRuns(i)
  /\ i \in Validated /\ isLeader[i] /\ ctx[i] = "live" =>
       Entering(i) \/ VlRuns(i)
  /\ ctx[i] = "live" /\ ~Fault("failWatch", i) =>
       /\ watch[i].pc # "exit"
       /\ watcherRunning[i] => watch[i].pc # "off"
       /\ state[i] = "FOLLOWER" => watcherRunning[i]

LInv == \A i \in Instances : LoopInv(i)

-----------------------------------------------------------------------------
(***************************************************************************)
(* The moves.                                                              *)
(***************************************************************************)
HbStays(i) == HbRuns(i) => HbRuns(i)' \/ ~isLeader[i] \/ ctx[i] # "live"
VlStays(i) == VlRuns(i) => VlRuns(i)' \/ ~isLeader[i] \/ ctx[i] # "live"
WatchStays(i) ==
  /\ watch'[i].pc = "off" <=> watch[i].pc = "off"
  /\ watch'[i].pc = "exit" =>
       watch[i].pc = "exit" \/ ctx[i] # "live" \/ Fault("failWatch", i)

RoleStays(i) ==
  /\ isLeader'[i] = isLeader[i]
  /\ state'[i] = state[i]
  /\ ctx'[i] = ctx[i]
  /\ watcherRunning'[i] = watcherRunning[i]

EnterStays(i) ==
  \A s \in AcqSlots : acq'[i][s].pc = "enter" <=> acq[i][s].pc = "enter"

Goes(i) ==
  RoleStays(i) /\ EnterStays(i) /\ HbStays(i) /\ VlStays(i) /\ WatchStays(i)

Starts(i) ==
  /\ state[i] = "INIT"
  /\ state'[i] = "CANDIDATE"
  /\ isLeader'[i] = isLeader[i]
  /\ watcherRunning'[i] = watcherRunning[i]
  /\ watch'[i].pc = watch[i].pc
  /\ EnterStays(i)

Promoted(i) ==
  /\ ~Entering(i)
  /\ \E s \in AcqSlots :
       \A q \in AcqSlots : acq'[i][q].pc = "enter" <=> q = s
  /\ isLeader'[i]
  /\ ctx[i] # "nil"
  /\ ctx'[i] = ctx[i]
  /\ state'[i] = state[i]
  /\ watcherRunning'[i] = watcherRunning[i]
  /\ watch'[i].pc = watch[i].pc

TakesOffice(i) ==
  /\ \E s \in AcqSlots :
       /\ acq[i][s].pc = "enter"
       /\ acq'[i][s].pc # "enter"
       /\ \A q \in AcqSlots : q # s => acq'[i][q].pc = acq[i][q].pc
  /\ state'[i] = "LEADER"
  /\ isLeader'[i] = isLeader[i]
  /\ ctx'[i] = ctx[i]
  /\ HbRuns(i)'
  /\ i \in Validated => VlRuns(i)'
  /\ watcherRunning'[i] = watcherRunning[i]
  /\ watch'[i].pc = watch[i].pc

Demoted(i) ==
  /\ ~Entering(i)
  /\ EnterStays(i)
  /\ ~isLeader'[i]
  /\ state'[i] = "FOLLOWER"
  /\ ctx'[i] = ctx[i]
  /\ watcherRunning'[i]
  /\ watch'[i].pc \in {"off", "exit"} =>
       watcherRunning[i] /\ watch'[i].pc = watch[i].pc

WatchEnds(i) ==
  /\ watch[i].pc = "exit"
  /\ watch'[i].pc = "off"
  /\ ~watcherRunning'[i]
  /\ isLeader'[i] = isLeader[i]
  /\ state'[i] = state[i]
  /\ ctx'[i] = ctx[i]
  /\ EnterStays(i)
  /\ HbRuns(i) => HbRuns(i)'
  /\ VlRuns(i) => VlRuns(i)'

Halts(i) ==
  /\ ctx'[i] # "live"
  /\ EnterStays(i)
  /\ \/ ~Entering(i) /\ ~isLeader'[i] /\ state'[i] = "STOPPED"
     \/ /\ \/ ~Entering(i) /\ ctx'[i] = "nil"
           \/ ctx[i] # "nil" /\ ctx'[i] # "nil"
        /\ state'[i] = state[i]
        /\ isLeader'[i] = isLeader[i]
        /\ watcherRunning'[i] = watcherRunning[i]
        /\ watch'[i].pc = watch[i].pc

Dies(i) ==
  /\ ctx'[i] = "nil"
  /\ state'[i] = "INIT"
  /\ ~isLeader'[i] /\ ~watcherRunning'[i] /\ watch'[i].pc = "off"
  /\ \A s \in AcqSlots : acq'[i][s].pc # "enter"

Move(i) ==
  \/ Goes(i) \/ Starts(i) \/ Promoted(i) \/ TakesOffice(i) \/ Demoted(i)
  \/ WatchEnds(i) \/ Halts(i) \/ Dies(i)

LoopStep == \A i \in Instances : Move(i)

-----------------------------------------------------------------------------
\* A group that was not started has no role and no loop.
LEMMA LoopInit == Init => LInv
<1> SUFFICES ASSUME Init, NEW i \in Instances PROVE LoopInv(i)
  BY DEF LInv
<1>1. ~isLeader[i] /\ ~watcherRunning[i]
  BY DEF Init, ElectionInit
<1>2. watch[i].pc = "off" /\ ctx[i] = "nil" /\ state[i] = "INIT"
  BY DEF Init, ElectionInit, WatchOff
<1>3. ~Entering(i) /\ OneEnters(i)
  BY DEF Init, ElectionInit, FreeAcq, Entering, OneEnters
<1> QED
  BY <1>1, <1>2, <1>3 DEF LoopInv

\* Moves that leave the slot of becomeLeader alone.
LEMMA EnterKeeps ==
  ASSUME NEW i \in Instances, EnterStays(i)
  PROVE  (Entering(i)' <=> Entering(i)) /\ (OneEnters(i) => OneEnters(i)')
BY DEF EnterStays, Entering, OneEnters

\* Every move keeps the loops that the role needs.
LEMMA MovePreserves ==
  ASSUME NEW i \in Instances, LoopInv(i), Move(i)
  PROVE  LoopInv(i)'
<1>1. CASE Goes(i)
  BY <1>1, EnterKeeps
     DEF LoopInv, Goes, RoleStays, HbStays, VlStays, WatchStays, Fault
<1>2. CASE Starts(i)
  BY <1>2, EnterKeeps DEF LoopInv, Starts
<1>3. CASE Promoted(i)
  <2>1. Entering(i)' /\ OneEnters(i)'
    BY <1>3 DEF Promoted, Entering, OneEnters
  <2> QED
    BY <1>3, <2>1 DEF LoopInv, Promoted, Fault
<1>4. CASE TakesOffice(i)
  <2>1. Entering(i) /\ ~Entering(i)' /\ OneEnters(i)'
    BY <1>4 DEF LoopInv, TakesOffice, Entering, OneEnters
  <2> QED
    BY <1>4, <2>1 DEF LoopInv, TakesOffice, Fault
<1>5. CASE Demoted(i)
  BY <1>5, EnterKeeps DEF LoopInv, Demoted, Fault
<1>6. CASE WatchEnds(i)
  BY <1>6, EnterKeeps DEF LoopInv, WatchEnds, Fault
<1>7. CASE Halts(i)
  BY <1>7, EnterKeeps DEF LoopInv, Halts
<1>8. CASE Dies(i)
  <2>1. ~Entering(i)' /\ OneEnters(i)'
    BY <1>8 DEF Dies, Entering, OneEnters
  <2> QED
    BY <1>8, <2>1 DEF LoopInv, Dies
<1> QED
  BY <1>1, <1>2, <1>3, <1>4, <1>5, <1>6, <1>7, <1>8 DEF Move

-----------------------------------------------------------------------------
(***************************************************************************)
(* A step of one instance leaves the others where they are.                *)
(***************************************************************************)
Same(i) ==
  /\ RoleStays(i)
  /\ EnterStays(i)
  /\ hb'[i] = hb[i]
  /\ vl'[i] = vl[i]
  /\ watch'[i].pc = watch[i].pc

LEMMA SameGoes ==
  ASSUME NEW i \in Instances, Same(i)
  PROVE  Goes(i)
BY DEF Same, Goes, HbStays, HbRuns, VlStays, VlRuns, WatchStays

LEMMA MoveOne ==
  ASSUME NEW i \in Instances, Move(i), \A j \in Instances \ {i} : Same(j)
  PROVE  LoopStep
BY SameGoes DEF LoopStep, Move

\* Steps that touch neither the role nor a loop.
LEMMA NothingMoves ==
  ASSUME UNCHANGED <<isLeader, state, ctx, watcherRunning, hb, vl, watch>>,
         \A i \in Instances : EnterStays(i)
  PROVE  LoopStep
BY SameGoes DEF Same, RoleStays, LoopStep, Move

\* Steps that leave the acquisition goroutines alone.
LEMMA AcqSame ==
  ASSUME UNCHANGED acq
  PROVE  \A i \in Instances : EnterStays(i)
BY DEF EnterStays

\* A step of one acquisition goroutine that is outside becomeLeader.
LEMMA AcqOutside ==
  ASSUME TypeOK, NEW i \in Instances, NEW s \in AcqSlots, NEW x,
         acq' = [acq EXCEPT ![i][s] = x],
         acq[i][s].pc # "enter", x.pc # "enter"
  PROVE  \A j \in Instances : EnterStays(j)
<1>1. acq'[i][s] = x
  BY DEF TypeOK
<1>2. \A j \in Instances : \A q \in AcqSlots :
        j # i \/ q # s => acq'[j][q] = acq[j][q]
  BY DEF TypeOK
<1> QED
  BY <1>1, <1>2 DEF EnterStays

\* A new acquisition goroutine is outside becomeLeader.
LEMMA SpawnOutside ==
  ASSUME TypeOK, NEW i \in Instances, NEW k, NEW p, p # "enter",
         SpawnAcquire(i, k, p)
  PROVE  \A j \in Instances : EnterStays(j)
<1> DEFINE x == [FreeAcq EXCEPT !.pc = p, !.kind = k]
<1>1. x.pc = p
  BY DEF FreeAcq
<1>2. PICK s \in AcqSlots : acq[i][s].pc = "free" /\ acq' = [acq EXCEPT ![i][s] = x]
  BY DEF SpawnAcquire, IsNextFree
<1> HIDE DEF x
<1> QED
  BY <1>1, <1>2, AcqOutside

\* A heartbeat loop ends only without leadership or with a cancelled ctx.
LEMMA HbKeeps ==
  ASSUME TypeOK, NEW i \in Instances, NEW h \in HbSlots, NEW x,
         hb' = [hb EXCEPT ![i][h] = x],
         x.pc # "free" \/ ~isLeader[i] \/ ctx[i] # "live"
  PROVE  HbStays(i) /\ \A j \in Instances \ {i} : hb'[j] = hb[j]
<1>1. hb'[i][h] = x /\ \A j \in Instances \ {i} : hb'[j] = hb[j]
  BY DEF TypeOK
<1> QED
  BY <1>1 DEF HbStays, HbRuns

\* The same for a validation loop.
LEMMA VlKeeps ==
  ASSUME TypeOK, NEW i \in Instances, NEW v \in VlSlots, NEW x,
         vl' = [vl EXCEPT ![i][v] = x],
         \/ vl[i][v].pc = "free" \/ vl[i][v].kind # "loop"
         \/ x.pc # "free" /\ x.kind = "loop"
         \/ ~isLeader[i] \/ ctx[i] # "live"
  PROVE  VlStays(i) /\ \A j \in Instances \ {i} : vl'[j] = vl[j]
<1>1. vl'[i][v] = x /\ \A j \in Instances \ {i} : vl'[j] = vl[j]
  BY DEF TypeOK
<1>2. \A w \in VlSlots : w # v => vl'[i][w] = vl[i][w]
  BY DEF TypeOK
<1> QED
  BY <1>1, <1>2 DEF VlStays, VlRuns

\* becomeLeader stores isLeader and goes on to the term.
LEMMA LeaderMoves ==
  ASSUME TypeOK, NEW i \in Instances, NEW s \in AcqSlots, AcqPromote(i, s)
  PROVE  LoopStep
<1>1. acq[i][s] \in AcqRec
  BY DEF TypeOK
<1>2. acq'[i][s].pc = "enter"
  BY <1>1 DEF AcqPromote, AcqGoto, TypeOK, AcqRec
<1>3. \A j \in Instances : \A q \in AcqSlots :
        j # i \/ q # s => acq'[j][q] = acq[j][q]
  BY DEF AcqPromote, AcqGoto, TypeOK
<1>4. ~Entering(i) /\ ctx[i] # "nil"
  BY DEF AcqPromote, BecomeLeader
<1>5. \A q \in AcqSlots : acq'[i][q].pc = "enter" <=> q = s
  BY <1>2, <1>3, <1>4 DEF Entering
<1>6. isLeader'[i] /\ \A j \in Instances \ {i} : isLeader'[j] = isLeader[j]
  BY DEF AcqPromote, BecomeLeader, TypeOK
<1>7. UNCHANGED <<ctx, state, watcherRunning, hb, vl, watch>>
  BY DEF AcqPromote, acqUnchanged
<1>8. Promoted(i)
  BY <1>4, <1>5, <1>6, <1>7 DEF Promoted
<1>9. \A j \in Instances \ {i} : Same(j)
  BY <1>3, <1>6, <1>7 DEF Same, RoleStays, EnterStays
<1> QED
  BY <1>8, <1>9, MoveOne DEF Move

\* becomeLeader starts the loops of the term.
LEMMA TermMoves ==
  ASSUME TypeOK, NEW i \in Instances, NEW s \in AcqSlots, AcqEnter(i, s)
  PROVE  LoopStep
<1>1. /\ [FreeHb EXCEPT !.pc = "idle"].pc # "free"
      /\ [FreeVl EXCEPT !.pc = "idle"].pc # "free"
      /\ [FreeVl EXCEPT !.pc = "idle"].kind = "loop"
  BY DEF FreeHb, FreeVl
<1> DEFINE hbNew == [FreeHb EXCEPT !.pc = "idle"]
           vlNew == [FreeVl EXCEPT !.pc = "idle"]
<1>2. PICK h \in HbSlots : hb' = [hb EXCEPT ![i][h] = hbNew]
  BY DEF AcqEnter, EnterTerm
<1>3. i \in Validated => \E v \in VlSlots : vl' = [vl EXCEPT ![i][v] = vlNew]
  BY DEF AcqEnter, EnterTerm
<1>4. i \notin Validated => vl' = vl
  BY DEF AcqEnter, EnterTerm
<1>5. hbNew.pc # "free" /\ vlNew.pc # "free" /\ vlNew.kind = "loop"
  BY <1>1
<1> HIDE DEF hbNew, vlNew
<1>6. hb'[i][h] = hbNew /\ \A j \in Instances \ {i} : hb'[j] = hb[j]
  BY <1>2 DEF TypeOK
<1>7. i \in Validated => \E v \in VlSlots : vl'[i][v] = vlNew
  BY <1>3 DEF TypeOK
<1>8. \A j \in Instances \ {i} : vl'[j] = vl[j]
  BY <1>3, <1>4 DEF TypeOK
<1>9. UNCHANGED <<isLeader, ctx, watcherRunning, watch>>
  BY DEF AcqEnter, acqUnchanged
<1>10. state'[i] = "LEADER" /\ \A j \in Instances \ {i} : state'[j] = state[j]
  BY DEF AcqEnter, EnterTerm, TypeOK
<1>11. acq[i][s].pc = "enter" /\ acq'[i][s].pc # "enter"
  BY DEF AcqEnter, AcqEnd, FreeAcq, TypeOK
<1>12. \A j \in Instances : \A q \in AcqSlots :
         j # i \/ q # s => acq'[j][q] = acq[j][q]
  BY DEF AcqEnter, AcqEnd, TypeOK
<1>13. HbRuns(i)' /\ (i \in Validated => VlRuns(i)')
  BY <1>5, <1>6, <1>7 DEF HbRuns, VlRuns
<1>14. TakesOffice(i)
  BY <1>9, <1>10, <1>11, <1>12, <1>13 DEF TakesOffice
<1>15. \A j \in Instances \ {i} : Same(j)
  BY <1>6, <1>8, <1>9, <1>10, <1>12 DEF Same, RoleStays, EnterStays
<1> QED
  BY <1>14, <1>15, MoveOne DEF Move

\* becomeFollower relies on a watch loop or starts one.
LEMMA FollowerMoves ==
  ASSUME TypeOK, NEW i \in Instances, BecomeFollower(i), UNCHANGED ctx,
         EnterStays(i)
  PROVE  /\ Demoted(i)
         /\ \A j \in Instances \ {i} : RoleStays(j) /\ watch'[j] = watch[j]
<1> DEFINE open == [WatchOff EXCEPT !.pc = "open"]
<1>1. open.pc = "open"
  BY DEF WatchOff
<1>2. \/ watcherRunning[i] /\ UNCHANGED <<watcherRunning, watch>>
      \/ /\ watcherRunning' = [watcherRunning EXCEPT ![i] = TRUE]
         /\ watch' = [watch EXCEPT ![i] = IF @.pc \in {"off", "exit"} THEN open ELSE @]
  BY DEF BecomeFollower, StartsWatch
<1> HIDE DEF open
<1>3. ~isLeader'[i] /\ state'[i] = "FOLLOWER" /\ ~Entering(i)
  BY DEF BecomeFollower, TypeOK
<1>4. watcherRunning'[i]
  BY <1>2 DEF TypeOK
<1>5. watch'[i].pc \in {"off", "exit"} => watcherRunning[i] /\ watch'[i] = watch[i]
  BY <1>1, <1>2 DEF TypeOK
<1>6. \A j \in Instances \ {i} :
        watch'[j] = watch[j] /\ watcherRunning'[j] = watcherRunning[j]
  BY <1>2 DEF TypeOK
<1>7. \A j \in Instances \ {i} : isLeader'[j] = isLeader[j] /\ state'[j] = state[j]
  BY DEF BecomeFollower, TypeOK
<1> QED
  BY <1>3, <1>4, <1>5, <1>6, <1>7 DEF Demoted, RoleStays

-----------------------------------------------------------------------------
(***************************************************************************)
(* Every step of the group is a move of every instance, one lemma for each *)
(* family of steps.                                                        *)
(***************************************************************************)
LEMMA StartMoves ==
  ASSUME TypeOK, NEW i \in Instances, Start(i)
  PROVE  LoopStep
<1>1. \A j \in Instances : EnterStays(j)
  BY SpawnOutside DEF Start
<1>2. Starts(i)
  BY <1>1 DEF Start, Starts, TypeOK
<1>3. \A j \in Instances \ {i} : Same(j)
  BY <1>1 DEF Start, Same, RoleStays, TypeOK
<1> QED
  BY <1>2, <1>3, MoveOne DEF Move

\* Acquisition goroutines change the role only with becomeLeader and
\* becomeFollower.
LEMMA AcqLoops ==
  ASSUME TypeOK, NEW i \in Instances, NEW s \in AcqSlots, AcqProgress(i, s)
  PROVE  LoopStep
<1>1. CASE AcqPromote(i, s) \/ AcqEnter(i, s)
  BY <1>1, LeaderMoves, TermMoves
<1>2. CASE ~AcqPromote(i, s) /\ ~AcqEnter(i, s)
  <2> DEFINE Rec(p, n, r) == [pc |-> p, kind |-> acq[i][s].kind, retry |-> n,
                              rev |-> r]
             Outside == AcqPcs \ {"enter"}
  <2>1. acq[i][s] \in AcqRec /\ acq \in [Instances -> [AcqSlots -> AcqRec]]
    BY DEF TypeOK
  <2>2. acq[i][s].pc # "enter"
    BY <1>2 DEF AcqProgress, AcqWake, AcqCreateWins, AcqCreateFails, AcqGet,
                AcqCompare, AcqUpdateWins, AcqUpdateFails, AcqStoreRev,
                AcqStoreTok, AcqGiveUp, AcqBackoff, AcqCheck, AcqNote
  <2>3. \/ AcqEnd(i, s)
        \/ \E p \in Outside : AcqGoto(i, s, p)
        \/ \E p \in Outside : \E n, r : acq' = [acq EXCEPT ![i][s] = Rec(p, n, r)]
    <3>1. CASE \/ AcqWake(i, s) \/ AcqGiveUp(i, s) \/ AcqCreateFails(i, s)
               \/ AcqCompare(i, s) \/ AcqUpdateFails(i, s)
               \/ AcqStoreRev(i, s) \/ AcqStoreTok(i, s)
      BY <3>1 DEF AcqWake, AcqGiveUp, AcqCreateFails, AfterCreateError,
                  AcqCompare, AcqUpdateFails, AcqStoreRev, AcqStoreTok, AcqPcs
    <3>2. CASE \/ AcqCreateWins(i, s) \/ AcqUpdateWins(i, s) \/ AcqGet(i, s)
      BY <3>2 DEF AcqCreateWins, AcqUpdateWins, AcqGet, AcqGotoWith, AcqPcs
    <3>3. CASE AcqBackoff(i, s)
      BY <3>3 DEF AcqBackoff, AcqPcs
    <3>4. CASE AcqCheck(i, s) \/ AcqNote(i, s)
      BY <3>4 DEF AcqCheck, AcqNote, AcqGoto, AcqEnd, AcqPcs
    <3> QED
      BY <1>2, <3>1, <3>2, <3>3, <3>4 DEF AcqProgress
  <2>4. \A j \in Instances : EnterStays(j)
    <3>1. CASE AcqEnd(i, s)
      <4>1. FreeAcq.pc # "enter"
        BY DEF FreeAcq
      <4> QED
        BY <2>2, <3>1, <4>1, AcqOutside DEF AcqEnd
    <3>2. ASSUME NEW p \in Outside, AcqGoto(i, s, p)
          PROVE  \A j \in Instances : EnterStays(j)
      <4>1. [acq[i][s] EXCEPT !.pc = p].pc = p
        BY <2>1 DEF AcqRec
      <4>2. acq' = [acq EXCEPT ![i][s] = [acq[i][s] EXCEPT !.pc = p]]
        BY <2>1, <3>2 DEF AcqGoto
      <4> QED
        BY <2>2, <4>1, <4>2, AcqOutside
    <3>3. ASSUME NEW p \in Outside, NEW n, NEW r,
                 acq' = [acq EXCEPT ![i][s] = Rec(p, n, r)]
          PROVE  \A j \in Instances : EnterStays(j)
      <4>1. Rec(p, n, r).pc = p
        OBVIOUS
      <4> HIDE DEF Rec
      <4> QED
        BY <2>2, <3>3, <4>1, AcqOutside
    <3> QED
      BY <2>3, <3>1, <3>2, <3>3
  <2>5. CASE AcqGiveUp(i, s)
    <3>1. BecomeFollower(i) /\ UNCHANGED <<ctx, hb, vl>>
      BY <2>5 DEF AcqGiveUp, acqUnchanged
    <3> QED
      BY <2>4, <3>1, FollowerMoves, MoveOne DEF Same, Move
  <2>6. CASE ~AcqGiveUp(i, s)
    <3>1. UNCHANGED <<isLeader, state, ctx, watcherRunning, hb, vl, watch>>
      BY <1>2, <2>6 DEF AcqProgress, AcqWake, AcqCreateWins, AcqCreateFails,
           AcqGet, AcqCompare, AcqUpdateWins, AcqUpdateFails, AcqStoreRev,
           AcqStoreTok, AcqBackoff, AcqCheck, AcqNote, atomVars, acqUnchanged,
           watchUnchanged
    <3> QED
      BY <2>4, <3>1, NothingMoves
  <2> QED
    BY <2>5, <2>6
<1> QED
  BY <1>1, <1>2

\* A heartbeat loop that ends has found itself no leader, has found ctx
\* cancelled, or has demoted the instance.
LEMMA HbLoops ==
  ASSUME TypeOK, NEW i \in Instances, NEW h \in HbSlots,
         HbProgress(i, h) \/ HbUnhealthy(i, h) \/ HbLost(i, h)
  PROVE  LoopStep
<1>1. hb[i][h] \in HbRec /\ hb \in [Instances -> [HbSlots -> HbRec]]
  BY DEF TypeOK
<1>2. /\ UNCHANGED <<ctx, vl>>
      /\ \A j \in Instances : EnterStays(j)
  <2>1. UNCHANGED <<ctx, vl, acq>>
    BY DEF HbProgress, HbExit, HbTick, HbLoad, HbSend, HbApplied, HbRejected,
           HbOk, HbFailure, HbUnhealthy, HbLost, hbUnchanged
  <2> QED
    BY <2>1, AcqSame
<1>3. ASSUME NEW x, hb' = [hb EXCEPT ![i][h] = x], UNCHANGED roleVars,
             x.pc # "free" \/ ~isLeader[i] \/ ctx[i] # "live"
      PROVE  LoopStep
  <2>1. HbStays(i) /\ \A j \in Instances \ {i} : hb'[j] = hb[j]
    BY <1>3, HbKeeps
  <2>2. Goes(i)
    BY <1>2, <1>3, <2>1
       DEF Goes, RoleStays, roleVars, VlStays, VlRuns, WatchStays
  <2>3. \A j \in Instances \ {i} : Same(j)
    BY <1>2, <1>3, <2>1 DEF Same, RoleStays, roleVars
  <2> QED
    BY <2>2, <2>3, MoveOne DEF Move
<1>4. ASSUME NEW p, p # "free", HbGoto(i, h, p), UNCHANGED roleVars
      PROVE  LoopStep
  <2>1. [hb[i][h] EXCEPT !.pc = p].pc = p
    BY <1>1 DEF HbRec
  <2>2. hb' = [hb EXCEPT ![i][h] = [hb[i][h] EXCEPT !.pc = p]]
    BY <1>4 DEF HbGoto, TypeOK
  <2> QED
    BY <1>3, <1>4, <2>1, <2>2
<1>5. ASSUME BecomeFollower(i), HbEnd(i, h)
      PROVE  LoopStep
  <2>1. \A j \in Instances \ {i} : hb'[j] = hb[j]
    BY <1>5 DEF HbEnd, TypeOK
  <2> QED
    BY <1>2, <1>5, <2>1, FollowerMoves, MoveOne DEF Same, Move
<1>6. FreeHb.pc = "free" /\ [FreeHb EXCEPT !.pc = "idle"].pc = "idle"
  BY DEF FreeHb
<1>7. CASE HbExit(i, h)
  BY <1>3, <1>7 DEF HbExit, HbEnd, atomVars, roleVars
<1>8. CASE HbTick(i, h)
  BY <1>3, <1>4, <1>8 DEF HbTick, HbEnd, atomVars, roleVars
<1>9. CASE HbSend(i, h)
  <2> DEFINE x == [hb[i][h] EXCEPT !.pc = "wait", !.tok = token[i]]
  <2>1. x.pc # "free"
    BY <1>1 DEF HbRec
  <2>2. hb' = [hb EXCEPT ![i][h] = x]
    BY <1>1, <1>9 DEF HbSend
  <2> HIDE DEF x
  <2> QED
    BY <1>3, <1>9, <2>1, <2>2 DEF HbSend, atomVars, roleVars
<1>15. CASE HbLoad(i, h)
  <2> DEFINE x == [hb[i][h] EXCEPT !.pc = "loaded", !.rev = revision[i]]
  <2>1. x.pc # "free"
    BY <1>1 DEF HbRec
  <2>2. hb' = [hb EXCEPT ![i][h] = x]
    BY <1>1, <1>15 DEF HbLoad
  <2> HIDE DEF x
  <2> QED
    BY <1>3, <1>15, <2>1, <2>2 DEF HbLoad, atomVars, roleVars
<1>10. CASE HbApplied(i, h)
  <2> DEFINE x == [hb[i][h] EXCEPT !.pc = "ok", !.rev = Rev + 1]
  <2>1. x.pc # "free"
    BY <1>1 DEF HbRec
  <2>2. hb' = [hb EXCEPT ![i][h] = x]
    BY <1>1, <1>10 DEF HbApplied
  <2> HIDE DEF x
  <2> QED
    BY <1>3, <1>10, <2>1, <2>2 DEF HbApplied, atomVars, roleVars
<1>11. CASE HbRejected(i, h) \/ HbLost(i, h)
  <2>1. CasErrorClass # "free"
    BY ConfigAssumption
  <2> QED
    BY <1>4, <1>11, <2>1 DEF HbRejected, HbLost, atomVars, roleVars
<1>12. CASE HbOk(i, h)
  BY <1>3, <1>6, <1>12 DEF HbOk, roleVars
<1>13. CASE HbFailure(i, h)
  <2>1. CASE HbDemotes(hb[i][h])
    BY <1>5, <1>13, <2>1 DEF HbFailure, HandleHeartbeatFailure
  <2>2. CASE ~HbDemotes(hb[i][h])
    <3> DEFINE x == [pc |-> "idle", rev |-> 0, tok |-> NoToken,
                     fails |-> hb[i][h].fails + 1]
    <3>1. x.pc # "free"
      OBVIOUS
    <3>2. hb' = [hb EXCEPT ![i][h] = x] /\ UNCHANGED roleVars
      BY <1>13, <2>2 DEF HbFailure
    <3> HIDE DEF x
    <3> QED
      BY <1>3, <3>1, <3>2
  <2> QED
    BY <2>1, <2>2
<1>14. CASE HbUnhealthy(i, h)
  <2>1. \/ BecomeFollower(i) /\ HbEnd(i, h)
        \/ UNCHANGED roleVars /\ HbGoto(i, h, "idle")
    BY <1>14 DEF HbUnhealthy, HandleHealthCheckFailure
  <2> QED
    BY <1>4, <1>5, <2>1
<1> QED
  BY <1>7, <1>8, <1>9, <1>10, <1>11, <1>12, <1>13, <1>14, <1>15
     DEF HbProgress

\* So has a validation loop; a call of ValidateTokenOrDemote is no loop.
LEMMA VlLoops ==
  ASSUME TypeOK, NEW i \in Instances, VlStep(i)
  PROVE  LoopStep
<1>1. vl \in [Instances -> [VlSlots -> VlRec]]
  BY DEF TypeOK
<1>2. /\ UNCHANGED <<ctx, hb>>
      /\ \A j \in Instances : EnterStays(j)
  <2>1. UNCHANGED <<ctx, hb, acq>>
    BY DEF VlStep, VlProgress, ValidateTokenOrDemote, VlExit, VlTick, VlValid,
           VlInvalid, VlDemote, vlUnchanged
  <2> QED
    BY <2>1, AcqSame
<1>3. ASSUME NEW v \in VlSlots, NEW x, vl' = [vl EXCEPT ![i][v] = x],
             UNCHANGED roleVars,
             \/ vl[i][v].pc = "free" \/ vl[i][v].kind # "loop"
             \/ x.pc # "free" /\ x.kind = "loop"
             \/ ~isLeader[i] \/ ctx[i] # "live"
      PROVE  LoopStep
  <2>1. VlStays(i) /\ \A j \in Instances \ {i} : vl'[j] = vl[j]
    BY <1>3, VlKeeps
  <2>2. Goes(i)
    BY <1>2, <1>3, <2>1
       DEF Goes, RoleStays, roleVars, HbStays, HbRuns, WatchStays
  <2>3. \A j \in Instances \ {i} : Same(j)
    BY <1>2, <1>3, <2>1 DEF Same, RoleStays, roleVars
  <2> QED
    BY <2>2, <2>3, MoveOne DEF Move
<1>4. CASE ValidateTokenOrDemote(i)
  <2> DEFINE x == IF isLeader[i]
                    THEN [pc |-> "get", kind |-> "api", tok |-> token[i],
                          fails |-> 0]
                    ELSE [pc |-> "invalid", kind |-> "api", tok |-> NoToken,
                          fails |-> 0]
  <2>1. PICK v \in VlSlots :
          vl[i][v].pc = "free" /\ vl' = [vl EXCEPT ![i][v] = x]
    BY <1>4 DEF ValidateTokenOrDemote, IsNextFree
  <2> HIDE DEF x
  <2> QED
    BY <1>3, <1>4, <2>1 DEF ValidateTokenOrDemote
<1>5. ASSUME NEW v \in VlSlots, VlExit(i, v)
      PROVE  LoopStep
  BY <1>3, <1>5 DEF VlExit, VlEnd
<1>6. ASSUME NEW v \in VlSlots, VlTick(i, v)
      PROVE  LoopStep
  <2> DEFINE x == [vl[i][v] EXCEPT !.pc = "get", !.tok = token[i]]
  <2>1. x.pc # "free" /\ x.kind = vl[i][v].kind
    BY <1>1 DEF VlRec
  <2>2. isLeader[i] => vl' = [vl EXCEPT ![i][v] = x]
    BY <1>1, <1>6 DEF VlTick
  <2> HIDE DEF x
  <2> QED
    BY <1>3, <1>6, <2>1, <2>2 DEF VlTick, VlEnd
<1>7. ASSUME NEW v \in VlSlots, VlValid(i, v)
      PROVE  LoopStep
  <2> DEFINE y == [FreeVl EXCEPT !.pc = "idle"]
             x == IF vl[i][v].kind = "api" THEN FreeVl ELSE y
  <2>1. y.pc # "free" /\ y.kind = "loop"
    BY DEF FreeVl
  <2>2. vl' = [vl EXCEPT ![i][v] = x]
    BY <1>1, <1>7 DEF VlValid
  <2> HIDE DEF y
  <2>3. vl[i][v].kind # "loop" \/ (x.pc # "free" /\ x.kind = "loop")
    BY <2>1
  <2> HIDE DEF x
  <2> QED
    BY <1>3, <1>7, <2>2, <2>3 DEF VlValid
<1>8. ASSUME NEW v \in VlSlots, VlInvalid(i, v)
      PROVE  LoopStep
  <2> DEFINE y == [vl[i][v] EXCEPT !.pc = "invalid"]
             z == [pc |-> "idle", kind |-> "loop", tok |-> NoToken,
                   fails |-> vl[i][v].fails + 1]
             x == IF vl[i][v].kind = "api" \/ vl[i][v].fails + 1 >= MaxInvalid
                    THEN y ELSE z
  <2>1. y.pc # "free" /\ y.kind = vl[i][v].kind
    BY <1>1 DEF VlRec
  <2>2. z.pc # "free" /\ z.kind = "loop"
    OBVIOUS
  <2>3. vl' = [vl EXCEPT ![i][v] = x]
    BY <1>8 DEF VlInvalid
  <2> HIDE DEF y, z
  <2>4. vl[i][v].kind # "loop" \/ (x.pc # "free" /\ x.kind = "loop")
    BY <2>1, <2>2
  <2> HIDE DEF x
  <2> QED
    BY <1>3, <1>8, <2>3, <2>4 DEF VlInvalid
<1>9. ASSUME NEW v \in VlSlots, VlDemote(i, v)
      PROVE  LoopStep
  <2>1. CASE DemotesInvalid(i, vl[i][v])
    <3>1. BecomeFollower(i) /\ VlEnd(i, v)
      BY <1>9, <2>1 DEF VlDemote, HandleValidationFailure
    <3>2. \A j \in Instances \ {i} : vl'[j] = vl[j]
      BY <1>1, <3>1 DEF VlEnd
    <3> QED
      BY <1>2, <3>1, <3>2, FollowerMoves, MoveOne DEF Same, Move
  <2>2. CASE ~DemotesInvalid(i, vl[i][v])
    <3>1. vl[i][v].kind # "loop" /\ VlEnd(i, v) /\ UNCHANGED roleVars
      BY <1>9, <2>2 DEF VlDemote, DemotesInvalid
    <3> QED
      BY <1>3, <3>1 DEF VlEnd
  <2> QED
    BY <2>1, <2>2
<1> QED
  BY <1>4, <1>5, <1>6, <1>7, <1>8, <1>9 DEF VlStep, VlProgress

\* The watch loop ends only after a failure of kv.Watch or with ctx.
LEMMA WatchLoops ==
  ASSUME TypeOK, NEW i \in Instances, WatchStep(i)
  PROVE  LoopStep
<1>1. watch \in [Instances -> WatchRec] /\ watch[i] \in WatchRec
  BY DEF TypeOK
<1>2. /\ UNCHANGED <<ctx, hb, vl>>
      /\ \A j \in Instances : EnterStays(j)
  <2>1. UNCHANGED <<ctx, hb, vl>>
    BY DEF WatchStep, WatchProgress, WatchOpen, WatchEvent, WatchFollow,
           WatchDemote, WatchNil, WatchTick, WatchGet, WatchStore, WatchClosed,
           WatchCancelled, WatchExit, watchUnchanged
  <2>2. \/ UNCHANGED acq
        \/ \E k \in {"retry", "takeover"} : \E p \in AcqQuiet : SpawnAcquire(i, k, p)
    BY DEF WatchStep, WatchProgress, WatchOpen, WatchEvent, WatchFollow,
           WatchDemote, WatchNil, WatchTick, WatchGet, WatchStore, WatchClosed,
           WatchCancelled, WatchExit, AcqQuiet
  <2> QED
    BY <2>1, <2>2, AcqSame, SpawnOutside DEF AcqQuiet
<1>3. ~WatchDemote(i) /\ ~WatchExit(i) =>
        /\ UNCHANGED <<isLeader, state, watcherRunning>>
        /\ watch[i].pc \notin {"off", "exit"}
  BY DEF WatchStep, WatchProgress, WatchOpen, WatchEvent, WatchFollow,
         WatchNil, WatchTick, WatchGet, WatchStore, WatchClosed, WatchCancelled
<1>4. ASSUME ~WatchDemote(i), ~WatchExit(i), watch'[i].pc # "off",
             watch'[i].pc = "exit" => ctx[i] # "live" \/ Fault("failWatch", i),
             \A j \in Instances \ {i} : watch'[j] = watch[j]
      PROVE  LoopStep
  <2>1. Goes(i)
    BY <1>2, <1>3, <1>4
       DEF Goes, RoleStays, HbStays, HbRuns, VlStays, VlRuns, WatchStays
  <2>2. \A j \in Instances \ {i} : Same(j)
    BY <1>2, <1>3, <1>4 DEF Same, RoleStays
  <2> QED
    BY <2>1, <2>2, MoveOne DEF Move
<1>5. ASSUME NEW x, watch' = [watch EXCEPT ![i] = x]
      PROVE  watch'[i] = x /\ \A j \in Instances \ {i} : watch'[j] = watch[j]
  BY <1>1, <1>5
<1>6. ASSUME NEW p, NEW e, WatchGoto(i, p, e)
      PROVE  watch'[i].pc = p /\ \A j \in Instances \ {i} : watch'[j] = watch[j]
  BY <1>1, <1>6 DEF WatchGoto, WatchRec
<1>7. CASE WatchDemote(i)
  <2>1. WatchGoto(i, "idle", 0)
    BY <1>7 DEF WatchDemote
  <2>2. watch'[i].pc = "idle" /\ \A j \in Instances \ {i} : watch'[j] = watch[j]
    BY <1>6, <2>1
  <2>3. ~isLeader'[i] /\ watcherRunning'[i] /\ ~Entering(i)
    BY <1>7 DEF WatchDemote, TypeOK
  <2>4. state'[i] = "FOLLOWER"
    BY <1>7 DEF WatchDemote, TypeOK
  <2>5. Demoted(i)
    BY <1>2, <2>2, <2>3, <2>4 DEF Demoted
  <2>6. \A j \in Instances \ {i} : RoleStays(j)
    BY <1>2, <1>7 DEF WatchDemote, RoleStays, TypeOK
  <2> QED
    BY <1>2, <2>2, <2>5, <2>6, MoveOne DEF Same, Move
<1>8. CASE WatchExit(i)
  <2>1. watch'[i].pc = "off" /\ \A j \in Instances \ {i} : watch'[j] = watch[j]
    BY <1>5, <1>8 DEF WatchExit, WatchOff
  <2>2. ~watcherRunning'[i]
    BY <1>8 DEF WatchExit, TypeOK
  <2>3. WatchEnds(i)
    BY <1>2, <1>8, <2>1, <2>2 DEF WatchExit, WatchEnds, HbRuns, VlRuns
  <2>4. \A j \in Instances \ {i} : RoleStays(j)
    BY <1>2, <1>8 DEF WatchExit, RoleStays, TypeOK
  <2> QED
    BY <1>2, <2>1, <2>3, <2>4, MoveOne DEF Same, Move
<1>9. CASE ~WatchDemote(i) /\ ~WatchExit(i)
  <2>1. CASE WatchOpen(i)
    <3> DEFINE x == [pc |-> "idle", ev |-> 0, nil |-> TRUE,
                     seen |-> IF alive THEN Rev - 1 ELSE Rev]
    <3>1. x.pc = "idle"
      OBVIOUS
    <3>2. \/ watch' = [watch EXCEPT ![i] = x]
          \/ Fault("failWatch", i) /\ WatchGoto(i, "exit", 0)
      BY <2>1 DEF WatchOpen
    <3> HIDE DEF x
    <3> QED
      BY <1>4, <1>5, <1>6, <1>9, <3>1, <3>2
  <2>2. ASSUME NEW r \in 1..Rev, WatchEvent(i, r)
        PROVE  LoopStep
    <3> DEFINE own == isLeader[i] /\ log[r].id = i
               x == [pc |-> IF own THEN "idle"
                              ELSE IF isLeader[i] THEN "demote" ELSE "follow",
                     ev |-> IF own THEN 0 ELSE r,
                     seen |-> r,
                     nil |-> watch[i].nil]
    <3>1. x.pc \in {"idle", "demote", "follow"}
      OBVIOUS
    <3>2. watch' = [watch EXCEPT ![i] = x]
      BY <2>2 DEF WatchEvent
    <3> HIDE DEF x
    <3> QED
      BY <1>4, <1>5, <1>9, <3>1, <3>2
  <2>3. CASE WatchFollow(i) \/ WatchTick(i) \/ WatchGet(i) \/ WatchStore(i)
    <3>1. \E p \in {"idle", "get", "store"} : \E e : WatchGoto(i, p, e)
      BY <2>3 DEF WatchFollow, WatchTick, WatchGet, WatchStore
    <3> QED
      BY <1>4, <1>6, <1>9, <3>1
  <2>4. CASE WatchClosed(i) \/ WatchCancelled(i)
    <3>1. /\ WatchGoto(i, "exit", 0)
          /\ ctx[i] # "live" \/ Fault("failWatch", i)
      BY <2>4 DEF WatchClosed, WatchCancelled
    <3> QED
      BY <1>4, <1>6, <1>9, <3>1
  <2>5. CASE WatchNil(i)
    <3>1. watch'[i].pc = "idle" /\ \A j \in Instances \ {i} : watch'[j] = watch[j]
      BY <1>1, <2>5 DEF WatchNil, WatchRec
    <3> QED
      BY <1>4, <1>9, <3>1
  <2> QED
    BY <1>9, <2>1, <2>2, <2>3, <2>4, <2>5 DEF WatchStep, WatchProgress
<1> QED
  BY <1>7, <1>8, <1>9

\* Stop and the death of the process end e.ctx together with the role.
LEMMA StopLoops ==
  ASSUME TypeOK, NEW i \in Instances, StopStep(i)
  PROVE  LoopStep
<1>1. CASE Stop(i) \/ StopWithContext(i)
  <2>1. \E p : StopCritical(i, p)
    BY <1>1 DEF Stop, StopWithContext
  <2>2. \A j \in Instances : EnterStays(j)
    BY <2>1, AcqSame DEF StopCritical
  <2>3. ~isLeader'[i] /\ ctx'[i] # "live" /\ state'[i] = "STOPPED"
    BY <2>1 DEF StopCritical, TypeOK
  <2>4. Halts(i)
    BY <2>1, <2>2, <2>3 DEF StopCritical, Halts
  <2>5. \A j \in Instances \ {i} : RoleStays(j)
    BY <2>1 DEF StopCritical, RoleStays, TypeOK
  <2> QED
    BY <2>1, <2>2, <2>4, <2>5, MoveOne DEF StopCritical, Same, Move
<1>2. CASE StopReturn(i) \/ StopDrained(i) \/ StopTimeout(i)
  BY <1>2, NothingMoves, AcqSame
     DEF StopReturn, StopDrained, StopTimeout, StopUnchanged, atomVars
<1>3. CASE StopClear(i) \/ CancelContext(i)
  <2>1. /\ \/ ctx' = [ctx EXCEPT ![i] = "nil"] /\ ~Entering(i)
           \/ ctx' = [ctx EXCEPT ![i] = "done"] /\ ctx[i] # "nil"
        /\ UNCHANGED <<isLeader, state, watcherRunning, hb, vl, watch, acq>>
    BY <1>3 DEF StopClear, CancelContext, StopUnchanged, atomVars
  <2>2. \A j \in Instances : EnterStays(j)
    BY <2>1, AcqSame
  <2>3. Halts(i)
    <3>1. \/ ctx'[i] = "nil" /\ ~Entering(i)
          \/ ctx'[i] = "done" /\ ctx[i] # "nil"
      BY <2>1 DEF TypeOK
    <3> QED
      BY <2>1, <2>2, <3>1 DEF Halts
  <2>4. \A j \in Instances \ {i} : Same(j)
    BY <2>1, <2>2 DEF Same, RoleStays, TypeOK
  <2> QED
    BY <2>3, <2>4, MoveOne DEF Move
<1>4. CASE StopDelete(i)
  <2>1. \A j \in Instances : watch'[j].pc = watch[j].pc
    BY <1>4 DEF TypeOK, WatchRec, StopDelete
  <2>2. UNCHANGED <<isLeader, state, ctx, watcherRunning, hb, vl, acq>>
    BY <1>4 DEF StopDelete, StopUnchanged, atomVars
  <2> QED
    BY <2>1, <2>2, AcqSame, SameGoes DEF Same, RoleStays, LoopStep, Move
<1>5. CASE Crash(i) \/ Panic(i)
  <2>1. ProcessDies(i)
    BY <1>5 DEF Crash, Panic
  <2>2. ctx'[i] = "nil" /\ watch'[i].pc = "off" /\ state'[i] = "INIT"
    BY <2>1 DEF ProcessDies, TypeOK, WatchOff
  <2>3. ~isLeader'[i] /\ ~watcherRunning'[i]
    BY <2>1 DEF ProcessDies, TypeOK
  <2>4. \A s \in AcqSlots : acq'[i][s].pc # "enter"
    BY <2>1 DEF ProcessDies, TypeOK, FreeAcq
  <2>5. Dies(i)
    BY <2>2, <2>3, <2>4 DEF Dies
  <2>6. \A j \in Instances \ {i} : acq'[j] = acq[j]
    BY <2>1 DEF ProcessDies, TypeOK
  <2>7. \A j \in Instances \ {i} : EnterStays(j)
    BY <2>6 DEF EnterStays
  <2>8. \A j \in Instances \ {i} :
          RoleStays(j) /\ hb'[j] = hb[j] /\ vl'[j] = vl[j] /\ watch'[j] = watch[j]
    BY <2>1 DEF ProcessDies, RoleStays, TypeOK
  <2>9. \A j \in Instances \ {i} : Same(j)
    BY <2>7, <2>8 DEF Same
  <2> QED
    BY <2>5, <2>9, MoveOne DEF Move
<1> QED
  BY <1>1, <1>2, <1>3, <1>4, <1>5 DEF StopStep, StopProgress

\* Every step of the group is a move of every instance.
LEMMA NextMoves ==
  ASSUME TypeOK, [Next]_vars
  PROVE  LoopStep
<1>1. CASE UNCHANGED vars
  BY <1>1, NothingMoves, AcqSame DEF vars
<1>2. CASE Expire \/ \E u \in late : LateUpdate(u)
  BY <1>2, NothingMoves, AcqSame DEF Expire, LateUpdate, atomVars, hbUnchanged
<1>3. ASSUME NEW i \in Instances, GracePeriodDemotes(i)
      PROVE  LoopStep
  BY <1>3, FollowerMoves, AcqSame, MoveOne DEF GracePeriodDemotes, Same, Move
<1>4. ASSUME NEW i \in Instances, AcqStep(i) \/ HbStep(i)
      PROVE  LoopStep
  BY <1>4, AcqLoops, HbLoops DEF AcqStep, HbStep
<1> QED
  BY <1>1, <1>2, <1>3, <1>4, StartMoves, VlLoops, WatchLoops, StopLoops
     DEF Next, BoundReached

-----------------------------------------------------------------------------
\* The loops a role needs are there in every reachable state.
LEMMA LoopsHold == Spec => []LInv
<1>1. ASSUME LInv, IInv, [Next]_vars
      PROVE  LInv'
  <2>1. LoopStep
    BY <1>1, NextMoves DEF IInv
  <2> QED
    BY <1>1, <2>1, MovePreserves DEF LInv, LoopStep
<1> QED
  BY <1>1, LoopInit, InvHolds, PTL DEF Spec

(***************************************************************************)
(* heartbeatLoop returns on paths that do not demote (ctx cancelled, or    *)
(* IsLeader() false at a tick) and a new term may begin before an old loop *)
(* has noticed the end of the last one.  Still no order of promotions,     *)
(* demotions, restarts and loop exits leaves an instance that says it is   *)
(* leader without a heartbeatLoop.                                         *)
(***************************************************************************)
THEOREM LeaderHeartbeats == Spec => []LeaderIsHeartbeating
<1>1. LInv => LeaderIsHeartbeating
  BY DEF LInv, LoopInv, HbRuns, LeaderIsHeartbeating
<1> QED
  BY <1>1, LoopsHold, PTL

(***************************************************************************)
(* The same for validationLoop: calls of ValidateTokenOrDemote that demote *)
(* or find the token valid never take the place of the background loop.    *)
(***************************************************************************)
THEOREM LeaderValidates == Spec => []LeaderIsValidated
<1>1. LInv => LeaderIsValidated
  BY ConfigAssumption DEF LInv, LoopInv, VlRuns, LeaderIsValidated
<1> QED
  BY <1>1, LoopsHold, PTL

(***************************************************************************)
(* becomeFollower starts a watch loop only if watcherRunning is false, and *)
(* an ending loop clears the flag after it has left e.wg.  Where kv.Watch  *)
(* works the two never meet: a running follower has a watch loop.          *)
(***************************************************************************)
THEOREM FollowerWatches == Spec => []FollowerIsWatching
<1>1. LInv => FollowerIsWatching
  BY DEF LInv, LoopInv, FollowerIsWatching
<1> QED
  BY <1>1, LoopsHold, PTL

(***************************************************************************)
(* becomeLeader, becomeFollower and Stop store isLeader and state apart,   *)
(* and goroutines of several kinds reach them in any order.  As all stores *)
(* are under e.mu, whoever takes it, as Status() does, finds a leader in   *)
(* state LEADER and nobody else in it.                                     *)
(***************************************************************************)
THEOREM RolesAgree == Spec => []RoleAgrees
<1>1. LInv => RoleAgrees
  BY DEF LInv, LoopInv, RoleAgrees
<1> QED
  BY <1>1, LoopsHold, PTL

=============================================================================
