-------------------------- MODULE KVElectionProofs ---------------------------
(***************************************************************************)
(* Theorems about KVElection for any number of instances, slots, retries   *)
(* and faults, and for any bound on the number of writes.                  *)
(*                                                                         *)
(* The effects below say what a single step may do to each piece of state. *)
(* Each family of steps is shown to have them, and they are shown to       *)
(* preserve the inductive invariant.                                       *)
(***************************************************************************)
EXTENDS TypeProofs

(***************************************************************************)
(* Token t was made for instance i: the acquiring write of i is entry t.   *)
(***************************************************************************)
IssuedTo(i, t) == t \in 1..Rev /\ log[t].id = i /\ log[t].token = t

(***************************************************************************)
(* An acquisition in one of these places holds the revision of its own     *)
(* acknowledged write.                                                     *)
(***************************************************************************)
AcqWon == {"storeRev", "storeTok", "promote", "enter"}

(***************************************************************************)
(* Every token in use, in the key's history, in a kvElection object, in an *)
(* acquisition about to be applied and in an Update under way, was issued  *)
(* to the instance that uses it.                                           *)
(***************************************************************************)
TokenInv ==
  /\ \A r \in 1..Rev : IssuedTo(log[r].id, log[r].token)
  /\ \A i \in Instances : token[i] # NoToken => IssuedTo(i, token[i])
  /\ \A i \in Instances : \A s \in AcqSlots :
       acq[i][s].pc \in AcqWon => IssuedTo(i, acq[i][s].rev)
  /\ \A i \in Instances : \A h \in HbSlots :
       /\ hb[i][h].pc # "free" => token[i] # NoToken
       /\ hb[i][h].pc = "wait" => IssuedTo(i, hb[i][h].tok)
  /\ \A u \in late : IssuedTo(u.id, u.tok)

(***************************************************************************)
(* A takeover about to be written has compared priorities.                 *)
(***************************************************************************)
Outranks(i, r) == Priority[i] > Priority[log[r].id]

CompareInv ==
  \A i \in Instances : \A s \in AcqSlots :
    acq[i][s].pc = "update" => Outranks(i, acq[i][s].rev)

IInv == TypeOK /\ ReadInv /\ TokenInv /\ CompareInv

-----------------------------------------------------------------------------
(***************************************************************************)
(* The effects.                                                            *)
(***************************************************************************)
TakeoverDue(i) ==
  \E s \in AcqSlots : acq[i][s].pc = "update" /\ acq[i][s].rev = Rev

KVEffect ==
  \/ log' = log /\ (alive' => alive)
  \/ ~alive /\ \E i \in Instances : Write(i, Rev + 1)
  \/ alive /\ \E i \in Instances : TakeoverDue(i) /\ Write(i, Rev + 1)
  \/ alive /\ \E i \in Instances : \E t \in Nat : IssuedTo(i, t) /\ Write(i, t)

AcqSlotEffect(i, s) ==
  /\ acq'[i][s].pc \in AcqReads =>
       \/ acq[i][s].pc \in AcqReads /\ acq'[i][s].rev = acq[i][s].rev
       \/ alive /\ acq'[i][s].rev = Rev
  /\ acq'[i][s].pc = "update" =>
       /\ acq[i][s].pc \in AcqReads
       /\ acq'[i][s].rev = acq[i][s].rev
       /\ acq[i][s].pc = "update" \/ Outranks(i, acq[i][s].rev)
  /\ acq'[i][s].pc \in AcqWon =>
       \/ acq[i][s].pc \in AcqWon /\ acq'[i][s].rev = acq[i][s].rev
       \/ IssuedTo(i, acq[i][s].rev)'
AcqEffect == \A i \in Instances : \A s \in AcqSlots : AcqSlotEffect(i, s)

HbSlotEffect(i, h) ==
  /\ hb'[i][h].pc = "wait" =>
       \/ hb[i][h].pc = "wait" /\ hb'[i][h].tok = hb[i][h].tok
       \/ hb[i][h].pc # "free" /\ hb'[i][h].tok = token[i]
  /\ hb'[i][h].pc # "free" =>
       \/ token'[i] # NoToken
       \/ hb[i][h].pc # "free" /\ token'[i] = token[i]
HbEffect == \A i \in Instances : \A h \in HbSlots : HbSlotEffect(i, h)

TokenEffect ==
  \A i \in Instances :
    \/ token'[i] = NoToken
    \/ token'[i] = token[i]
    \/ \E s \in AcqSlots : acq[i][s].pc \in AcqWon /\ token'[i] = acq[i][s].rev

LateEffect ==
  \A u \in late' :
    \/ u \in late
    \/ /\ u.id \in Instances
       /\ \E h \in HbSlots : hb[u.id][h].pc = "wait" /\ u.tok = hb[u.id][h].tok

WatchEffect ==
  \A i \in Instances :
    watch'[i].pc \in WatchReads =>
      \/ watch[i].pc \in WatchReads /\ watch'[i].ev = watch[i].ev
      \/ watch'[i].ev \in 1..Rev

Effects ==
  KVEffect /\ AcqEffect /\ HbEffect /\ TokenEffect /\ LateEffect /\ WatchEffect

-----------------------------------------------------------------------------
(***************************************************************************)
(* A write adds an entry and leaves the others alone.                      *)
(***************************************************************************)
LEMMA WriteAppends ==
  ASSUME KVTypeOK, NEW i \in Instances, NEW t \in Nat, Write(i, t)
  PROVE  /\ Rev \in Nat
         /\ Rev' = Rev + 1
         /\ log'[Rev + 1].id = i
         /\ log'[Rev + 1].token = t
         /\ \A r \in 1..Rev : log'[r] = log[r]
         /\ alive'
BY DEF KVTypeOK, Write, Rev, Payload

\* A write under its own revision issues that token to the writer.
LEMMA WriteIssues ==
  ASSUME KVTypeOK, NEW i \in Instances, Write(i, Rev + 1)
  PROVE  /\ Rev + 1 \in 1..Rev'
         /\ log'[Rev + 1].id = i
         /\ log'[Rev + 1].token = Rev + 1
<1>1. Rev + 1 \in Nat
  BY DEF KVTypeOK, Rev
<1> QED
  BY <1>1, WriteAppends

(***************************************************************************)
(* The log only grows, so what was issued stays issued.                    *)
(***************************************************************************)
LEMMA LogGrows ==
  ASSUME KVTypeOK, KVEffect
  PROVE  /\ Rev \in Nat /\ Rev' \in Nat /\ Rev' >= Rev
         /\ \A r \in 1..Rev : log'[r] = log[r]
         /\ alive' => alive \/ Rev' > 0
<1>1. Rev \in Nat
  BY DEF KVTypeOK, Rev
<1>2. CASE log' = log /\ (alive' => alive)
  BY <1>1, <1>2 DEF Rev
<1>3. CASE \E i \in Instances : \E t \in Nat : Write(i, t)
  BY <1>1, <1>3, WriteAppends
<1> QED
  BY <1>1, <1>2, <1>3 DEF KVEffect

\* An issued token stays issued: the history only grows.
LEMMA IssuedStays ==
  ASSUME KVTypeOK, KVEffect, NEW i, NEW t, IssuedTo(i, t)
  PROVE  t \in 1..Rev' /\ log'[t].id = i /\ log'[t].token = t
BY LogGrows DEF IssuedTo

(***************************************************************************)
(* Pieces of state that a step leaves alone.                               *)
(***************************************************************************)
LEMMA Untouched ==
  /\ UNCHANGED kvVars => KVEffect
  /\ UNCHANGED acq => AcqEffect
  /\ UNCHANGED <<hb, token>> => HbEffect
  /\ UNCHANGED token => TokenEffect
  /\ UNCHANGED late => LateEffect
  /\ UNCHANGED watch => WatchEffect
<1>1. UNCHANGED acq => AcqEffect
  BY DEF AcqEffect, AcqSlotEffect, AcqReads, AcqWon
<1>2. UNCHANGED <<hb, token>> => HbEffect
  BY DEF HbEffect, HbSlotEffect
<1> QED
  BY <1>1, <1>2 DEF KVEffect, kvVars, TokenEffect, LateEffect, WatchEffect

(***************************************************************************)
(* Steps that change one slot, or spawn, end or kill goroutines.           *)
(***************************************************************************)
LEMMA AcqOneSlot ==
  ASSUME TypeOK, NEW i \in Instances, NEW s \in AcqSlots, NEW x,
         acq' = [acq EXCEPT ![i][s] = x]
  PROVE  /\ acq'[i][s] = x
         /\ AcqSlotEffect(i, s) => AcqEffect
<1>1. acq'[i][s] = x
  BY DEF TypeOK
<1>2. \A j \in Instances : \A q \in AcqSlots :
        j # i \/ q # s => acq'[j][q] = acq[j][q]
  BY DEF TypeOK
<1>3. \A j \in Instances : \A q \in AcqSlots :
        acq'[j][q] = acq[j][q] => AcqSlotEffect(j, q)
  BY DEF AcqSlotEffect, AcqReads, AcqWon
<1> QED
  BY <1>1, <1>2, <1>3 DEF AcqEffect

AcqQuiet == {"free", "jitter", "check", "create", "get", "failed"}

\* What the helper moves of an acquisition goroutine do to acq.
LEMMA AcqMoves ==
  ASSUME TypeOK, NEW i \in Instances, NEW s \in AcqSlots
  PROVE  /\ \A p \in AcqQuiet : AcqGoto(i, s, p) => AcqEffect
         /\ \A p \in AcqWon :
              acq[i][s].pc \in AcqWon /\ AcqGoto(i, s, p) => AcqEffect
         /\ AcqEnd(i, s) => AcqEffect
         /\ \A x \in AcqRec : x.pc \in AcqQuiet /\ acq' = [acq EXCEPT ![i][s] = x]
              => AcqEffect
<1>1. ASSUME NEW x, x.pc \in AcqQuiet, acq' = [acq EXCEPT ![i][s] = x]
      PROVE  AcqEffect
  <2>1. acq'[i][s].pc \in AcqQuiet
    BY <1>1, AcqOneSlot
  <2>2. AcqSlotEffect(i, s)
    BY <2>1 DEF AcqSlotEffect, AcqQuiet, AcqReads, AcqWon
  <2> QED
    BY <1>1, <2>2, AcqOneSlot
<1>2. ASSUME NEW p \in AcqQuiet, AcqGoto(i, s, p)
      PROVE  AcqEffect
  <2>1. acq[i][s] \in AcqRec
    BY DEF TypeOK
  <2>2. [acq[i][s] EXCEPT !.pc = p].pc = p
    BY <2>1 DEF AcqRec
  <2>3. acq' = [acq EXCEPT ![i][s] = [acq[i][s] EXCEPT !.pc = p]]
    BY <1>2 DEF AcqGoto, TypeOK
  <2> QED
    BY <1>1, <2>2, <2>3
<1>3. FreeAcq.pc \in AcqQuiet
  BY DEF FreeAcq, AcqQuiet
<1>4. ASSUME NEW p \in AcqWon, acq[i][s].pc \in AcqWon, AcqGoto(i, s, p)
      PROVE  AcqEffect
  <2> DEFINE g == [acq[i][s] EXCEPT !.pc = p]
  <2>1. acq' = [acq EXCEPT ![i][s] = g]
    BY <1>4 DEF AcqGoto, TypeOK
  <2>2. g.pc = p /\ g.rev = acq[i][s].rev
    BY DEF TypeOK, AcqRec
  <2> HIDE DEF g
  <2>3. acq'[i][s] = g
    BY <2>1, AcqOneSlot
  <2>4. AcqSlotEffect(i, s)
    BY <1>4, <2>2, <2>3 DEF AcqSlotEffect, AcqReads, AcqWon
  <2> QED
    BY <2>1, <2>4, AcqOneSlot
<1> QED
  BY <1>1, <1>2, <1>3, <1>4 DEF AcqEnd

\* A new acquisition goroutine has read nothing and won nothing yet.
LEMMA SpawnEffect ==
  ASSUME TypeOK, NEW i \in Instances, NEW k, NEW p \in AcqQuiet,
         SpawnAcquire(i, k, p)
  PROVE  AcqEffect
<1>1. PICK s \in AcqSlots :
        acq' = [acq EXCEPT ![i][s] = [FreeAcq EXCEPT !.pc = p, !.kind = k]]
  BY DEF SpawnAcquire
<1>2. [FreeAcq EXCEPT !.pc = p, !.kind = k].pc = p
  BY DEF FreeAcq
<1>3. acq'[i][s].pc \in AcqQuiet
  BY <1>1, <1>2, AcqOneSlot
<1>4. AcqSlotEffect(i, s)
  BY <1>3 DEF AcqSlotEffect, AcqQuiet, AcqReads, AcqWon
<1> QED
  BY <1>1, <1>4, AcqOneSlot

\* A step of one heartbeat loop leaves the others alone.
LEMMA HbOneSlot ==
  ASSUME TypeOK, NEW i \in Instances, NEW h \in HbSlots, NEW x,
         hb' = [hb EXCEPT ![i][h] = x], UNCHANGED token
  PROVE  /\ hb'[i][h] = x
         /\ HbSlotEffect(i, h) => HbEffect
<1>1. hb'[i][h] = x
  BY DEF TypeOK
<1>2. \A j \in Instances : \A q \in HbSlots :
        j # i \/ q # h => hb'[j][q] = hb[j][q]
  BY DEF TypeOK
<1>3. \A j \in Instances : \A q \in HbSlots :
        hb'[j][q] = hb[j][q] => HbSlotEffect(j, q)
  BY DEF HbSlotEffect
<1> QED
  BY <1>1, <1>2, <1>3 DEF HbEffect

\* A heartbeat loop that only moves on, or ends, keeps what it loaded.
LEMMA HbMoves ==
  ASSUME TypeOK, NEW i \in Instances, NEW h \in HbSlots, UNCHANGED token
  PROVE  /\ \A p \in HbPcs \ {"wait"} :
              hb[i][h].pc # "free" /\ HbGoto(i, h, p) => HbEffect
         /\ HbEnd(i, h) => HbEffect
         /\ \A x : (/\ hb[i][h].pc # "free"
                    /\ x.pc # "wait"
                    /\ hb' = [hb EXCEPT ![i][h] = x]) => HbEffect
<1>1. ASSUME NEW x, hb[i][h].pc # "free" \/ x.pc = "free", x.pc # "wait",
             hb' = [hb EXCEPT ![i][h] = x]
      PROVE  HbEffect
  <2>1. hb'[i][h].pc = x.pc
    BY <1>1, HbOneSlot
  <2>2. HbSlotEffect(i, h)
    BY <1>1, <2>1 DEF HbSlotEffect
  <2> QED
    BY <1>1, <2>2, HbOneSlot
<1>2. ASSUME NEW p \in HbPcs \ {"wait"}, hb[i][h].pc # "free", HbGoto(i, h, p)
      PROVE  HbEffect
  <2>1. hb[i][h] \in HbRec
    BY DEF TypeOK
  <2>2. [hb[i][h] EXCEPT !.pc = p].pc = p
    BY <2>1 DEF HbRec
  <2>3. hb' = [hb EXCEPT ![i][h] = [hb[i][h] EXCEPT !.pc = p]]
    BY <1>2 DEF HbGoto, TypeOK
  <2> QED
    BY <1>1, <1>2, <2>2, <2>3
<1>3. FreeHb.pc = "free"
  BY DEF FreeHb
<1> QED
  BY <1>1, <1>2, <1>3 DEF HbEnd

\* A dying process forgets; its requests under way stay as they were.
LEMMA DiesEffect ==
  ASSUME TypeOK, NEW i \in Instances, ProcessDies(i)
  PROVE  AcqEffect /\ HbEffect /\ TokenEffect /\ WatchEffect /\ LateEffect
<1>1. AcqEffect
  <2>1. \A j \in Instances : \A q \in AcqSlots :
          acq'[j][q] = acq[j][q] \/ acq'[j][q].pc = "free"
    BY DEF TypeOK, ProcessDies, FreeAcq
  <2> QED
    BY <2>1 DEF AcqEffect, AcqSlotEffect, AcqReads, AcqWon
<1>2. HbEffect
  <2>1. \A j \in Instances : \A q \in HbSlots :
          \/ hb'[j][q].pc = "free"
          \/ hb'[j][q] = hb[j][q] /\ token'[j] = token[j]
    BY DEF TypeOK, ProcessDies, FreeHb
  <2> QED
    BY <2>1 DEF HbEffect, HbSlotEffect
<1>3. TokenEffect
  BY DEF TypeOK, ProcessDies, TokenEffect
<1>4. WatchEffect
  BY DEF TypeOK, ProcessDies, WatchEffect, WatchOff, WatchReads
<1>5. LateEffect
  BY DEF ProcessDies, Request, LateEffect
<1> QED
  BY <1>1, <1>2, <1>3, <1>4, <1>5

\* becomeFollower gives the watch loop no revision to read.
LEMMA FollowerEffect ==
  ASSUME TypeOK, NEW i \in Instances, BecomeFollower(i)
  PROVE  WatchEffect
<1>1. [WatchOff EXCEPT !.pc = "open"].pc = "open"
  BY DEF WatchOff
<1> DEFINE open == [WatchOff EXCEPT !.pc = "open"]
<1>2. \/ UNCHANGED watch
      \/ watch' = [watch EXCEPT ![i] = IF @.pc \in {"off", "exit"} THEN open ELSE @]
  BY DEF BecomeFollower
<1> HIDE DEF open
<1>3. open.pc = "open"
  BY <1>1 DEF open
<1>4. \A j \in Instances : watch'[j] = watch[j] \/ watch'[j] = open
  BY <1>2 DEF TypeOK
<1> QED
  BY <1>3, <1>4 DEF WatchEffect, WatchReads

\* A won acquisition stores the token its own write issued.
LEMMA StoreEffect ==
  ASSUME TypeOK, TokenInv, NEW i \in Instances, NEW s \in AcqSlots,
         acq[i][s].pc \in AcqWon,
         token' = [token EXCEPT ![i] = acq[i][s].rev]
  PROVE  /\ token'[i] # NoToken
         /\ \A j \in Instances : j # i => token'[j] = token[j]
         /\ TokenEffect
<1>1. acq[i][s].rev # NoToken
  BY DEF TokenInv, IssuedTo, NoToken
<1>2. token'[i] = acq[i][s].rev /\ \A j \in Instances : j # i => token'[j] = token[j]
  BY DEF TypeOK
<1> QED
  BY <1>1, <1>2 DEF TokenEffect

\* The stores at the end of becomeLeader, with the heartbeat loop it starts.
LEMMA LeaderEffect ==
  ASSUME TypeOK, TokenInv, NEW i \in Instances, NEW s \in AcqSlots,
         acq[i][s].pc \in AcqWon, EnterTerm(i, acq[i][s].rev)
  PROVE  HbEffect /\ TokenEffect
<1>1. token' = [token EXCEPT ![i] = acq[i][s].rev]
  BY DEF EnterTerm
<1>2. /\ token'[i] # NoToken
      /\ \A j \in Instances : j # i => token'[j] = token[j]
      /\ TokenEffect
  BY <1>1, StoreEffect
<1>3. PICK h \in HbSlots : hb' = [hb EXCEPT ![i][h] = [FreeHb EXCEPT !.pc = "idle"]]
  BY DEF EnterTerm
<1>4. /\ hb'[i][h].pc = "idle"
      /\ \A j \in Instances : \A q \in HbSlots :
           j # i \/ q # h => hb'[j][q] = hb[j][q]
  BY <1>3 DEF TypeOK, FreeHb
<1>5. HbEffect
  <2> SUFFICES ASSUME NEW j \in Instances, NEW q \in HbSlots
               PROVE  HbSlotEffect(j, q)
    BY DEF HbEffect
  <2>1. CASE j = i
    BY <1>2, <1>4, <2>1 DEF HbSlotEffect
  <2>2. CASE j # i
    BY <1>2, <1>4, <2>2 DEF HbSlotEffect
  <2> QED
    BY <2>1, <2>2
<1> QED
  BY <1>2, <1>5

-----------------------------------------------------------------------------
(***************************************************************************)
(* Acquisition steps have the effects: a create or a takeover issues the   *)
(* token that becomeLeader will install.                                   *)
(***************************************************************************)
LEMMA StartEffects ==
  ASSUME IInv, NEW i \in Instances, Start(i)
  PROVE  Effects
<1>1. AcqEffect
  BY SpawnEffect DEF IInv, Start, AcqQuiet
<1> QED
  BY <1>1, Untouched DEF Start, Effects

\* A won Create or Update is remembered for becomeLeader.
LEMMA WinEffects ==
  ASSUME IInv, NEW i \in Instances, NEW s \in AcqSlots, Write(i, Rev + 1),
         NEW p \in AcqWon, AcqGotoWith(i, s, p, Rev + 1)
  PROVE  AcqEffect
<1> DEFINE g == [pc |-> p, kind |-> acq[i][s].kind,
                 retry |-> acq[i][s].retry, rev |-> Rev + 1]
<1>1. acq' = [acq EXCEPT ![i][s] = g]
  BY DEF AcqGotoWith
<1>2. acq'[i][s] = g
  <2> HIDE DEF g
  <2> QED
    BY <1>1, AcqOneSlot DEF IInv
<1>3. IssuedTo(i, acq[i][s].rev)'
  BY <1>2, WriteIssues DEF IInv, TypeOK, IssuedTo
<1>4. AcqSlotEffect(i, s)
  BY <1>2, <1>3 DEF AcqSlotEffect, AcqReads, AcqWon
<1> QED
  BY <1>1, <1>4, AcqOneSlot DEF IInv

\* An entry read by a goroutine is one of the key's history.
LEMMA ReadEffects ==
  ASSUME IInv, NEW i \in Instances, NEW s \in AcqSlots, alive,
         NEW p \in {"compare", "note"}, AcqGotoWith(i, s, p, Rev)
  PROVE  AcqEffect
<1> DEFINE g == [pc |-> p, kind |-> acq[i][s].kind,
                 retry |-> acq[i][s].retry, rev |-> Rev]
<1>1. acq' = [acq EXCEPT ![i][s] = g]
  BY DEF AcqGotoWith
<1>2. acq'[i][s] = g
  <2> HIDE DEF g
  <2> QED
    BY <1>1, AcqOneSlot DEF IInv
<1>3. AcqSlotEffect(i, s)
  BY <1>2 DEF AcqSlotEffect, AcqReads, AcqWon
<1> QED
  BY <1>1, <1>3, AcqOneSlot DEF IInv

\* A takeover's Update that succeeds is one the comparison allowed.
LEMMA UpdateDue ==
  ASSUME NEW i \in Instances, NEW s \in AcqSlots, acq[i][s].pc = "update",
         UpdateOk(i, Rev + 1, acq[i][s].rev)
  PROVE  KVEffect
BY DEF KVEffect, TakeoverDue, UpdateOk, CasHolds

\* Every acquisition step of attemptAcquire has the effects.
LEMMA AcqEffects ==
  ASSUME IInv, NEW i \in Instances, NEW s \in AcqSlots,
         AcqProgress(i, s)
  PROVE  Effects
<1> USE DEF IInv
<1>1. ASSUME KVEffect, AcqEffect, UNCHANGED <<token, hb, late, watch>>
      PROVE  Effects
  BY <1>1, Untouched DEF Effects
<1>2. CASE AcqWake(i, s)
  <2>1. AcqEffect
    BY <1>2, AcqMoves DEF AcqWake, AcqQuiet
  <2> QED
    BY <1>1, <1>2, <2>1, Untouched DEF AcqWake, atomVars, acqUnchanged
<1>3. CASE AcqCreateWins(i, s)
  <2>1. KVEffect
    BY <1>3 DEF AcqCreateWins, CreateOk, KVEffect
  <2>2. AcqEffect
    BY <1>3, WinEffects DEF AcqCreateWins, CreateOk, AcqWon
  <2> QED
    BY <1>1, <1>3, <2>1, <2>2 DEF AcqCreateWins, atomVars, acqUnchanged
<1>4. CASE AcqCreateFails(i, s)
  <2>1. KVEffect
    BY <1>4, Untouched DEF AcqCreateFails, CreateOk, KVEffect
  <2>2. AcqEffect
    BY <1>4, AcqMoves DEF AcqCreateFails, AfterCreateError, AcqQuiet
  <2> QED
    BY <1>1, <1>4, <2>1, <2>2 DEF AcqCreateFails, atomVars, acqUnchanged
<1>5. CASE AcqGet(i, s)
  <2>1. AcqEffect
    BY <1>5, AcqMoves, ReadEffects DEF AcqGet, AcqQuiet
  <2> QED
    BY <1>1, <1>5, <2>1, Untouched DEF AcqGet, atomVars, acqUnchanged
<1>6. CASE AcqCompare(i, s)
  <2>1. CASE Priority[i] <= Priority[log[acq[i][s].rev].id]
    <3>1. AcqEffect
      BY <1>6, <2>1, AcqMoves DEF AcqCompare, AcqQuiet
    <3> QED
      BY <1>1, <1>6, <3>1, Untouched DEF AcqCompare, acqUnchanged
  <2>2. CASE ~(Priority[i] <= Priority[log[acq[i][s].rev].id])
    <3> DEFINE g == [acq[i][s] EXCEPT !.pc = "update"]
    <3>1. acq' = [acq EXCEPT ![i][s] = g]
      BY <1>6, <2>2 DEF AcqCompare, AcqGoto, TypeOK
    <3>2. g.pc = "update" /\ g.rev = acq[i][s].rev
      BY DEF TypeOK, AcqRec
    <3>3. acq'[i][s].pc = "update" /\ acq'[i][s].rev = acq[i][s].rev
      BY <3>1, <3>2, AcqOneSlot
    <3>4. log[acq[i][s].rev].id \in Instances
      BY <1>6, LogEntry DEF TypeOK, ReadInv, AcqReads, AcqCompare
    <3>5. Outranks(i, acq[i][s].rev)
      BY <2>2, <3>4, PriorityAssumption DEF Outranks
    <3>6. AcqSlotEffect(i, s)
      BY <1>6, <3>3, <3>5 DEF AcqSlotEffect, AcqReads, AcqWon, AcqCompare
    <3> QED
      BY <1>1, <1>6, <3>1, <3>6, AcqOneSlot, Untouched DEF AcqCompare, acqUnchanged
  <2> QED
    BY <2>1, <2>2
<1>7. CASE AcqUpdateWins(i, s)
  <2>1. KVEffect
    BY <1>7, UpdateDue DEF AcqUpdateWins
  <2>2. AcqEffect
    BY <1>7, WinEffects DEF AcqUpdateWins, UpdateOk, AcqWon
  <2> QED
    BY <1>1, <1>7, <2>1, <2>2 DEF AcqUpdateWins, atomVars, acqUnchanged
<1>8. CASE AcqUpdateFails(i, s)
  <2>1. KVEffect
    BY <1>8, UpdateDue, Untouched DEF AcqUpdateFails
  <2>2. AcqEffect
    BY <1>8, AcqMoves DEF AcqUpdateFails, AcqQuiet
  <2> QED
    BY <1>1, <1>8, <2>1, <2>2 DEF AcqUpdateFails, atomVars, acqUnchanged
<1>9. CASE AcqPromote(i, s)
  <2>1. AcqEffect
    BY <1>9, AcqMoves DEF AcqPromote, AcqWon
  <2> QED
    BY <1>1, <1>9, <2>1, Untouched DEF AcqPromote, acqUnchanged
<1>14. CASE AcqEnter(i, s)
  <2>1. AcqEffect
    BY <1>14, AcqMoves DEF AcqEnter
  <2>2. HbEffect /\ TokenEffect
    BY <1>14, LeaderEffect DEF AcqEnter, AcqWon
  <2> QED
    BY <1>14, <2>1, <2>2, Untouched DEF AcqEnter, acqUnchanged, Effects
<1>15. CASE AcqStoreRev(i, s)
  <2>1. AcqEffect
    BY <1>15, AcqMoves DEF AcqStoreRev, AcqWon
  <2> QED
    BY <1>1, <1>15, <2>1, Untouched DEF AcqStoreRev, acqUnchanged
<1>16. CASE AcqStoreTok(i, s)
  <2>1. AcqEffect
    BY <1>16, AcqMoves DEF AcqStoreTok, AcqWon
  <2>2. /\ token'[i] # NoToken
        /\ \A j \in Instances : j # i => token'[j] = token[j]
        /\ TokenEffect
    BY <1>16, StoreEffect DEF AcqStoreTok, AcqWon
  <2>3. UNCHANGED hb
    BY <1>16 DEF AcqStoreTok
  <2>4. HbEffect
    BY <2>2, <2>3 DEF HbEffect, HbSlotEffect
  <2> QED
    BY <1>16, <2>1, <2>2, <2>4, Untouched DEF AcqStoreTok, acqUnchanged, Effects
<1>10. CASE AcqGiveUp(i, s)
  <2>1. AcqEffect /\ WatchEffect
    BY <1>10, AcqMoves, FollowerEffect DEF AcqGiveUp
  <2> QED
    BY <1>10, <2>1, Untouched DEF AcqGiveUp, acqUnchanged, Effects
<1>11. CASE AcqBackoff(i, s)
  <2> DEFINE g == [pc |-> "jitter", kind |-> acq[i][s].kind,
                   retry |-> acq[i][s].retry + 1, rev |-> 0]
  <2>1. g \in AcqRec /\ g.pc \in AcqQuiet
    BY DEF TypeOK, AcqRec, AcqPcs, AcqQuiet
  <2>2. AcqEnd(i, s) \/ acq' = [acq EXCEPT ![i][s] = g]
    BY <1>11 DEF AcqBackoff
  <2>3. AcqEffect
    BY <2>1, <2>2, AcqMoves
  <2> QED
    BY <1>1, <1>11, <2>3, Untouched DEF AcqBackoff, atomVars, acqUnchanged
<1>12. CASE AcqCheck(i, s)
  <2>1. AcqEffect
    <3>1. \/ AcqEnd(i, s)
          \/ AcqGoto(i, s, "jitter")
          \/ alive /\ AcqGotoWith(i, s, "note", Rev)
      BY <1>12 DEF AcqCheck, AcqEnd, AcqGoto, AcqGotoWith
    <3> QED
      BY <3>1, AcqMoves, ReadEffects DEF AcqQuiet
  <2> QED
    BY <1>1, <1>12, <2>1, Untouched DEF AcqCheck, watchUnchanged
<1>13. CASE AcqNote(i, s)
  <2>1. AcqEffect
    BY <1>13, AcqMoves DEF AcqNote, AcqEnd
  <2> QED
    BY <1>1, <1>13, <2>1, Untouched DEF AcqNote, watchUnchanged
<1> QED
  BY <1>2, <1>3, <1>4, <1>5, <1>6, <1>7, <1>8, <1>9, <1>10, <1>11, <1>12,
     <1>13, <1>14, <1>15, <1>16 DEF AcqProgress

(***************************************************************************)
(* Heartbeat steps have the effects: an Update, on time or late, carries   *)
(* the token that was the instance's when the loop loaded it.              *)
(***************************************************************************)
LEMMA RenewEffect ==
  ASSUME IInv, NEW i \in Instances, NEW t \in Nat, NEW r, IssuedTo(i, t),
         UpdateOk(i, t, r)
  PROVE  KVEffect
BY DEF KVEffect, UpdateOk, CasHolds

\* A request a loop stops waiting for carries the token it loaded.
LEMMA AbandonEffect ==
  ASSUME IInv, NEW i \in Instances, NEW h \in HbSlots, Abandon(i, h)
  PROVE  LateEffect
BY DEF Abandon, Request, LateEffect

\* Every step of heartbeatLoop has the effects.
LEMMA HbEffects ==
  ASSUME IInv, NEW i \in Instances, NEW h \in HbSlots,
         HbProgress(i, h) \/ HbUnhealthy(i, h) \/ HbLost(i, h)
  PROVE  Effects
<1>1. /\ TypeOK
      /\ hb[i][h] \in HbRec
      /\ hb[i][h].tok \in Nat
  BY DEF IInv, TypeOK, HbRec
<1>2. UpdateOk(i, hb[i][h].tok, hb[i][h].rev) /\ hb[i][h].pc = "wait" => KVEffect
  BY <1>1, RenewEffect DEF IInv, TokenInv
<1>3. ASSUME KVEffect, HbEffect, LateEffect, UNCHANGED <<token, acq, watch>>
      PROVE  Effects
  BY <1>3, Untouched DEF Effects
<1>4. CASE HbExit(i, h)
  <2>1. LateEffect
    BY <1>4, AbandonEffect DEF HbExit
  <2>2. HbEffect
    BY <1>1, <1>4, HbMoves DEF HbExit, atomVars
  <2> QED
    BY <1>3, <1>4, <2>1, <2>2, Untouched DEF HbExit, atomVars, hbUnchanged
<1>5. CASE HbTick(i, h)
  <2>1. HbEffect
    BY <1>1, <1>5, HbMoves DEF HbTick, atomVars, HbPcs
  <2> QED
    BY <1>3, <1>5, <2>1, Untouched DEF HbTick, atomVars, hbUnchanged
<1>13. CASE HbLoad(i, h)
  <2> DEFINE g == [hb[i][h] EXCEPT !.pc = "loaded", !.rev = revision[i]]
  <2>1. hb' = [hb EXCEPT ![i][h] = g]
    BY <1>1, <1>13 DEF TypeOK, HbLoad
  <2>2. g.pc # "wait"
    BY <1>1 DEF HbRec
  <2>3. hb[i][h].pc # "free" /\ UNCHANGED token
    BY <1>13 DEF HbLoad, atomVars
  <2> HIDE DEF g
  <2>4. HbEffect
    BY <1>1, <2>1, <2>2, <2>3, HbMoves
  <2> QED
    BY <1>3, <1>13, <2>4, Untouched DEF HbLoad, atomVars, hbUnchanged
<1>6. CASE HbSend(i, h)
  <2>1. /\ hb'[i][h].pc = "wait"
        /\ hb'[i][h].tok = token[i]
    BY <1>1, <1>6 DEF TypeOK, HbSend, HbRec
  <2>2. \A j \in Instances : \A q \in HbSlots :
          j # i \/ q # h => hb'[j][q] = hb[j][q]
    BY <1>1, <1>6 DEF TypeOK, HbSend
  <2>3. HbEffect
    BY <1>6, <2>1, <2>2 DEF HbEffect, HbSlotEffect, HbSend, atomVars
  <2> QED
    BY <1>3, <1>6, <2>3, Untouched DEF HbSend, atomVars, hbUnchanged
<1>7. CASE HbApplied(i, h)
  <2>1. hb'[i][h].pc = "ok"
    BY <1>1, <1>7 DEF TypeOK, HbApplied, HbRec
  <2>2. \A j \in Instances : \A q \in HbSlots :
          j # i \/ q # h => hb'[j][q] = hb[j][q]
    BY <1>1, <1>7 DEF TypeOK, HbApplied
  <2>3. HbEffect
    BY <1>7, <2>1, <2>2 DEF HbEffect, HbSlotEffect, HbApplied, atomVars
  <2>4. KVEffect
    BY <1>2, <1>7 DEF HbApplied
  <2> QED
    BY <1>3, <1>7, <2>3, <2>4, Untouched DEF HbApplied, atomVars, hbUnchanged
<1>8. CASE HbRejected(i, h)
  <2>1. HbEffect
    BY <1>1, <1>8, HbMoves, ConfigAssumption DEF HbRejected, atomVars, HbPcs
  <2> QED
    BY <1>3, <1>8, <2>1, Untouched DEF HbRejected, atomVars, hbUnchanged
<1>9. CASE HbOk(i, h)
  <2>1. [FreeHb EXCEPT !.pc = "idle"].pc = "idle"
    BY DEF FreeHb
  <2>2. HbEffect
    BY <1>1, <1>9, <2>1, HbMoves DEF HbOk
  <2> QED
    BY <1>3, <1>9, <2>2, Untouched DEF HbOk, hbUnchanged
<1>10. CASE HbFailure(i, h)
  <2>1. HbEffect
    <3> DEFINE g == [pc |-> "idle", rev |-> 0, tok |-> NoToken,
                     fails |-> hb[i][h].fails + 1]
    <3>1. g.pc # "wait"
      OBVIOUS
    <3>2. HbEnd(i, h) \/ hb' = [hb EXCEPT ![i][h] = g]
      BY <1>10 DEF HbFailure, HandleHeartbeatFailure
    <3>3. hb[i][h].pc # "free" /\ UNCHANGED token
      BY <1>10 DEF HbFailure
    <3> HIDE DEF g
    <3> QED
      BY <1>1, <3>1, <3>2, <3>3, HbMoves
  <2>2. WatchEffect
    BY <1>1, <1>10, FollowerEffect, Untouched
       DEF HbFailure, HandleHeartbeatFailure, roleVars
  <2> QED
    BY <1>10, <2>1, <2>2, Untouched DEF HbFailure, hbUnchanged, Effects
<1>11. CASE HbUnhealthy(i, h)
  <2>1. HbEffect
    BY <1>1, <1>11, HbMoves DEF HbUnhealthy, HandleHealthCheckFailure, HbPcs
  <2>2. WatchEffect
    BY <1>1, <1>11, FollowerEffect, Untouched
       DEF HbUnhealthy, HandleHealthCheckFailure, roleVars
  <2> QED
    BY <1>11, <2>1, <2>2, Untouched DEF HbUnhealthy, hbUnchanged, Effects
<1>12. CASE HbLost(i, h)
  <2>1. HbEffect
    BY <1>1, <1>12, HbMoves DEF HbLost, HbPcs, atomVars
  <2>2. KVEffect
    BY <1>2, <1>12, Untouched DEF HbLost
  <2>3. LateEffect
    BY <1>12, AbandonEffect, Untouched DEF HbLost
  <2> QED
    BY <1>3, <1>12, <2>1, <2>2, <2>3 DEF HbLost, atomVars, hbUnchanged
<1> QED
  BY <1>4, <1>5, <1>6, <1>7, <1>8, <1>9, <1>10, <1>11, <1>12, <1>13
     DEF HbProgress

\* A late Update has the effects of the heartbeat that sent it.
LEMMA LateEffects ==
  ASSUME IInv, NEW u \in late, LateUpdate(u)
  PROVE  Effects
<1>1. /\ u.id \in Instances
      /\ u.tok \in Nat
      /\ IssuedTo(u.id, u.tok)
  BY DEF IInv, TypeOK, UpdateReq, TokenInv
<1>2. KVEffect
  BY <1>1, RenewEffect, Untouched DEF LateUpdate
<1>3. LateEffect
  BY DEF LateEffect, LateUpdate
<1> QED
  BY <1>2, <1>3, Untouched DEF LateUpdate, atomVars, hbUnchanged, Effects

(***************************************************************************)
(* Validation, watch and stop steps have the effects.                      *)
(***************************************************************************)
LEMMA VlEffects ==
  ASSUME IInv, NEW i \in Instances, VlStep(i)
  PROVE  Effects
<1>1. UNCHANGED vlUnchanged
  BY DEF VlStep, VlProgress, ValidateTokenOrDemote, VlExit, VlTick, VlValid,
         VlInvalid, VlDemote
<1>2. UNCHANGED watch \/ BecomeFollower(i)
  BY DEF VlStep, VlProgress, ValidateTokenOrDemote, VlExit, VlTick, VlValid,
         VlInvalid, VlDemote, HandleValidationFailure, roleVars
<1>3. WatchEffect
  BY <1>2, FollowerEffect, Untouched DEF IInv
<1> QED
  BY <1>1, <1>3, Untouched DEF vlUnchanged, Effects

\* Every step of watchLoop has the effects.
LEMMA WatchEffects ==
  ASSUME IInv, NEW i \in Instances, WatchStep(i)
  PROVE  Effects
<1>1. /\ TypeOK
      /\ watch \in [Instances -> WatchRec]
      /\ watch[i] \in WatchRec
      /\ Rev \in Nat
      /\ alive => Rev > 0
  BY DEF IInv, TypeOK, KVTypeOK, Rev, ReadInv
<1>2. UNCHANGED watchUnchanged
  BY DEF WatchStep, WatchProgress, WatchOpen, WatchEvent, WatchFollow,
         WatchDemote, WatchNil, WatchTick, WatchGet, WatchStore, WatchClosed,
         WatchCancelled, WatchExit
<1>3. AcqEffect
  <2>1. \/ UNCHANGED acq
        \/ \E k \in {"retry", "takeover"} : \E p \in AcqQuiet : SpawnAcquire(i, k, p)
    BY DEF WatchStep, WatchProgress, WatchOpen, WatchEvent, WatchFollow,
           WatchDemote, WatchNil, WatchTick, WatchGet, WatchStore, WatchClosed,
           WatchCancelled, WatchExit, AcqQuiet
  <2> QED
    BY <1>1, <2>1, SpawnEffect, Untouched
<1>4. ASSUME NEW x, watch' = [watch EXCEPT ![i] = x],
             x.pc \in WatchReads =>
               \/ watch[i].pc \in WatchReads /\ x.ev = watch[i].ev
               \/ x.ev \in 1..Rev
      PROVE  WatchEffect
  <2>1. watch'[i] = x
    BY <1>1, <1>4
  <2>2. \A j \in Instances : j # i => watch'[j] = watch[j]
    BY <1>1, <1>4
  <2> QED
    BY <1>4, <2>1, <2>2 DEF WatchEffect
<1>5. ASSUME NEW p, NEW e, WatchGoto(i, p, e), p \in WatchReads => e \in 1..Rev
      PROVE  WatchEffect
  <2>1. watch'[i].pc = p /\ watch'[i].ev = e
    BY <1>1, <1>5 DEF WatchGoto, WatchRec
  <2>2. \A j \in Instances : j # i => watch'[j] = watch[j]
    BY <1>1, <1>5 DEF WatchGoto
  <2> QED
    BY <1>5, <2>1, <2>2 DEF WatchEffect
<1>6. CASE WatchOpen(i)
  <2> DEFINE x == [pc |-> "idle", ev |-> 0, nil |-> TRUE,
                   seen |-> IF alive THEN Rev - 1 ELSE Rev]
  <2>1. x.pc \notin WatchReads
    BY DEF WatchReads
  <2>2. watch' = [watch EXCEPT ![i] = x] \/ WatchGoto(i, "exit", 0)
    BY <1>6 DEF WatchOpen
  <2> HIDE DEF x
  <2> QED
    BY <1>2, <1>3, <1>4, <1>5, <2>1, <2>2, Untouched
       DEF WatchReads, watchUnchanged, Effects
<1>7. ASSUME NEW r \in 1..Rev, WatchEvent(i, r)
      PROVE  Effects
  <2> DEFINE own == isLeader[i] /\ log[r].id = i
             x == [pc |-> IF own THEN "idle"
                            ELSE IF isLeader[i] THEN "demote" ELSE "follow",
                   ev |-> IF own THEN 0 ELSE r,
                   seen |-> r,
                   nil |-> watch[i].nil]
  <2>1. x.pc \in WatchReads => x.ev \in 1..Rev
    BY DEF WatchReads
  <2>2. watch' = [watch EXCEPT ![i] = x]
    BY <1>7 DEF WatchEvent
  <2> HIDE DEF x
  <2> QED
    BY <1>2, <1>3, <1>4, <2>1, <2>2, Untouched DEF watchUnchanged, Effects
<1>8. CASE \/ WatchFollow(i) \/ WatchDemote(i) \/ WatchTick(i) \/ WatchStore(i)
           \/ WatchClosed(i) \/ WatchCancelled(i)
  <2>1. \E p \in {"idle", "get", "exit"} : WatchGoto(i, p, 0)
    BY <1>8 DEF WatchFollow, WatchDemote, WatchTick, WatchStore, WatchClosed,
                WatchCancelled
  <2> QED
    BY <1>2, <1>3, <1>5, <2>1, Untouched DEF WatchReads, watchUnchanged, Effects
<1>9. CASE WatchGet(i)
  <2>1. WatchGoto(i, "idle", 0) \/ (alive /\ WatchGoto(i, "store", Rev))
    BY <1>9 DEF WatchGet
  <2>2. WatchEffect
    BY <1>1, <1>5, <2>1 DEF WatchReads
  <2> QED
    BY <1>2, <1>3, <2>2, Untouched DEF watchUnchanged, Effects
<1>10. CASE WatchNil(i)
  <2>1. watch'[i].pc = watch[i].pc /\ watch'[i].ev = watch[i].ev
    BY <1>1, <1>10 DEF WatchNil, WatchRec
  <2>2. \A j \in Instances : j # i => watch'[j] = watch[j]
    BY <1>1, <1>10 DEF WatchNil
  <2> QED
    BY <1>2, <1>3, <2>1, <2>2, Untouched DEF WatchEffect, watchUnchanged, Effects
<1>11. CASE WatchExit(i)
  <2>1. WatchOff.pc \notin WatchReads
    BY DEF WatchOff, WatchReads
  <2> QED
    BY <1>2, <1>3, <1>4, <1>11, <2>1, Untouched
       DEF WatchExit, watchUnchanged, Effects
<1> QED
  BY <1>6, <1>7, <1>8, <1>9, <1>10, <1>11 DEF WatchStep, WatchProgress

\* Every step of Stop, StopWithContext and of a death has the effects.
LEMMA StopEffects ==
  ASSUME IInv, NEW i \in Instances, StopStep(i)
  PROVE  Effects
<1>1. CASE \/ Stop(i) \/ StopWithContext(i) \/ StopReturn(i) \/ StopDrained(i)
           \/ StopClear(i) \/ StopTimeout(i) \/ CancelContext(i)
  <2>1. UNCHANGED <<kvVars, token, acq, hb, late, watch>>
    BY <1>1 DEF Stop, StopWithContext, StopCritical, StopReturn, StopDrained,
                StopClear, StopTimeout, CancelContext, StopUnchanged, atomVars
  <2> QED
    BY <2>1, Untouched DEF Effects
<1>2. CASE StopDelete(i)
  <2>1. KVEffect
    BY <1>2 DEF StopDelete, DeleteKey, KVEffect, kvVars
  <2>2. \A j \in Instances : watch'[j].pc = watch[j].pc /\ watch'[j].ev = watch[j].ev
    BY <1>2 DEF IInv, TypeOK, WatchRec, StopDelete
  <2> QED
    BY <1>2, <2>1, <2>2, Untouched
       DEF WatchEffect, StopDelete, StopUnchanged, atomVars, Effects
<1>3. CASE Crash(i) \/ Panic(i)
  <2>1. ProcessDies(i)
    BY <1>3 DEF Crash, Panic
  <2> QED
    BY <2>1, DiesEffect, Untouched DEF IInv, ProcessDies, Effects
<1> QED
  BY <1>1, <1>2, <1>3 DEF StopStep, StopProgress

\* The demotion at the end of the grace period has the effects.
LEMMA GraceEffects ==
  ASSUME IInv, NEW i \in Instances, GracePeriodDemotes(i)
  PROVE  Effects
<1>1. BecomeFollower(i) /\ UNCHANGED <<kvVars, token, acq, hb, late>>
  BY DEF GracePeriodDemotes
<1>2. WatchEffect
  BY <1>1, FollowerEffect DEF IInv
<1> QED
  BY <1>1, <1>2, Untouched DEF Effects

\* Every step of the group has the effects.
LEMMA NextEffects ==
  ASSUME IInv, [Next]_vars
  PROVE  Effects
<1>1. CASE UNCHANGED vars
  BY <1>1, Untouched DEF vars, kvVars, Effects
<1>2. CASE Expire
  <2>1. KVEffect
    BY <1>2 DEF Expire, ExpireKey, KVEffect
  <2> QED
    BY <1>2, <2>1, Untouched DEF Expire, atomVars, Effects
<1>3. ASSUME NEW i \in Instances, AcqStep(i)
      PROVE  Effects
  BY <1>3, AcqEffects DEF AcqStep
<1>4. ASSUME NEW i \in Instances, HbStep(i)
      PROVE  Effects
  BY <1>4, HbEffects DEF HbStep
<1> QED
  BY <1>1, <1>2, <1>3, <1>4, StartEffects, VlEffects, WatchEffects, StopEffects,
     LateEffects, GraceEffects DEF Next, BoundReached

-----------------------------------------------------------------------------
(***************************************************************************)
(* The inductive invariant holds initially and is preserved by the         *)
(* effects.                                                                *)
(***************************************************************************)
LEMMA InvInit == Init => IInv
<1> SUFFICES ASSUME Init PROVE IInv
  OBVIOUS
<1>1. Rev = 0 /\ ~alive
  BY DEF Init, ElectionInit, KVInit, Rev
<1>2. ASSUME NEW i \in Instances
      PROVE  /\ token[i] = NoToken
             /\ \A s \in AcqSlots : acq[i][s].pc = "free"
             /\ \A h \in HbSlots : hb[i][h].pc = "free"
             /\ watch[i].pc = "off"
  BY DEF Init, ElectionInit, FreeAcq, FreeHb, WatchOff
<1>3. late = {}
  BY DEF Init, ElectionInit
<1>4. ReadInv
  BY <1>1, <1>2 DEF ReadInv, AcqReads, WatchReads
<1>5. TokenInv
  BY <1>1, <1>2, <1>3 DEF TokenInv, AcqWon
<1>6. CompareInv
  BY <1>2 DEF CompareInv
<1> QED
  BY <1>4, <1>5, <1>6, TypeInit DEF IInv

\* The effects preserve the validity of revisions read.
LEMMA ReadPreserved ==
  ASSUME IInv, Effects
  PROVE  ReadInv'
<1>1. KVTypeOK /\ ReadInv
  BY DEF IInv, TypeOK
<1>2. /\ Rev \in Nat /\ Rev' \in Nat /\ Rev' >= Rev
      /\ alive' => alive \/ Rev' > 0
  BY <1>1, LogGrows DEF Effects
<1>3. alive' => Rev' > 0
  BY <1>1, <1>2 DEF ReadInv
<1>4. ASSUME NEW i \in Instances, NEW s \in AcqSlots, acq'[i][s].pc \in AcqReads
      PROVE  acq'[i][s].rev \in 1..Rev'
  <2>1. AcqSlotEffect(i, s)
    BY DEF Effects, AcqEffect
  <2> QED
    BY <1>1, <1>2, <1>4, <2>1 DEF AcqSlotEffect, ReadInv
<1>5. ASSUME NEW i \in Instances, watch'[i].pc \in WatchReads
      PROVE  watch'[i].ev \in 1..Rev'
  BY <1>1, <1>2, <1>5 DEF Effects, WatchEffect, ReadInv
<1> QED
  BY <1>3, <1>4, <1>5 DEF ReadInv, AcqReads, WatchReads

\* The effects preserve the ownership of tokens.
LEMMA TokenPreserved ==
  ASSUME IInv, Effects
  PROVE  TokenInv'
<1>1. KVTypeOK /\ TokenInv /\ KVEffect
  BY DEF IInv, TypeOK, Effects
<1>2. ASSUME NEW i, NEW t, IssuedTo(i, t)
      PROVE  t \in 1..Rev' /\ log'[t].id = i /\ log'[t].token = t
  BY <1>1, <1>2, IssuedStays
<1>3. ASSUME NEW r \in 1..Rev'
      PROVE  IssuedTo(log[r].id, log[r].token)'
  <2>1. CASE r \in 1..Rev
    <3>1. log'[r] = log[r]
      BY <1>1, <2>1, LogGrows
    <3>2. IssuedTo(log[r].id, log[r].token)
      BY <1>1, <2>1 DEF TokenInv
    <3> QED
      BY <1>2, <3>1, <3>2 DEF IssuedTo
  <2>2. ASSUME r \notin 1..Rev, NEW i \in Instances, NEW t \in Nat, Write(i, t),
               t = Rev + 1 \/ IssuedTo(i, t)
        PROVE  IssuedTo(log[r].id, log[r].token)'
    <3>1. Rev \in Nat /\ Rev' = Rev + 1 /\ log'[Rev + 1].id = i
          /\ log'[Rev + 1].token = t
      BY <1>1, <2>2, WriteAppends
    <3>2. r = Rev + 1
      BY <2>2, <3>1
    <3>3. CASE t = Rev + 1
      BY <3>1, <3>2, <3>3 DEF IssuedTo
    <3>4. CASE IssuedTo(i, t)
      BY <1>2, <3>1, <3>2, <3>4 DEF IssuedTo
    <3> QED
      BY <2>2, <3>3, <3>4
  <2>3. CASE log' = log
    BY <1>1, <2>1, <2>3 DEF Rev
  <2>4. Rev + 1 \in Nat
    BY <1>1, LogGrows
  <2> QED
    BY <1>1, <2>1, <2>2, <2>3, <2>4 DEF KVEffect
<1>4. ASSUME NEW i \in Instances, token'[i] # NoToken
      PROVE  IssuedTo(i, token[i])'
  <2>1. \E t : IssuedTo(i, t) /\ token'[i] = t
    BY <1>1, <1>4 DEF Effects, TokenEffect, TokenInv
  <2> QED
    BY <1>2, <2>1 DEF IssuedTo
<1>5. ASSUME NEW i \in Instances, NEW s \in AcqSlots, acq'[i][s].pc \in AcqWon
      PROVE  IssuedTo(i, acq[i][s].rev)'
  <2>1. AcqSlotEffect(i, s)
    BY DEF Effects, AcqEffect
  <2>2. CASE acq[i][s].pc \in AcqWon /\ acq'[i][s].rev = acq[i][s].rev
    <3>1. IssuedTo(i, acq[i][s].rev)
      BY <1>1, <2>2 DEF TokenInv
    <3> QED
      BY <1>2, <2>2, <3>1 DEF IssuedTo
  <2> QED
    BY <1>5, <2>1, <2>2 DEF AcqSlotEffect
<1>6. ASSUME NEW i \in Instances, NEW h \in HbSlots
      PROVE  /\ hb'[i][h].pc # "free" => token'[i] # NoToken
             /\ hb'[i][h].pc = "wait" => IssuedTo(i, hb[i][h].tok)'
  <2>1. HbSlotEffect(i, h)
    BY DEF Effects, HbEffect
  <2>2. hb'[i][h].pc # "free" => token'[i] # NoToken
    BY <1>1, <2>1 DEF HbSlotEffect, TokenInv
  <2>3. ASSUME hb'[i][h].pc = "wait"
        PROVE  IssuedTo(i, hb[i][h].tok)'
    <3>1. IssuedTo(i, hb'[i][h].tok)
      BY <1>1, <2>1, <2>3 DEF HbSlotEffect, TokenInv
    <3> QED
      BY <1>2, <3>1 DEF IssuedTo
  <2> QED
    BY <2>2, <2>3
<1>7. ASSUME NEW u \in late'
      PROVE  IssuedTo(u.id, u.tok)'
  <2>1. IssuedTo(u.id, u.tok)
    BY <1>1, <1>7 DEF Effects, LateEffect, TokenInv
  <2> QED
    BY <1>2, <2>1 DEF IssuedTo
<1> QED
  BY <1>3, <1>4, <1>5, <1>6, <1>7 DEF TokenInv, NoToken, AcqWon

\* The effects preserve the outcome of priority comparisons.
LEMMA ComparePreserved ==
  ASSUME IInv, Effects
  PROVE  CompareInv'
<1> SUFFICES ASSUME NEW i \in Instances, NEW s \in AcqSlots,
                    acq'[i][s].pc = "update"
             PROVE  Outranks(i, acq[i][s].rev)'
  BY DEF CompareInv
<1>1. AcqSlotEffect(i, s)
  BY DEF Effects, AcqEffect
<1>2. /\ acq[i][s].pc \in AcqReads
      /\ acq'[i][s].rev = acq[i][s].rev
      /\ Outranks(i, acq[i][s].rev)
  BY <1>1 DEF AcqSlotEffect, IInv, CompareInv
<1>3. acq[i][s].rev \in 1..Rev
  BY <1>2 DEF IInv, ReadInv
<1>4. log'[acq[i][s].rev] = log[acq[i][s].rev]
  BY <1>3, LogGrows DEF IInv, TypeOK, Effects
<1> QED
  BY <1>2, <1>4 DEF Outranks

\* Every step preserves the inductive invariant.
LEMMA InvNext == IInv /\ [Next]_vars => IInv'
<1> SUFFICES ASSUME IInv, [Next]_vars PROVE IInv'
  OBVIOUS
<1>1. Effects
  BY NextEffects
<1>2. TypeOK'
  BY NextType DEF IInv
<1> QED
  BY <1>1, <1>2, ReadPreserved, TokenPreserved, ComparePreserved DEF IInv

\* The inductive invariant holds in every reachable state.
LEMMA InvHolds == Spec => []IInv
BY InvInit, InvNext, PTL DEF Spec

-----------------------------------------------------------------------------
(***************************************************************************)
(* No handler of kv_election.go, heartbeat.go, watcher.go or fencing.go    *)
(* leaves an atomic, a goroutine or the key outside its type; in           *)
(* particular the revision a goroutine has read is always one of the key's *)
(* history, and the watch position never runs below zero.                  *)
(***************************************************************************)
THEOREM TypeCorrect == Spec => []TypeOK
<1>1. IInv => TypeOK
  BY DEF IInv
<1> QED
  BY <1>1, InvHolds, PTL

(***************************************************************************)
(* A fencing token, as attemptAcquire and attemptPriorityTakeover make it  *)
(* and heartbeats carry it on, identifies one instance for ever, whatever  *)
(* late Updates, crashes, expiries and preemptions happen.                 *)
(***************************************************************************)
THEOREM FencingTokenSafe == Spec => []FencingTokenExclusive
<1>1. ASSUME IInv
      PROVE  FencingTokenExclusive
  <2>1. TokenInv /\ ReadInv /\ KVTypeOK
    BY <1>1 DEF IInv, TypeOK
  <2>2. ASSUME NEW i \in Instances, NEW j \in Instances,
               token[i] = token[j], token[i] # NoToken
        PROVE  i = j
    BY <2>1, <2>2 DEF TokenInv, IssuedTo
  <2>3. ASSUME alive, NEW i \in Instances, log[Rev].token = token[i]
        PROVE  log[Rev].id = i
    <3>1. Rev \in 1..Rev
      BY <2>1, <2>3 DEF ReadInv, KVTypeOK, Rev
    <3>2. IssuedTo(log[Rev].id, log[Rev].token)
      BY <2>1, <3>1 DEF TokenInv
    <3>3. token[i] # NoToken
      BY <2>3, <3>2 DEF IssuedTo, NoToken
    <3> QED
      BY <2>1, <2>3, <3>2, <3>3 DEF TokenInv, IssuedTo
  <2> QED
    BY <2>2, <2>3 DEF FencingTokenExclusive
<1> QED
  BY <1>1, InvHolds, PTL

(***************************************************************************)
(* attemptPriorityTakeover, whose comparison and compare-and-swap are two  *)
(* steps apart, replaces only entries of a strictly lower priority; no     *)
(* other write to an existing key carries a new token.                     *)
(***************************************************************************)
THEOREM TakeoverSafe == Spec => TakeoverOnlyStrictlyHigher
<1>1. ASSUME IInv, [Next]_vars
      PROVE  [TakeoverStep]_vars
  <2> SUFFICES ASSUME alive, Len(log') = Rev + 1, log'[Rev + 1].token = Rev + 1
               PROVE  Priority[log'[Rev + 1].id] > Priority[log[Rev].id]
    BY DEF TakeoverStep
  <2>1. KVTypeOK /\ KVEffect /\ Rev \in Nat /\ Rev + 1 \in Nat
    BY <1>1, NextEffects DEF IInv, TypeOK, Effects, KVTypeOK, Rev
  <2>2. log' # log
    BY <2>1 DEF Rev
  <2>3. ASSUME NEW i \in Instances, TakeoverDue(i), Write(i, Rev + 1)
        PROVE  Priority[log'[Rev + 1].id] > Priority[log[Rev].id]
    <3>1. Outranks(i, Rev)
      BY <1>1, <2>3 DEF IInv, CompareInv, TakeoverDue
    <3>2. log'[Rev + 1].id = i
      BY <2>1, <2>3, WriteAppends
    <3> QED
      BY <3>1, <3>2 DEF Outranks
  <2>4. ASSUME NEW i \in Instances, NEW t \in Nat, IssuedTo(i, t), Write(i, t)
        PROVE  FALSE
    <3>1. log'[Rev + 1].token = t
      BY <2>1, <2>4, WriteAppends
    <3> QED
      BY <2>1, <2>4, <3>1 DEF IssuedTo
  <2> QED
    BY <2>1, <2>2, <2>3, <2>4 DEF KVEffect
<1> QED
  BY <1>1, InvHolds, PTL DEF Spec, TakeoverOnlyStrictlyHigher

-----------------------------------------------------------------------------
\* A write with a fresh token grants a lease that was never issued before.
LEMMA GrantStep ==
  ASSUME IInv, NEW i \in Instances, Write(i, Rev + 1)
  PROVE  /\ Rev + 1 \in 1..MaxRev
         /\ Lease!Grant(i, Rev + 1)
<1>1. /\ KVTypeOK /\ TokenInv
      /\ Rev \in Nat /\ Rev + 1 \in Nat
  BY DEF IInv, TypeOK, KVTypeOK, Rev
<1>2. Rev + 1 \in 1..MaxRev
  BY <1>1, MaxRevAssumption DEF Write
<1>3. /\ Rev' = Rev + 1
      /\ log'[Rev + 1] = [id |-> i, token |-> Rev + 1]
      /\ \A r \in 1..Rev : log'[r] = log[r]
      /\ alive'
  BY <1>1 DEF Write, KVTypeOK, Rev
<1>4. \A l \in LeaseIssued : l.token # Rev + 1
  BY <1>1 DEF LeaseIssued, TokenInv, IssuedTo
<1>5. LeaseHolder' = [id |-> i, token |-> Rev + 1]
  BY <1>3 DEF LeaseHolder
<1>6. LeaseIssued' = LeaseIssued \cup {[id |-> i, token |-> Rev + 1]}
  BY <1>1, <1>3 DEF LeaseIssued
<1> QED
  BY <1>2, <1>4, <1>5, <1>6 DEF Lease!Grant

(***************************************************************************)
(* The key, with everything the instances do to it, implements the fenced  *)
(* lease: kv.Create is Acquire, a takeover's kv.Update is Preempt, expiry  *)
(* and kv.Delete are Lapse, and a heartbeat's kv.Update, on time or late,  *)
(* reinstates a lease that was granted before.                             *)
(***************************************************************************)
THEOREM LeaseImplemented == Spec => LeaseRefined
<1>1. Init => Lease!Init
  BY DEF Init, ElectionInit, KVInit, Lease!Init, LeaseHolder, LeaseIssued, Rev
<1>2. ASSUME IInv, [Next]_vars
      PROVE  [Lease!Next]_<<LeaseHolder, LeaseIssued>>
  <2>1. /\ KVTypeOK /\ TokenInv /\ ReadInv /\ KVEffect
        /\ Rev \in Nat
        /\ alive \in BOOLEAN /\ alive' \in BOOLEAN
    BY <1>2, NextEffects, NextType DEF IInv, TypeOK, Effects, KVTypeOK, Rev
  <2>2. alive => /\ Rev \in 1..Rev
                 /\ log[Rev] \in Payload
                 /\ log[Rev].id \in Instances
                 /\ LeaseHolder = log[Rev]
                 /\ LeaseHolder # NoInstance
    <3>1. alive => Rev \in 1..Rev
      BY <2>1 DEF ReadInv
    <3> QED
      BY <2>1, <3>1, LogEntry, NoInstanceAssumption DEF LeaseHolder
  <2>3. CASE log' = log /\ (alive' => alive)
    <3>1. LeaseIssued' = LeaseIssued
      BY <2>3 DEF LeaseIssued, Rev
    <3>2. CASE alive' = alive
      <4>1. LeaseHolder' = LeaseHolder
        BY <2>3, <3>2 DEF LeaseHolder, Rev
      <4> QED
        BY <3>1, <4>1
    <3>3. CASE alive /\ ~alive'
      BY <2>2, <3>1, <3>3 DEF LeaseHolder, Lease!Next, Lease!Lapse
    <3> QED
      BY <2>1, <2>3, <3>2, <3>3
  <2>4. ASSUME ~alive, NEW i \in Instances, Write(i, Rev + 1)
        PROVE  Lease!Next
    <3>1. Lease!Acquire(i, Rev + 1)
      BY <1>2, <2>4, GrantStep DEF Lease!Acquire, LeaseHolder
    <3> QED
      BY <1>2, <2>4, <3>1, GrantStep DEF Lease!Next
  <2>5. ASSUME alive, NEW i \in Instances, TakeoverDue(i), Write(i, Rev + 1)
        PROVE  Lease!Next
    <3>1. Outranks(i, Rev)
      BY <1>2, <2>5 DEF IInv, CompareInv, TakeoverDue
    <3>2. Lease!Preempt(i, Rev + 1)
      BY <1>2, <2>2, <2>5, <3>1, GrantStep DEF Lease!Preempt, Outranks
    <3> QED
      BY <1>2, <2>5, <3>2, GrantStep DEF Lease!Next
  <2>6. ASSUME alive, NEW i \in Instances, NEW t \in Nat, IssuedTo(i, t),
               Write(i, t)
        PROVE  Lease!Next
    <3>1. log[t] \in Payload /\ log[t].id = i /\ log[t].token = t /\ t \in 1..Rev
      BY <2>1, <2>6, LogEntry DEF IssuedTo
    <3>2. log[t] = [id |-> i, token |-> t]
      BY <3>1 DEF Payload
    <3>3. /\ Rev' = Rev + 1
          /\ log'[Rev + 1] = log[t]
          /\ \A r \in 1..Rev : log'[r] = log[r]
          /\ alive'
      BY <2>1, <2>6, <3>2 DEF Write, KVTypeOK, Rev
    <3>4. log[t] \in LeaseIssued
      BY <3>1 DEF LeaseIssued
    <3>5. LeaseHolder' = log[t]
      BY <3>3 DEF LeaseHolder
    <3>6. LeaseIssued' = LeaseIssued
      BY <2>1, <3>1, <3>3 DEF LeaseIssued
    <3>7. Lease!Reinstate(log[t])
      BY <2>2, <2>6, <3>5, <3>6 DEF Lease!Reinstate
    <3> QED
      BY <3>4, <3>7 DEF Lease!Next
  <2> QED
    BY <2>1, <2>3, <2>4, <2>5, <2>6 DEF KVEffect
<1> QED
  BY <1>1, <1>2, InvHolds, PTL DEF Spec, LeaseRefined, Lease!Spec

=============================================================================
