---------------------------- MODULE ElectionState ----------------------------
(***************************************************************************)
(* The state of every kvElection object and of its goroutines, and the     *)
(* two critical sections under e.mu that all handlers share: becomeLeader  *)
(* and becomeFollower (leader/kv_election.go).                             *)
(*                                                                         *)
(* The fields isLeader, leaderID, token, revision and state are atomics    *)
(* that goroutines read and write without e.mu; a goroutine's step is      *)
(* therefore split wherever it performs a KV call or reads an atomic that  *)
(* it uses later.  Goroutines live in numbered slots; the number of slots  *)
(* bounds how many of a kind an instance runs at once.                     *)
(***************************************************************************)
EXTENDS KVBucket

CONSTANTS
  NoInstance,     \* the empty InstanceID ""
  AcqSlots,       \* goroutines running attemptAcquire / attemptAcquireWithRetry
  HbSlots,        \* goroutines running heartbeatLoop
  VlSlots,        \* goroutines running validateToken
  MaxRetries,     \* maxRetries in attemptAcquireWithRetry
  MaxFailures,    \* maxFailures in heartbeatLoop
  MaxInvalid,     \* maxFailures in validationLoop
  MaxHealthFailures, \* cfg.MaxConsecutiveFailures
  CasErrorClass,  \* IsPermanentError of a failed Update: "permanent" for
                  \* "revision mismatch", "transient" for any other wording
  Takeover,       \* instances with AllowPriorityTakeover (and Priority > 0)
  HealthChecked,  \* instances with a HealthChecker
  Validated,      \* instances whose validation ticker fires within the run
  Stoppable,      \* instances on which the application calls Stop
  Cancellable,    \* instances whose application cancels the ctx of Start
  Crashable,      \* instances whose process may be killed
  Monitored,      \* instances with a connectionMonitor
  Faults          \* Faults[k]: the instances that may meet fault k

(***************************************************************************)
(* failCreate, failUpdate, failGet, failDelete, failWatch: the KV call     *)
(* returns an error although the server would not; lostAck: the server     *)
(* applies the write and the caller gets an error; timeout: the caller     *)
(* stops waiting; stopTimeout: Stop stops waiting; expire: TTL expiry.     *)
(***************************************************************************)
FaultKinds == {"failCreate", "failUpdate", "failGet", "failDelete", "failWatch",
               "lostAck", "timeout", "stopTimeout", "expire"}

ASSUME NoInstanceAssumption == NoInstance \notin Instances \cup Payload
ASSUME SlotsAssumption ==
  /\ AcqSlots \subseteq Nat
  /\ HbSlots \subseteq Nat
  /\ VlSlots \subseteq Nat
ASSUME ThresholdsAssumption ==
  /\ MaxRetries \in Nat
  /\ MaxFailures \in Nat \ {0}
  /\ MaxInvalid \in Nat \ {0}
  /\ MaxHealthFailures \in Nat \ {0}
ASSUME ConfigAssumption ==
  /\ CasErrorClass \in {"permanent", "transient"}
  /\ Takeover \subseteq {i \in Instances : Priority[i] > 0}
  /\ HealthChecked \subseteq Instances
  /\ Validated \subseteq Instances
  /\ Stoppable \subseteq Instances
  /\ Cancellable \subseteq Instances
  /\ Crashable \subseteq Instances
  /\ Monitored \subseteq Instances
  /\ Faults \in [FaultKinds -> SUBSET Instances]

VARIABLES
  isLeader, leaderID, token, revision, state,   \* the atomics
  healthFailureCount,
  ctx,             \* e.ctx: "nil", "live" or "done" (cancelled)
  watcherRunning,
  acq,             \* acquisition goroutines
  hb,              \* heartbeat loops
  late,            \* heartbeat Updates whose loop gave up waiting
  vl,              \* token validations: background loops and API calls
  watch,           \* the watch loop
  stop             \* a Stop or StopWithContext call in progress

atomVars == <<isLeader, leaderID, token, revision, state>>
roleVars == <<isLeader, state, watcherRunning, watch>>
vars == <<log, alive, isLeader, leaderID, token, revision, state,
          healthFailureCount, ctx, watcherRunning, acq, hb, late, vl, watch,
          stop>>

-----------------------------------------------------------------------------
NoToken == 0

FreeAcq == [pc |-> "free", kind |-> "start", retry |-> 0, rev |-> 0]
FreeHb == [pc |-> "free", rev |-> 0, tok |-> NoToken, fails |-> 0]
FreeVl == [pc |-> "free", kind |-> "loop", tok |-> NoToken, fails |-> 0]
WatchOff == [pc |-> "off", ev |-> 0, seen |-> 0, nil |-> FALSE]
NotStopping == [pc |-> "none", wasLeader |-> FALSE]

AcqPcs == {"free", "jitter", "check", "note", "create", "get", "compare",
           "update", "storeRev", "storeTok", "promote", "enter", "failed"}
HbPcs == {"free", "idle", "ticked", "loaded", "wait", "ok", "permanent",
          "transient"}
VlPcs == {"free", "idle", "get", "invalid"}
WatchPcs == {"off", "open", "idle", "follow", "demote", "get", "store", "exit"}
StopPcs == {"none", "wait", "drain", "drained", "delete", "done"}
States == {"INIT", "CANDIDATE", "LEADER", "FOLLOWER", "STOPPED"}

AcqRec == [pc : AcqPcs, kind : {"start", "retry", "takeover"},
           retry : Nat, rev : Nat]
HbRec == [pc : HbPcs, rev : Nat, tok : Nat, fails : Nat]
VlRec == [pc : VlPcs, kind : {"loop", "api"}, tok : Nat, fails : Nat]
WatchRec == [pc : WatchPcs, ev : Nat, seen : Nat, nil : BOOLEAN]
StopRec == [pc : StopPcs, wasLeader : BOOLEAN]
UpdateReq == [id : Instances, tok : Nat, rev : Nat]

(***************************************************************************)
(* The types of the kvElection fields and of its goroutines' local state.  *)
(***************************************************************************)
TypeOK ==
  /\ KVTypeOK
  /\ isLeader \in [Instances -> BOOLEAN]
  /\ leaderID \in [Instances -> Instances \cup {NoInstance}]
  /\ token \in [Instances -> Nat]
  /\ revision \in [Instances -> Nat]
  /\ state \in [Instances -> States]
  /\ healthFailureCount \in [Instances -> Nat]
  /\ ctx \in [Instances -> {"nil", "live", "done"}]
  /\ watcherRunning \in [Instances -> BOOLEAN]
  /\ acq \in [Instances -> [AcqSlots -> AcqRec]]
  /\ hb \in [Instances -> [HbSlots -> HbRec]]
  /\ late \subseteq UpdateReq
  /\ vl \in [Instances -> [VlSlots -> VlRec]]
  /\ watch \in [Instances -> WatchRec]
  /\ stop \in [Instances -> StopRec]

(***************************************************************************)
(* newKVElection: a constructed election that has not been started.        *)
(***************************************************************************)
ElectionInit ==
  /\ KVInit
  /\ isLeader = [i \in Instances |-> FALSE]
  /\ leaderID = [i \in Instances |-> NoInstance]
  /\ token = [i \in Instances |-> NoToken]
  /\ revision = [i \in Instances |-> 0]
  /\ state = [i \in Instances |-> "INIT"]
  /\ healthFailureCount = [i \in Instances |-> 0]
  /\ ctx = [i \in Instances |-> "nil"]
  /\ watcherRunning = [i \in Instances |-> FALSE]
  /\ acq = [i \in Instances |-> [s \in AcqSlots |-> FreeAcq]]
  /\ hb = [i \in Instances |-> [s \in HbSlots |-> FreeHb]]
  /\ late = {}
  /\ vl = [i \in Instances |-> [s \in VlSlots |-> FreeVl]]
  /\ watch = [i \in Instances |-> WatchOff]
  /\ stop = [i \in Instances |-> NotStopping]

-----------------------------------------------------------------------------
(***************************************************************************)
(* The free slot a new goroutine takes: the lowest, so that the choice of  *)
(* slot adds no states.                                                    *)
(***************************************************************************)
IsNextFree(f, s) ==
  /\ f[s].pc = "free"
  /\ \A q \in DOMAIN f : f[q].pc = "free" => s <= q

Fault(kind, i) == i \in Faults[kind]

GetFails(i) == ~alive \/ Fault("failGet", i)

(***************************************************************************)
(* becomeLeader holds e.mu from its first store to its last, but IsLeader, *)
(* Token and the loops read the atomics without it: isLeader can be seen   *)
(* before the token is stored.  So it takes two steps: isLeader (and       *)
(* leaderID), then the rest.  A finer division shows no reader more: the   *)
(* loops load the revision before the token, and here it is stored after.  *)
(***************************************************************************)
Entering(i) == \E s \in AcqSlots : acq[i][s].pc = "enter"

(***************************************************************************)
(* The bound on loops: becomeLeader begins once slots for them are free.   *)
(***************************************************************************)
HasFree(f) == \E s \in DOMAIN f : f[s].pc = "free"

BecomeLeader(i) ==
  /\ ctx[i] # "nil"
  /\ ~Entering(i)
  /\ HasFree(hb[i])
  /\ i \in Validated => HasFree(vl[i])
  /\ isLeader' = [isLeader EXCEPT ![i] = TRUE]
  /\ leaderID' = [leaderID EXCEPT ![i] = i]

(***************************************************************************)
(* The token of the term, which is the revision of the acquiring write,    *)
(* the revision, the state, the heartbeat loop and the validation loop.    *)
(***************************************************************************)
EnterTerm(i, rev) ==
  /\ token' = [token EXCEPT ![i] = rev]
  /\ revision' = [revision EXCEPT ![i] = rev]
  /\ state' = [state EXCEPT ![i] = "LEADER"]
  /\ \E h \in HbSlots :
       /\ IsNextFree(hb[i], h)
       /\ hb' = [hb EXCEPT ![i][h] = [FreeHb EXCEPT !.pc = "idle"]]
  /\ IF i \in Validated
       THEN \E v \in VlSlots :
              /\ IsNextFree(vl[i], v)
              /\ vl' = [vl EXCEPT ![i][v] = [FreeVl EXCEPT !.pc = "idle"]]
       ELSE UNCHANGED vl

(***************************************************************************)
(* becomeFollower: give up leadership whatever the current state, and      *)
(* start the watch loop unless watcherRunning says there is one.  Token,   *)
(* revision and leaderID keep their values.  becomeLeader and              *)
(* becomeFollower log with e.ctx, so that a nil e.ctx makes them panic     *)
(* (Panic in Shutdown).  Stop clears watcherRunning while the loop may     *)
(* still run; a second loop started then finds ctx cancelled, and is not   *)
(* told from the first.                                                    *)
(***************************************************************************)
StartsWatch(i) == ctx[i] # "nil" /\ ~watcherRunning[i]

(***************************************************************************)
(* Mutant of BecomeFollower: the stores are made without e.mu.             *)
(***************************************************************************)
BecomeFollowerUnlocked(i) ==
  /\ ctx[i] # "nil"
  /\ isLeader' = [isLeader EXCEPT ![i] = FALSE]
  /\ state' = [state EXCEPT ![i] = "FOLLOWER"]
  /\ IF StartsWatch(i)
       THEN /\ watcherRunning' = [watcherRunning EXCEPT ![i] = TRUE]
            /\ watch' = [watch EXCEPT ![i] =
                           IF @.pc \in {"off", "exit"}
                             THEN [WatchOff EXCEPT !.pc = "open"] ELSE @]
       ELSE UNCHANGED <<watcherRunning, watch>>

BecomeFollower(i) ==
  /\ ctx[i] # "nil"
  /\ ~Entering(i)
  /\ isLeader' = [isLeader EXCEPT ![i] = FALSE]
  /\ state' = [state EXCEPT ![i] = "FOLLOWER"]
  /\ IF StartsWatch(i)
       THEN /\ watcherRunning' = [watcherRunning EXCEPT ![i] = TRUE]
            /\ watch' = [watch EXCEPT ![i] =
                           IF @.pc \in {"off", "exit"}
                             THEN [WatchOff EXCEPT !.pc = "open"] ELSE @]
       ELSE UNCHANGED <<watcherRunning, watch>>

(***************************************************************************)
(* go attemptAcquireWithRetry / go attemptAcquire / go checkKeyAndReelect. *)
(***************************************************************************)
SpawnAcquire(i, kind, pc) ==
  \E s \in AcqSlots :
    /\ IsNextFree(acq[i], s)
    /\ acq' = [acq EXCEPT ![i][s] = [FreeAcq EXCEPT !.pc = pc, !.kind = kind]]

=============================================================================
