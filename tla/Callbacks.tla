------------------------------ MODULE Callbacks -------------------------------
(***************************************************************************)
(* The OnPromote and OnDemote callbacks, and the application behind them,  *)
(* which runs its leader tasks from the call of OnPromote to the next call *)
(* of OnDemote.                                                            *)
(*                                                                         *)
(* app[i].promoting: OnPromote goroutines that have not made their call    *)
(* yet; owed: heartbeat and validation loops that have called              *)
(* becomeFollower and go on to call onDemote (counted by e.wg, as the loop *)
(* itself); owedApi: the same for calls of ValidateTokenOrDemote; serving: *)
(* do the leader tasks run?                                                *)
(***************************************************************************)
EXTENDS ElectionState

CONSTANT Callbacks    \* instances with OnPromote and OnDemote registered

ASSUME CallbacksAssumption == Callbacks \subseteq Instances

VARIABLE app

AppRec == [promoting : Nat, owed : Nat, owedApi : Nat, serving : BOOLEAN]

NewApp == [promoting |-> 0, owed |-> 0, owedApi |-> 0, serving |-> FALSE]

AppTypeOK == app \in [Instances -> AppRec]

AppInit == app = [i \in Instances |-> NewApp]

(***************************************************************************)
(* becomeLeader starts a goroutine that calls OnPromote.                   *)
(***************************************************************************)
Promotes(i) ==
  app' = [app EXCEPT ![i].promoting = IF i \in Callbacks THEN @ + 1 ELSE @]

(***************************************************************************)
(* handleHeartbeatFailure, handleHealthCheckFailure and                    *)
(* handleValidationFailure call onDemote after becomeFollower, whether or  *)
(* not the instance was still leader.                                      *)
(***************************************************************************)
Owes(i) == app' = [app EXCEPT ![i].owed = IF i \in Callbacks THEN @ + 1 ELSE @]
OwesApi(i) ==
  app' = [app EXCEPT ![i].owedApi = IF i \in Callbacks THEN @ + 1 ELSE @]

(***************************************************************************)
(* The calls.  The context handed to OnPromote is derived from e.ctx: a    *)
(* demotion does not cancel it.  All but those of Stop use e.ctx.          *)
(***************************************************************************)
OnPromote(i) ==
  /\ app[i].promoting > 0
  /\ ctx[i] # "nil"
  /\ app' = [app EXCEPT ![i].promoting = @ - 1, ![i].serving = TRUE]

OnDemote(i) == app' = [app EXCEPT ![i].serving = FALSE]

LoopCallsOnDemote(i) ==
  /\ app[i].owed > 0
  /\ ctx[i] # "nil"
  /\ app' = [app EXCEPT ![i].owed = @ - 1, ![i].serving = FALSE]

ApiCallsOnDemote(i) ==
  /\ app[i].owedApi > 0
  /\ ctx[i] # "nil"
  /\ app' = [app EXCEPT ![i].owedApi = @ - 1, ![i].serving = FALSE]

NoCallPending(i) ==
  app[i].promoting = 0 /\ app[i].owed = 0 /\ app[i].owedApi = 0

=============================================================================
