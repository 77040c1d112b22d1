---------------------------- MODULE MCKVElection -----------------------------
(***************************************************************************)
(* Values for model checking KVElection: at most two instances, b of       *)
(* higher priority than a.                                                 *)
(***************************************************************************)
EXTENDS KVElection

CONSTANTS
  a, b,
  CommonFaults,   \* faults every instance may meet
  FaultsOfA,      \* faults that only a may meet
  FaultsOfB       \* faults that only b may meet

MCPriority == [i \in Instances |-> IF i = b THEN 2 ELSE 1]

MCFaults ==
  [k \in FaultKinds |->
     {i \in Instances : \/ k \in CommonFaults
                        \/ i = a /\ k \in FaultsOfA
                        \/ i = b /\ k \in FaultsOfB}]

=============================================================================
