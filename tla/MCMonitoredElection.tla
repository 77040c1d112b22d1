-------------------------- MODULE MCMonitoredElection -------------------------
(***************************************************************************)
(* Values for model checking MonitoredElection.                            *)
(***************************************************************************)
EXTENDS MonitoredElection

CONSTANTS
  a, b,
  OtherFaults     \* faults besides the KV errors of a lost connection

MCPriority == [i \in Instances |-> IF i = b THEN 2 ELSE 1]

CallErrors == {"failCreate", "failUpdate", "failGet", "failWatch", "failDelete"}

MCFaults ==
  [k \in FaultKinds |->
     IF k \in OtherFaults THEN Instances
     ELSE IF k \in CallErrors THEN Monitored ELSE {}]

=============================================================================
