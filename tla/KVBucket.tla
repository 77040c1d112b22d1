------------------------------- MODULE KVBucket -------------------------------
(***************************************************************************)
(* The one key of a JetStream KV bucket that an election group competes    *)
(* for, as leader/kv_election.go uses it: Create is "write if absent",     *)
(* Update is compare-and-swap on the revision, Get reads, Delete removes   *)
(* unconditionally, and the bucket's TTL lets the key expire.              *)
(*                                                                         *)
(* log[r] is the payload written at revision r.  The key holds the last    *)
(* payload of log while alive is TRUE; Delete and TTL expiry clear alive.  *)
(* A payload is the writer's id and its fencing token; the priority field  *)
(* is the writer's configured Priority and is not repeated.  A token       *)
(* (a fresh UUID per acquisition) is represented by the revision at which  *)
(* that acquisition was written, which is fresh as well.                   *)
(***************************************************************************)
EXTENDS Integers, Sequences

CONSTANTS
  Instances,    \* InstanceIDs that take part in the election
  Priority,     \* Priority[i]: cfg.Priority of instance i
  MaxRev        \* bound on the number of successful writes to the key

ASSUME InstancesAssumption == Instances # {}
ASSUME PriorityAssumption == Priority \in [Instances -> Nat]
ASSUME MaxRevAssumption == MaxRev \in Nat

VARIABLES
  log,          \* payloads by revision
  alive         \* does the key exist?

kvVars == <<log, alive>>

Payload == [id : Instances, token : Nat]

KVTypeOK ==
  /\ log \in Seq(Payload)
  /\ alive \in BOOLEAN

KVInit ==
  /\ log = <<>>
  /\ alive = FALSE

Rev == Len(log)

(***************************************************************************)
(* Every successful write takes the next revision.                         *)
(***************************************************************************)
Write(id, tok) ==
  /\ Rev < MaxRev
  /\ log' = Append(log, [id |-> id, token |-> tok])
  /\ alive' = TRUE

(***************************************************************************)
(* Mutant of CreateOk: a plain Put.                                        *)
(***************************************************************************)
CreateOverwrites(i) == Write(i, Rev + 1)

(***************************************************************************)
(* Create succeeds only while the key is absent.  The new entry carries a  *)
(* fresh token.                                                            *)
(***************************************************************************)
CreateOk(i) == ~alive /\ Write(i, Rev + 1)

(***************************************************************************)
(* Update succeeds only while the key exists at the expected revision.     *)
(***************************************************************************)
CasHolds(r) == alive /\ Rev = r
UpdateOk(i, tok, r) == CasHolds(r) /\ Write(i, tok)

(***************************************************************************)
(* Delete removes the key whoever wrote it.                                *)
(***************************************************************************)
DeleteKey == alive' = FALSE /\ UNCHANGED log

(***************************************************************************)
(* The bucket's TTL (MaxAge) removed the entry.  Time is abstracted: any   *)
(* process may be paused longer than the TTL at any point.                 *)
(***************************************************************************)
ExpireKey ==
  /\ alive
  /\ alive' = FALSE
  /\ UNCHANGED log

=============================================================================
