------------------------------- MODULE Fencing -------------------------------
(***************************************************************************)
(* validationLoop of leader/fencing.go, and validateToken, ValidateToken   *)
(* and ValidateTokenOrDemote of leader/kv_election.go.  A validation is a  *)
(* slot of vl[i]: kind "loop" is the background loop of a term, kind "api" *)
(* a call of ValidateTokenOrDemote by the application.  "get" has loaded   *)
(* the local token and reads the entry, "invalid" is about to demote.      *)
(***************************************************************************)
EXTENDS ElectionState

vlUnchanged == <<kvVars, leaderID, token, revision, healthFailureCount, ctx,
                 acq, hb, late, stop>>

VlEnd(i, v) == vl' = [vl EXCEPT ![i][v] = FreeVl]

(***************************************************************************)
(* case <-ctx.Done().                                                      *)
(***************************************************************************)
VlExit(i, v) ==
  /\ vl[i][v].pc = "idle"
  /\ ctx[i] # "live"
  /\ VlEnd(i, v)
  /\ UNCHANGED <<roleVars, vlUnchanged>>

(***************************************************************************)
(* case <-ticker.C, and validateToken up to kv.Get.                        *)
(***************************************************************************)
VlTick(i, v) ==
  /\ vl[i][v].pc = "idle"
  /\ IF isLeader[i]
       THEN vl' = [vl EXCEPT ![i][v].pc = "get", ![i][v].tok = token[i]]
       ELSE VlEnd(i, v)
  /\ UNCHANGED <<roleVars, vlUnchanged>>

(***************************************************************************)
(* The application calls ValidateTokenOrDemote.  On an instance that is    *)
(* not leader ValidateToken fails at once, and the call goes on to ask     *)
(* IsLeader() again, as after any other failure.  The bound on slots must  *)
(* not make calls and validation loops compete: calls leave one free.      *)
(***************************************************************************)
ValidateTokenOrDemote(i) ==
  /\ \E v \in VlSlots :
       /\ IsNextFree(vl[i], v)
       /\ i \in Validated =>
            \E w \in VlSlots \ {v} : vl[i][w].pc = "free"
       /\ vl' = [vl EXCEPT ![i][v] =
                   IF isLeader[i]
                     THEN [pc |-> "get", kind |-> "api", tok |-> token[i],
                           fails |-> 0]
                     ELSE [pc |-> "invalid", kind |-> "api", tok |-> NoToken,
                           fails |-> 0]]
  /\ UNCHANGED <<roleVars, vlUnchanged>>

(***************************************************************************)
(* validateToken: the entry exists and carries the local token and id.     *)
(***************************************************************************)
TokenMatches(i, tok) ==
  /\ alive
  /\ log[Rev].token = tok
  /\ log[Rev].id = i

VlValid(i, v) ==
  /\ vl[i][v].pc = "get"
  /\ TokenMatches(i, vl[i][v].tok)
  /\ vl' = [vl EXCEPT ![i][v] = IF @.kind = "api" THEN FreeVl
                                  ELSE [FreeVl EXCEPT !.pc = "idle"]]
  /\ UNCHANGED <<roleVars, vlUnchanged>>

(***************************************************************************)
(* An error or a mismatch.  The loop tolerates MaxInvalid - 1 in a row.    *)
(***************************************************************************)
VlInvalid(i, v) ==
  LET g == vl[i][v]
  IN /\ g.pc = "get"
     /\ \/ ~TokenMatches(i, g.tok)
        \/ Fault("failGet", i)
        \/ Fault("timeout", i)
        \/ g.kind = "loop" /\ ctx[i] # "live"
     /\ vl' = [vl EXCEPT ![i][v] =
                 IF g.kind = "api" \/ g.fails + 1 >= MaxInvalid
                   THEN [g EXCEPT !.pc = "invalid"]
                   ELSE [pc |-> "idle", kind |-> "loop", tok |-> NoToken,
                         fails |-> g.fails + 1]]
     /\ UNCHANGED <<roleVars, vlUnchanged>>

(***************************************************************************)
(* Mutant of VlDemote: the loop ends, the instance stays leader.           *)
(***************************************************************************)
VlDemoteSilent(i, v) ==
  /\ vl[i][v].pc = "invalid"
  /\ VlEnd(i, v)
  /\ UNCHANGED <<roleVars, vlUnchanged>>

HandleValidationFailure(i) == BecomeFollower(i)

(***************************************************************************)
(* ValidateTokenOrDemote asks IsLeader() again before it demotes, the loop *)
(* does not.                                                               *)
(***************************************************************************)
DemotesInvalid(i, g) == g.pc = "invalid" /\ (g.kind = "loop" \/ isLeader[i])

VlDemote(i, v) ==
  /\ vl[i][v].pc = "invalid"
  /\ IF DemotesInvalid(i, vl[i][v])
       THEN HandleValidationFailure(i)
       ELSE UNCHANGED roleVars
  /\ VlEnd(i, v)
  /\ UNCHANGED vlUnchanged

=============================================================================
