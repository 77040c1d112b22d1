------------------------------- MODULE Watcher -------------------------------
(***************************************************************************)
(* watchLoop, checkKeyAndReelect and handleWatchEvent of                   *)
(* leader/watcher.go.  watch[i] is the loop of instance i: "open" calls    *)
(* kv.Watch, "idle" is the select, "follow" handles an event after         *)
(* IsLeader() was found false, "demote" after it was found true, "get" and *)
(* "store" are the periodic check, "exit" has called wg.Done but not yet   *)
(* cleared watcherRunning.  seen is the last revision the watcher may have *)
(* delivered; revisions may be skipped, as the channel handed out by       *)
(* natsWatcherAdapter.Updates loses entries.  nil means that a nil or an   *)
(* empty entry is in the channel.                                          *)
(***************************************************************************)
EXTENDS ElectionState

watchUnchanged == <<kvVars, token, healthFailureCount, ctx, hb, late, vl, stop>>

WatchGoto(i, pc, ev) == watch' = [watch EXCEPT ![i].pc = pc, ![i].ev = ev]

(***************************************************************************)
(* Mutant of WatchOpen: the watch starts one revision too early.           *)
(***************************************************************************)
WatchOpenOffByOne(i) ==
  /\ watch[i].pc = "open"
  /\ watch' = [watch EXCEPT ![i] =
                 [pc |-> "idle", ev |-> 0, nil |-> TRUE,
                  seen |-> IF alive THEN Rev - 2 ELSE Rev]]
  /\ UNCHANGED <<isLeader, leaderID, revision, state, watcherRunning, acq,
                 watchUnchanged>>

(***************************************************************************)
(* kv.Watch: the current entry, if there is one, then the nil entry that   *)
(* ends the initial values.  An error ends the loop for good.              *)
(***************************************************************************)
WatchOpen(i) ==
  /\ watch[i].pc = "open"
  /\ \/ watch' = [watch EXCEPT ![i] =
                    [pc |-> "idle", ev |-> 0, nil |-> TRUE,
                     seen |-> IF alive THEN Rev - 1 ELSE Rev]]
     \/ Fault("failWatch", i) /\ WatchGoto(i, "exit", 0)
  /\ UNCHANGED <<isLeader, leaderID, revision, state, watcherRunning, acq,
                 watchUnchanged>>

(***************************************************************************)
(* handleWatchEvent, entry # nil: what to do depends on IsLeader() at this *)
(* moment, what is done happens a step later.                              *)
(***************************************************************************)
WatchEvent(i, r) ==
  /\ watch[i].pc = "idle"
  /\ r \in (watch[i].seen + 1)..Rev
  /\ LET own == isLeader[i] /\ log[r].id = i
     IN watch' = [watch EXCEPT ![i] =
                    [pc |-> IF own THEN "idle"
                              ELSE IF isLeader[i] THEN "demote" ELSE "follow",
                     ev |-> IF own THEN 0 ELSE r,
                     seen |-> r,
                     nil |-> watch[i].nil]]
  /\ UNCHANGED <<isLeader, leaderID, revision, state, watcherRunning, acq,
                 watchUnchanged>>

(***************************************************************************)
(* Mutant of WatchFollow: the follower caches the leader's token as well.  *)
(***************************************************************************)
WatchFollowToken(i) ==
  LET r == watch[i].ev
  IN /\ watch[i].pc = "follow"
     /\ leaderID' = [leaderID EXCEPT ![i] = log[r].id]
     /\ revision' = [revision EXCEPT ![i] = r]
     /\ token' = [token EXCEPT ![i] = log[r].token]
     /\ WatchGoto(i, "idle", 0)
     /\ UNCHANGED <<kvVars, isLeader, state, healthFailureCount, ctx,
                    watcherRunning, acq, hb, late, vl, stop>>

(***************************************************************************)
(* A follower adopts the event's leader and revision, whatever it is by    *)
(* now.  An event of the leader it already knows may start a takeover.     *)
(***************************************************************************)
SeesChance(i, r) ==
  /\ leaderID[i] = log[r].id
  /\ i \in Takeover
  /\ Priority[i] > Priority[log[r].id]

LogsFollow(i, r) == leaderID[i] # log[r].id \/ SeesChance(i, r)

WatchFollow(i) ==
  LET r == watch[i].ev
  IN /\ watch[i].pc = "follow"
     /\ ctx[i] # "nil" \/ ~LogsFollow(i, r)
     /\ leaderID' = [leaderID EXCEPT ![i] = log[r].id]
     /\ revision' = [revision EXCEPT ![i] = r]
     /\ IF SeesChance(i, r) THEN SpawnAcquire(i, "takeover", "create")
                           ELSE UNCHANGED acq
     /\ WatchGoto(i, "idle", 0)
     /\ UNCHANGED <<isLeader, state, watcherRunning, watchUnchanged>>

(***************************************************************************)
(* Mutant of WatchDemote: the loop ends with the leadership.               *)
(***************************************************************************)
WatchDemoteEnds(i) ==
  /\ watch[i].pc = "demote"
  /\ ctx[i] # "nil"
  /\ ~Entering(i)
  /\ isLeader' = [isLeader EXCEPT ![i] = FALSE]
  /\ state' = [state EXCEPT ![i] = "FOLLOWER"]
  /\ watcherRunning' = [watcherRunning EXCEPT ![i] = FALSE]
  /\ watch' = [watch EXCEPT ![i] = WatchOff]
  /\ UNCHANGED <<leaderID, revision, acq, watchUnchanged>>

(***************************************************************************)
(* leadership_lost_via_watcher.  No OnDemote callback is made here.  The   *)
(* loop is itself the running watch loop, so becomeFollower starts another *)
(* one only after Stop cleared watcherRunning; that one finds ctx done.    *)
(***************************************************************************)
WatchDemote(i) ==
  /\ watch[i].pc = "demote"
  /\ ctx[i] # "nil"
  /\ ~Entering(i)
  /\ isLeader' = [isLeader EXCEPT ![i] = FALSE]
  /\ state' = [state EXCEPT ![i] = "FOLLOWER"]
  /\ watcherRunning' = [watcherRunning EXCEPT ![i] = TRUE]
  /\ WatchGoto(i, "idle", 0)
  /\ UNCHANGED <<leaderID, revision, acq, watchUnchanged>>

(***************************************************************************)
(* handleWatchEvent, nil or empty entry: re-election, leader or not.       *)
(***************************************************************************)
WatchNil(i) ==
  /\ watch[i].pc = "idle"
  /\ watch[i].nil
  /\ ctx[i] # "nil"
  /\ watch' = [watch EXCEPT ![i].nil = FALSE]
  /\ SpawnAcquire(i, "retry", "jitter")
  /\ UNCHANGED <<isLeader, leaderID, revision, state, watcherRunning,
                 watchUnchanged>>

(***************************************************************************)
(* case <-checkTicker.C, and checkKeyAndReelect up to kv.Get.              *)
(***************************************************************************)
WatchTick(i) ==
  /\ watch[i].pc = "idle"
  /\ ~isLeader[i]
  /\ WatchGoto(i, "get", 0)
  /\ UNCHANGED <<isLeader, leaderID, revision, state, watcherRunning, acq,
                 watchUnchanged>>

(***************************************************************************)
(* Mutant of WatchGet: a missing key is left to the watch events.          *)
(***************************************************************************)
WatchGetPassive(i) ==
  /\ watch[i].pc = "get"
  /\ IF alive THEN WatchGoto(i, "store", Rev) ELSE WatchGoto(i, "idle", 0)
  /\ UNCHANGED <<isLeader, leaderID, revision, state, watcherRunning, acq,
                 watchUnchanged>>

WatchGet(i) ==
  /\ watch[i].pc = "get"
  /\ \/ /\ GetFails(i)
        /\ SpawnAcquire(i, "retry", "jitter")
        /\ WatchGoto(i, "idle", 0)
     \/ /\ alive
        /\ WatchGoto(i, "store", Rev)
        /\ UNCHANGED acq
  /\ UNCHANGED <<isLeader, leaderID, revision, state, watcherRunning,
                 watchUnchanged>>

(***************************************************************************)
(* checkKeyAndReelect found an entry: it is adopted if it names another    *)
(* leader than the one known.                                              *)
(***************************************************************************)
NoteLeader(i, r) ==
  IF leaderID[i] \notin {NoInstance, log[r].id}
    THEN /\ leaderID' = [leaderID EXCEPT ![i] = log[r].id]
         /\ revision' = [revision EXCEPT ![i] = r]
    ELSE UNCHANGED <<leaderID, revision>>

WatchStore(i) ==
  /\ watch[i].pc = "store"
  /\ NoteLeader(i, watch[i].ev)
  /\ WatchGoto(i, "idle", 0)
  /\ UNCHANGED <<isLeader, state, watcherRunning, acq, watchUnchanged>>

(***************************************************************************)
(* The Updates channel was closed: a follower checks the key once, in a    *)
(* goroutine of its own, and the loop ends.                                *)
(***************************************************************************)
WatchClosed(i) ==
  /\ watch[i].pc = "idle"
  /\ Fault("failWatch", i)
  /\ IF isLeader[i] THEN UNCHANGED acq ELSE SpawnAcquire(i, "retry", "check")
  /\ WatchGoto(i, "exit", 0)
  /\ UNCHANGED <<isLeader, leaderID, revision, state, watcherRunning,
                 watchUnchanged>>

AcqCheck(i, s) ==
  /\ acq[i][s].pc = "check"
  /\ \/ isLeader[i] /\ acq' = [acq EXCEPT ![i][s] = FreeAcq]
     \/ /\ ~isLeader[i]
        /\ GetFails(i)
        /\ acq' = [acq EXCEPT ![i][s].pc = "jitter"]
     \/ /\ ~isLeader[i]
        /\ alive
        /\ acq' = [acq EXCEPT ![i][s] = [pc |-> "note", kind |-> acq[i][s].kind,
                                         retry |-> acq[i][s].retry, rev |-> Rev]]
  /\ UNCHANGED <<isLeader, leaderID, revision, state, watcherRunning, watch,
                 watchUnchanged>>

AcqNote(i, s) ==
  /\ acq[i][s].pc = "note"
  /\ NoteLeader(i, acq[i][s].rev)
  /\ acq' = [acq EXCEPT ![i][s] = FreeAcq]
  /\ UNCHANGED <<isLeader, state, watcherRunning, watch, watchUnchanged>>

(***************************************************************************)
(* Mutant of WatchCancelled: the loop waits for e.ctx to be cleared, which *)
(* StopWithContext does only after it has waited for the loop.             *)
(***************************************************************************)
WatchUntilCleared(i) ==
  /\ watch[i].pc = "idle"
  /\ ctx[i] = "nil"
  /\ WatchGoto(i, "exit", 0)
  /\ UNCHANGED <<isLeader, leaderID, revision, state, watcherRunning, acq,
                 watchUnchanged>>

(***************************************************************************)
(* case <-ctx.Done(), and the deferred calls of the loop's goroutine:      *)
(* wg.Done first, then watcherRunning.Store(false).                        *)
(***************************************************************************)
WatchCancelled(i) ==
  /\ watch[i].pc = "idle"
  /\ ctx[i] # "live"
  /\ WatchGoto(i, "exit", 0)
  /\ UNCHANGED <<isLeader, leaderID, revision, state, watcherRunning, acq,
                 watchUnchanged>>

(***************************************************************************)
(* The points of the loop that use e.ctx: watchLoop(e.ctx) as it begins,   *)
(* and the log calls of handleWatchEvent.                                  *)
(***************************************************************************)
WatchUsesCtx(i) ==
  \/ watch[i].pc \in {"open", "demote"}
  \/ watch[i].pc = "follow" /\ LogsFollow(i, watch[i].ev)
  \/ watch[i].pc = "idle" /\ watch[i].nil

WatchExit(i) ==
  /\ watch[i].pc = "exit"
  /\ watch' = [watch EXCEPT ![i] = WatchOff]
  /\ watcherRunning' = [watcherRunning EXCEPT ![i] = FALSE]
  /\ UNCHANGED <<isLeader, leaderID, revision, state, acq, watchUnchanged>>

=============================================================================
