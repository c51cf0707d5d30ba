--------------------------- MODULE MissionManager ---------------------------
(***************************************************************************)
(* MissionManager.handle_event (mission_manager.py): what each mission     *)
(* event does to the state of the mission. Every handler is a function of  *)
(* the state: the node calls it from one callback at a time.               *)
(***************************************************************************)
EXTENDS TaskScheduler

CONSTANT MaxArrivalRetries   \* MissionManager's max_arrival_retries

ASSUME RetriesAssumption == MaxArrivalRetries \in Nat

SetMission(w, s) == [w EXCEPT !.mission = s]

-----------------------------------------------------------------------------
(* _advance.                                                               *)

AllSucceeded(w) == \A t \in Task : w.status[t] = "SUCCEEDED"

(* A faulty variant of Runnable: blocked tasks are not looked at again.    *)
RunnableUnlessBlocked(w) ==
  {t \in Task : w.status[t] = "RUNNING" /\ RobotOf(t) \notin w.paused}

Runnable(w) ==
  {t \in Task : w.status[t] \in {"RUNNING", "BLOCKED"} /\ RobotOf(t) \notin w.paused}

(* The loop over the tasks: tick the runnable ones in the dictionary's     *)
(* order until one of them emits a command. A runnable task owns its robot *)
(* (ActiveTaskOwnsRobot in MissionProperties), so there are two at most,   *)
(* and a tick of one leaves the status of the other as it was.             *)
TickRunnable(w) ==
  LET first  == FirstInDict(Runnable(w))
      ticked == Tick(w, first)
      others == Runnable(w) \ {first}
  IN  IF Runnable(w) = {} THEN w
      ELSE IF Emitted(w, ticked) \/ others = {} THEN ticked
      ELSE Tick(ticked, FirstInDict(others))

(* Faulty variants of Advance: completion is not looked for, and no task   *)
(* is started.                                                             *)
AdvanceWithoutStart(w) ==
  IF w.mission # "RUNNING" THEN w
  ELSE IF AllSucceeded(w) THEN SetMission(w, "COMPLETED")
  ELSE TickRunnable(w)

AdvanceWithoutCompletion(w) ==
  IF w.mission # "RUNNING" THEN w ELSE StartNextReady(TickRunnable(w))

Advance(w) ==
  IF w.mission # "RUNNING" THEN w
  ELSE IF AllSucceeded(w) THEN SetMission(w, "COMPLETED")
  ELSE StartNextReady(TickRunnable(w))

-----------------------------------------------------------------------------
(* Results of execution commands. The handlers are given a command that is *)
(* not terminal: for any other, marking it terminal fails and the event is *)
(* dropped.                                                                *)

(* Faulty variants of FailTask: the mission goes on, or the robot that     *)
(* failed is taken off its task.                                           *)
FailTaskOnly(w, t) == SetStatus(w, t, "FAILED")

FailTaskFreeingRobot(w, t) ==
  ReleaseRobot(SetMission(SetStatus(w, t, "FAILED"), "FAILED"), t)

FailTask(w, t) ==
  SetMission(SetBlocker(SetStatus(w, t, "FAILED"), t,
                        BlockedByRobot("command_failed", RobotOf(t))), "FAILED")

(* A faulty variant of IsHeld: a paused mission does not hold its robots.  *)
IsHeldUnlessPaused(w, r) == w.mission = "ABORTED" \/ r \in w.paused

IsHeld(w, r) == w.mission \in {"PAUSED", "ABORTED"} \/ r \in w.paused

HandleCompleted(w, c) ==
  LET done    == MarkTerminal(w, c)
      applied == ApplyCommandSuccess(done, c)
      ticked  == Tick(applied, c.task)
      kept    == IF w.mission = "PAUSED" \/ RobotOf(c.task) \in w.paused
                 THEN "RUNNING" ELSE "CANCELLED"
  IN  IF IsHeld(w, RobotOf(c.task)) THEN SetStatus(applied, c.task, kept)
      ELSE IF ~ IsActiveCommand(w, c) THEN Advance(done)
      ELSE IF Emitted(applied, ticked) THEN StartNextReady(ticked)
      ELSE Advance(ticked)

(* A failed move is retried only when its arrival could not be verified.   *)
CanRetry(w, c) ==
  c.kind = "move" /\ w.retries[c.task][c.target] < MaxArrivalRetries

(* A faulty variant of RetryMove: the retry is counted but not commanded.  *)
CountRetryOnly(w, c) ==
  [SetStatus(w, c.task, "RUNNING") EXCEPT !.retries[c.task][c.target] = @ + 1]

RetryMove(w, c) ==
  CreateMove([SetStatus(w, c.task, "RUNNING") EXCEPT !.retries[c.task][c.target] = @ + 1],
             c.task, c.target)

HandleFailed(w, c, error) ==
  LET dropped == ForgetCommand(MarkTerminal(w, c), c.task)
  IN  IF ~ IsActiveCommand(w, c) THEN MarkTerminal(w, c)
      ELSE IF error = "arrival_not_verified" /\ CanRetry(w, c) THEN RetryMove(dropped, c)
      ELSE FailTask(dropped, c.task)

(* A faulty variant of HandleCancelled: a robot that was resumed before its *)
(* cancellation came is not given its next command.                        *)
HandleCancelledAtRest(w, c, reason) ==
  LET dropped == ForgetCommand(MarkTerminal(w, c), c.task)
      kept    == SetStatus(dropped, c.task, "RUNNING")
  IN  CASE reason \in {"operator_pause", "operator_robot_pause"} -> kept
        [] reason = "operator_abort" -> SetStatus(dropped, c.task, "CANCELLED")
        [] OTHER -> FailTask(dropped, c.task)

(* Another one: the task still waits for the cancelled command.            *)
HandleCancelledStillAwaited(w, c, reason) ==
  LET kept == SetStatus(MarkTerminal(w, c), c.task, "RUNNING")
  IN  CASE reason = "operator_pause" -> kept
        [] reason = "operator_robot_pause" ->
             IF RobotOf(c.task) \in w.paused THEN kept ELSE Advance(kept)
        [] reason = "operator_abort" -> SetStatus(MarkTerminal(w, c), c.task, "CANCELLED")
        [] OTHER -> FailTask(MarkTerminal(w, c), c.task)

HandleCancelled(w, c, reason) ==
  LET done    == MarkTerminal(w, c)
      dropped == IF IsActiveCommand(w, c) THEN ForgetCommand(done, c.task) ELSE done
      kept    == SetStatus(dropped, c.task, "RUNNING")
  IN  CASE reason = "operator_pause" -> kept
        [] reason = "operator_robot_pause" ->
             IF RobotOf(c.task) \in w.paused THEN kept ELSE Advance(kept)
        [] reason = "operator_abort" -> SetStatus(dropped, c.task, "CANCELLED")
        [] OTHER -> FailTask(dropped, c.task)

-----------------------------------------------------------------------------
(* Operator events.                                                        *)

HandleStart(w) == Advance(IF w.mission = "READY" THEN SetMission(w, "RUNNING") ELSE w)

HandlePause(w) == IF w.mission = "RUNNING" THEN SetMission(w, "PAUSED") ELSE w

(* A faulty variant of HandleResume: it does not advance the mission.      *)
HandleResumeAtRest(w) ==
  IF w.mission = "PAUSED" THEN SetMission(w, "RUNNING") ELSE w

HandleResume(w) ==
  IF w.mission = "PAUSED" THEN Advance(SetMission(w, "RUNNING")) ELSE w

HandleRobotPause(w, r) == [w EXCEPT !.paused = @ \cup {r}]

HandleRobotResume(w, r) ==
  IF r \in w.paused THEN Advance([w EXCEPT !.paused = @ \ {r}]) ELSE w

(* A faulty variant of CancelUnfinished: the finished tasks go as well.    *)
CancelEverything(w) == [w EXCEPT !.status = [t \in Task |-> "CANCELLED"]]

CancelUnfinished(w) ==
  [w EXCEPT !.status = [t \in Task |-> IF @[t] = "SUCCEEDED" THEN @[t] ELSE "CANCELLED"]]

(* Faulty variants of HandleAbort: it gives the zone, or the robots, back  *)
(* at once.                                                                *)
HandleAbortFreeingZone(w) ==
  [SetMission(CancelUnfinished(w), "ABORTED") EXCEPT !.zone = EmptyZone]

HandleAbortFreeingRobots(w) ==
  [SetMission(CancelUnfinished(w), "ABORTED") EXCEPT
     !.duty = [r \in Robot |-> "IDLE"], !.claim = [r \in Robot |-> NoTask]]

HandleAbort(w) ==
  IF w.mission \in {"READY", "RUNNING", "PAUSED", "FAILED"}
  THEN SetMission(CancelUnfinished(w), "ABORTED")
  ELSE w
=============================================================================
